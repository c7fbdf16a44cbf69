--------------------------- MODULE CmdPipeProofs ---------------------------
(***************************************************************************)
(* Theorems about CmdPipe, for any set of clients and any value of the      *)
(* bounds.                                                                  *)
(***************************************************************************)
EXTENDS CmdPipe, TLAPS

USE CmdPipeAssumption DEF CmdPipeAssumption, ClientPC

\* A client still trying has an attempt left.
TriesLeft == \A c \in Clients : pc[c] = "trying" => tries[c] # 0

TypeInv == TypeOK /\ TriesLeft

LEMMA ModRange == ASSUME NEW n \in Nat, NEW m \in Nat \ {0}
                  PROVE  n % m \in 0..m-1
  OBVIOUS

LEMMA OwnType == ASSUME TypeOK, NEW c \in Clients PROVE Own(c) \in Msg
  BY DEF TypeOK, Own, Msg

LEMMA NoMsg == <<>> \in Seq(Msg)
  OBVIOUS

LEMMA TypeInit == Init => TypeInv
  BY NoMsg DEF Init, TypeInv, TypeOK, TriesLeft

LEMMA TypeNext == TypeInv /\ [Next]_vars => TypeInv'
  <1> SUFFICES ASSUME TypeInv, [Next]_vars PROVE TypeInv'
      OBVIOUS
  <1> USE NoMsg DEF TypeInv, TypeOK, TriesLeft, pipeVars, agentVars,
            boundVars, histVars, clientVars
  <1>1. ASSUME NEW c \in Clients, Open(c) PROVE TypeInv'
    <2>1. (call[c] + 1) % CallIds \in 0..CallIds-1
      <3>1. call[c] + 1 \in Nat
        OBVIOUS
      <3> QED BY <3>1, ModRange
    <2> DEFINE n == (call[c] + 1) % CallIds
    <2>2. call' = [call EXCEPT ![c] = n]
      BY <1>1 DEF Open
    <2> HIDE DEF n
    <2>3. n \in 0..CallIds-1
      BY <2>1 DEF n
    <2> QED BY <1>1, <2>2, <2>3 DEF Open
  <1>2. ASSUME NEW c \in Clients, Acquire(c) PROVE TypeInv'
      BY <1>2 DEF Acquire
  <1>3. ASSUME NEW c \in Clients, Retry(c) PROVE TypeInv'
      BY <1>3 DEF Retry
  <1>4. ASSUME NEW c \in Clients, Write(c) PROVE TypeInv'
      BY <1>4, OwnType DEF Write
  <1>5. ASSUME NEW c \in Clients, Read(c) PROVE TypeInv'
      BY <1>5 DEF Read
  <1>6. ASSUME NEW c \in Clients, Timeout(c) PROVE TypeInv'
      BY <1>6 DEF Timeout
  <1>7. ASSUME NEW c \in Clients, Release(c) PROVE TypeInv'
      BY <1>7 DEF Release, Exit
  <1>8. ASSUME NEW c \in Clients, Kill(c) PROVE TypeInv'
      BY <1>8 DEF Kill, Exit
  <1>9. NextLoop \in 0..CheckEvery-1
      BY ModRange DEF NextLoop
  <1>10. CASE IdlePass
      BY <1>9, <1>10 DEF IdlePass
  <1>11. CASE OtherInput
      BY <1>9, <1>11 DEF OtherInput
  <1>17. CASE ServeOther
      BY <1>17 DEF ServeOther
  <1>12. CASE Take
      BY <1>9, <1>12 DEF Take
  <1>13. CASE Answer
      BY <1>13 DEF Answer
  <1>14. CASE Check
      BY <1>14 DEF Check, Bump
  <1>15. CASE Reset
      BY <1>15 DEF Reset
  <1>16. CASE UNCHANGED vars
      BY <1>16 DEF vars
  <1> QED BY <1>1, <1>2, <1>3, <1>4, <1>5, <1>6, <1>7, <1>8, <1>10, <1>11,
             <1>12, <1>13, <1>14, <1>15, <1>16, <1>17
          DEF Next, AgentStep, ClientStep

\* Every variable keeps its type: in particular the retry count never runs
\* below zero and the agent's counts stay in range.
THEOREM TypeCorrect == Spec => []TypeOK
  <1>1. TypeInv => TypeOK
    BY DEF TypeInv
  <1> QED BY TypeInit, TypeNext, <1>1, PTL DEF Spec
----------------------------------------------------------------------------
(* The protocol while no fault has happened: the semaphore is one and the   *)
(* path is empty, or one client has it and the path holds nothing but the   *)
(* request or the answer of its call.                                       *)

Outside(c) == pc[c] \in {"idle", "trying"}

Quiet == reqPipe = <<>> /\ rspPipe = <<>> /\ serving = <<>> /\ agent # "serve"

\* Where the message of c's call is while c waits.
OnItsWay(c) ==
  \/ reqPipe = <<Own(c)>> /\ rspPipe = <<>> /\ serving = <<>> /\ agent # "serve"
  \/ reqPipe = <<>> /\ rspPipe = <<>> /\ serving = <<Own(c)>> /\ agent = "serve"
  \/ reqPipe = <<>> /\ rspPipe = <<Own(c)>> /\ serving = <<>> /\ agent # "serve"

Free == /\ semval = 1
        /\ Quiet
        /\ \A d \in Clients : Outside(d)

InCall(c) == /\ semval = 0
             /\ \A d \in Clients : d # c => Outside(d)
             /\ \/ pc[c] = "holding" /\ Quiet
                \/ pc[c] = "waiting" /\ OnItsWay(c)
                \/ pc[c] = "releasing" /\ Quiet /\ got[c] = <<Own(c)>>

Protocol == Free \/ \E c \in Clients : InCall(c)

\* Only a client about to return has an answer.
NoAnswerYet == \A c \in Clients : pc[c] # "releasing" => got[c] = <<>>

IInv == TypeInv /\ NoAnswerYet /\ (Faultless => Protocol)

LEMMA OneMsg == ASSUME NEW S, NEW m \in S
                PROVE  /\ Len(<<m>>) = 1
                       /\ Append(<<>>, m) = <<m>>
                       /\ <<>> \o <<m>> = <<m>>
                       /\ <<m>> # <<>>
  OBVIOUS

LEMMA NoAnswerNext == TypeInv /\ NoAnswerYet /\ [Next]_vars => NoAnswerYet'
  BY DEF TypeInv, TypeOK, NoAnswerYet, Next, AgentStep, ClientStep, Open,
         Acquire, Retry, Write, Read, Timeout, Release, Kill, Exit, IdlePass,
         OtherInput, ServeOther, Take, Answer, Check, Reset, vars, clientVars

\* A fault is never forgotten.
LEMMA FaultStays == TypeInv /\ [Next]_vars /\ Faultless' => Faultless
  BY DEF TypeInv, TypeOK, Faultless, Next, AgentStep, ClientStep, Open,
         Acquire, Retry, Write, Read, Timeout, Release, Kill, IdlePass,
         OtherInput, ServeOther, Take, Answer, Check, Reset, vars, boundVars, histVars

\* Steps from a state in which nobody has the semaphore.
LEMMA FreeNext ==
  ASSUME TypeInv, NoAnswerYet, Free, [Next]_vars, Faultless, Faultless'
  PROVE  Protocol'
  <1> USE DEF TypeInv, TypeOK, Free, Quiet, Outside, pipeVars, agentVars,
              boundVars, histVars, clientVars
  <1>1. ASSUME NEW c \in Clients, Open(c) PROVE Free'
    BY <1>1 DEF Open
  <1>2. ASSUME NEW c \in Clients, Acquire(c) PROVE InCall(c)'
    BY <1>2 DEF Acquire, InCall
  <1>3. ASSUME NEW c \in Clients PROVE ~Retry(c) /\ ~Write(c) /\ ~Read(c)
                                   /\ ~Timeout(c) /\ ~Release(c)
    <2>1. Outside(c) /\ semval # 0
      OBVIOUS
    <2>2. ~Retry(c)
      BY <2>1 DEF Retry
    <2>3. pc[c] \notin {"holding", "waiting", "releasing"}
      BY <2>1
    <2> QED BY <2>2, <2>3 DEF Write, Read, Timeout, Release
  <1>4. ASSUME NEW c \in Clients PROVE ~Kill(c)
    BY DEF Kill, Faultless
  <1>5. ASSUME IdlePass PROVE Free'
    BY <1>5 DEF IdlePass
  <1>6. ASSUME OtherInput \/ ServeOther PROVE Free'
    BY <1>6 DEF OtherInput, ServeOther
  <1>7. ~Take /\ ~Answer
    BY DEF Take, Answer
  <1>8. ASSUME Check PROVE Free'
    BY <1>8 DEF Check
  <1>9. ASSUME Reset PROVE Free'
    BY <1>9 DEF Reset
  <1>10. ASSUME UNCHANGED vars PROVE Free'
    BY <1>10 DEF vars
  <1> QED BY <1>1, <1>2, <1>3, <1>4, <1>5, <1>6, <1>7, <1>8, <1>9, <1>10
          DEF Next, AgentStep, ClientStep, Protocol

\* Steps from a state in which h has the semaphore.
LEMMA CallNext ==
  ASSUME TypeInv, NoAnswerYet, [Next]_vars, Faultless, Faultless',
         NEW h \in Clients, InCall(h)
  PROVE  Free' \/ InCall(h)'
  <1> DEFINE own == Own(h)
  <1> USE DEF TypeInv, TypeOK, Free, InCall, Quiet, OnItsWay, Outside
  <1>m. /\ Len(<<own>>) = 1
        /\ Append(<<>>, own) = <<own>>
        /\ <<>> \o <<own>> = <<own>>
        /\ <<own>> # <<>>
    BY OneMsg, OwnType
  <1>o. ASSUME UNCHANGED call PROVE Own(h)' = own
    BY <1>o DEF Own
  <1>h. ASSUME NEW c \in Clients, pc[c] \in {"holding", "waiting", "releasing"}
        PROVE  c = h
    BY <1>h
  <1>1. ASSUME NEW c \in Clients, Open(c) PROVE InCall(h)'
    <2>1. c # h /\ Own(h)' = own
      BY <1>1 DEF Open, Own
    <2> QED BY <1>1, <2>1 DEF Open, pipeVars, agentVars
  <1>2. ASSUME NEW c \in Clients PROVE ~Acquire(c)
    BY DEF Acquire
  <1>3. ASSUME NEW c \in Clients, Retry(c) PROVE InCall(h)'
    BY <1>3, <1>o DEF Retry, pipeVars, agentVars
  <1>4. ASSUME NEW c \in Clients, Write(c) PROVE InCall(h)'
    <2>1. c = h /\ pc[h] = "holding"
      BY <1>4, <1>h DEF Write
    <2> QED BY <1>4, <2>1, <1>m, <1>o DEF Write, agentVars
  <1>5. ASSUME NEW c \in Clients, Read(c) PROVE InCall(h)'
    <2>1. c = h /\ rspPipe = <<own>> /\ reqPipe = <<>> /\ serving = <<>> /\ agent # "serve"
      BY <1>5, <1>h DEF Read
    <2>2. got' = [got EXCEPT ![c] = rspPipe] /\ pc' = [pc EXCEPT ![c] = "releasing"]
      BY <1>5, <2>1, <1>m DEF Read
    <2> QED BY <1>5, <2>1, <2>2, <1>o DEF Read, agentVars
  <1>6. ASSUME NEW c \in Clients PROVE ~Timeout(c)
    <2> SUFFICES ASSUME Timeout(c) PROVE FALSE
      OBVIOUS
    <2>1. c = h /\ rspPipe = <<>>
      BY <1>h DEF Timeout
    <2>2. reqPipe = <<own>> \/ serving = <<own>>
      BY <2>1, <1>m DEF Timeout
    <2>3. Pending(c)
      BY <2>1, <2>2, <1>m DEF Pending
    <2> QED BY <2>3 DEF Timeout, Faultless
  <1>7. ASSUME NEW c \in Clients, Release(c) PROVE Free'
    BY <1>7, <1>h DEF Release, Exit, pipeVars, agentVars
  <1>8. ASSUME NEW c \in Clients PROVE ~Kill(c)
    BY DEF Kill, Faultless
  <1>9. CASE IdlePass
    BY <1>9, <1>o DEF IdlePass, pipeVars
  <1>10. CASE OtherInput \/ ServeOther
    BY <1>10, <1>o DEF OtherInput, ServeOther, pipeVars, clientVars
  <1>11. CASE Take
    <2>1. pc[h] = "waiting" /\ reqPipe = <<own>> /\ rspPipe = <<>>
      BY <1>11 DEF Take
    <2>2. serving' = <<own>> /\ agent' = "serve"
      BY <1>11, <2>1, <1>m DEF Take
    <2> QED BY <1>11, <2>1, <2>2, <1>o DEF Take, clientVars
  <1>12. CASE Answer
    <2>1. pc[h] = "waiting" /\ serving = <<own>> /\ rspPipe = <<>> /\ reqPipe = <<>>
      BY <1>12 DEF Answer
    <2>2. rspPipe' = <<own>>
      BY <1>12, <2>1, <1>m DEF Answer
    <2> QED BY <1>12, <2>1, <2>2, <1>o DEF Answer, clientVars
  <1>13. CASE Check
    BY <1>13, <1>o DEF Check, pipeVars, clientVars
  <1>14. ~Reset
    BY DEF Reset, Faultless
  <1>15. CASE UNCHANGED vars
    BY <1>15, <1>o DEF vars, pipeVars, clientVars, agentVars
  <1> QED BY <1>1, <1>2, <1>3, <1>4, <1>5, <1>6, <1>7, <1>8, <1>9, <1>10, <1>11,
             <1>12, <1>13, <1>14, <1>15
          DEF Next, AgentStep, ClientStep

LEMMA IInvInit == Init => IInv
  BY TypeInit DEF Init, IInv, NoAnswerYet, Protocol, Free, Quiet, Outside

LEMMA IInvNext == IInv /\ [Next]_vars => IInv'
  <1> SUFFICES ASSUME IInv, [Next]_vars PROVE IInv'
    OBVIOUS
  <1>1. TypeInv' /\ NoAnswerYet'
    BY TypeNext, NoAnswerNext DEF IInv
  <1>2. ASSUME Faultless' PROVE Protocol'
    <2>1. Faultless /\ Protocol
      BY <1>2, FaultStays DEF IInv
    <2>2. CASE Free
      BY <1>2, <2>1, <2>2, FreeNext DEF IInv
    <2>3. ASSUME NEW h \in Clients, InCall(h) PROVE Protocol'
      BY <1>2, <2>1, <2>3, CallNext DEF IInv, Protocol
    <2> QED BY <2>1, <2>2, <2>3 DEF Protocol
  <1> QED BY <1>1, <1>2 DEF IInv

LEMMA IInvSafe == IInv => SafeUntilFault
  BY DEF IInv, SafeUntilFault, Protocol, Free, InCall, Outside, MutualExclusion,
         Holders, OwnAnswer

\* Until a client is killed, an answer is late or the agent breaks the
\* semaphore, one client at a time uses the FIFOs and every call that succeeds
\* gets the answer to its own request (comm::send_cmd and main.c:327-337).
THEOREM SafeUntilFaultHolds == Spec => []SafeUntilFault
  BY IInvInit, IInvNext, IInvSafe, PTL DEF Spec

----------------------------------------------------------------------------
(* Refinement: while no fault has happened, every step of the command path  *)
(* is a step of CommandService or leaves what the callers see unchanged.    *)

LEMMA OwnDiffers == ASSUME NEW c, NEW d, c # d PROVE <<Own(c)>> # <<Own(d)>>
  BY DEF Own

\* A client that is not in the middle of its call has had nothing executed.
BarOutside(c) == PhaseOf(c) = IF pc[c] = "idle" THEN "idle" ELSE "asked"

LEMMA PhaseFree == ASSUME TypeInv, NoAnswerYet, Free, NEW c \in Clients
                   PROVE  BarOutside(c)
  <1>1. rspPipe = <<>> /\ got[c] = <<>>
    BY DEF Free, Quiet, Outside, NoAnswerYet
  <1>2. <<Own(c)>> # <<>>
    OBVIOUS
  <1> QED BY <1>1, <1>2 DEF PhaseOf, BarOutside

LEMMA PhaseCall ==
  ASSUME TypeInv, NoAnswerYet, NEW h \in Clients, InCall(h)
  PROVE  /\ \A c \in Clients : c # h => BarOutside(c)
         /\ PhaseOf(h) = IF pc[h] = "releasing" \/ rspPipe = <<Own(h)>>
                         THEN "executed" ELSE "asked"
  <1>1. ASSUME NEW c \in Clients, c # h PROVE BarOutside(c)
    <2>1. got[c] = <<>> /\ <<Own(c)>> # <<>>
      BY <1>1 DEF InCall, Outside, NoAnswerYet
    <2>2. rspPipe \in {<<>>, <<Own(h)>>}
      BY DEF InCall, OnItsWay, Quiet
    <2>3. rspPipe # <<Own(c)>>
      BY <1>1, <2>1, <2>2, OwnDiffers
    <2> QED BY <2>1, <2>3 DEF PhaseOf, BarOutside
  <1>2. pc[h] # "idle"
    BY DEF InCall
  <1>3. ASSUME pc[h] = "releasing" PROVE PhaseOf(h) = "executed"
    <2>1. got[h] = <<Own(h)>>
      BY <1>3 DEF InCall
    <2> QED BY <1>2, <1>3, <2>1 DEF PhaseOf
  <1>4. ASSUME pc[h] # "releasing"
        PROVE  PhaseOf(h) = IF rspPipe = <<Own(h)>> THEN "executed" ELSE "asked"
    <2>1. got[h] = <<>> /\ <<Own(h)>> # <<>>
      BY <1>4 DEF NoAnswerYet
    <2> QED BY <1>2, <1>4, <2>1 DEF PhaseOf
  <1>5. PhaseOf(h) = IF pc[h] = "releasing" \/ rspPipe = <<Own(h)>>
                     THEN "executed" ELSE "asked"
    BY <1>3, <1>4
  <1> QED BY <1>1, <1>5

\* The step changed the phase of one client, or of none.
LEMMA BarChange ==
  ASSUME NEW c \in Clients, NEW v, PhaseOf(c)' = v,
         \A d \in Clients : d # c => PhaseOf(d)' = PhaseOf(d)
  PROVE  phaseBar' = [phaseBar EXCEPT ![c] = v]
  BY DEF phaseBar

LEMMA BarSame ==
  ASSUME \A d \in Clients : PhaseOf(d)' = PhaseOf(d)
  PROVE  phaseBar' = phaseBar
  BY DEF phaseBar

LEMMA PhaseKeep ==
  ASSUME NEW d, (pc'[d] = "idle") <=> (pc[d] = "idle"), call'[d] = call[d],
         rspPipe' = rspPipe, got'[d] = got[d]
  PROVE  PhaseOf(d)' = PhaseOf(d)
  BY DEF PhaseOf, Own

LEMMA PhaseAsked ==
  ASSUME NEW d, pc'[d] # "idle", got'[d] = <<>>, rspPipe' # <<Own(d)'>>
  PROVE  PhaseOf(d)' = "asked"
  <1>1. <<Own(d)'>> # <<>>
    OBVIOUS
  <1> QED BY <1>1 DEF PhaseOf, Own

LEMMA BarFree ==
  ASSUME TypeInv, NoAnswerYet, Free, [Next]_vars, Faultless, Faultless'
  PROVE  [Service!Next]_phaseBar
  <1> USE DEF TypeInv, TypeOK, Free, Quiet, Outside, pipeVars, agentVars,
              boundVars, histVars, clientVars
  <1>1. ASSUME NEW c \in Clients, Open(c) PROVE Service!Next
    <2>1. got[c] = <<>> /\ <<Own(c)'>> # <<>>
      BY DEF NoAnswerYet
    <2>2. PhaseOf(c)' = "asked"
      BY <1>1, <2>1, PhaseAsked DEF Open
    <2>3. ASSUME NEW d \in Clients, d # c PROVE PhaseOf(d)' = PhaseOf(d)
      BY <1>1, <2>3, PhaseKeep DEF Open
    <2>4. PhaseOf(c) = "idle"
      BY <1>1 DEF Open, PhaseOf
    <2>5. phaseBar' = [phaseBar EXCEPT ![c] = "asked"] /\ phaseBar[c] = "idle"
      BY <2>2, <2>3, <2>4, BarChange DEF phaseBar
    <2> QED BY <2>5 DEF Service!Next, Service!Ask
  <1>2. ASSUME NEW c \in Clients, Acquire(c) PROVE phaseBar' = phaseBar
    BY <1>2, PhaseKeep, BarSame DEF Acquire
  <1>3. ASSUME NEW c \in Clients PROVE ~Retry(c) /\ ~Write(c) /\ ~Read(c)
                                   /\ ~Timeout(c) /\ ~Release(c)
    <2>1. Outside(c) /\ semval # 0
      OBVIOUS
    <2>2. ~Retry(c)
      BY <2>1 DEF Retry
    <2>3. pc[c] \notin {"holding", "waiting", "releasing"}
      BY <2>1
    <2> QED BY <2>2, <2>3 DEF Write, Read, Timeout, Release
  <1>4. ASSUME NEW c \in Clients PROVE ~Kill(c)
    BY DEF Kill, Faultless
  <1>5. ASSUME IdlePass \/ OtherInput \/ ServeOther \/ Check \/ Reset \/ UNCHANGED vars
        PROVE  phaseBar' = phaseBar
    <2>1. UNCHANGED <<pc, call, got, rspPipe>>
      BY <1>5 DEF IdlePass, OtherInput, ServeOther, Check, Reset, vars
    <2> QED BY <2>1, PhaseKeep, BarSame
  <1>6. ~Take /\ ~Answer
    BY DEF Take, Answer
  <1> QED BY <1>1, <1>2, <1>3, <1>4, <1>5, <1>6 DEF Next, AgentStep, ClientStep

LEMMA BarCall ==
  ASSUME TypeInv, NoAnswerYet, [Next]_vars, Faultless, Faultless',
         NEW h \in Clients, InCall(h)
  PROVE  [Service!Next]_phaseBar
  <1> USE DEF TypeInv, TypeOK, Quiet, OnItsWay, Outside
  <1>p. /\ \A c \in Clients : c # h => BarOutside(c)
        /\ PhaseOf(h) = IF pc[h] = "releasing" \/ rspPipe = <<Own(h)>>
                        THEN "executed" ELSE "asked"
    BY PhaseCall
  <1>m. /\ <<Own(h)>> # <<>>
        /\ <<>> \o <<Own(h)>> = <<Own(h)>>
        /\ Len(<<Own(h)>>) = 1
    BY OneMsg, OwnType
  <1>h. ASSUME NEW c \in Clients, pc[c] \in {"holding", "waiting", "releasing"}
        PROVE  c = h
    BY <1>h DEF InCall
  <1>g. ASSUME NEW c \in Clients, c # h PROVE got[c] = <<>> /\ pc[c] \in {"idle", "trying"}
    BY <1>g DEF InCall, NoAnswerYet
  <1>r. rspPipe \in {<<>>, <<Own(h)>>}
    BY DEF InCall
  <1>1. ASSUME NEW c \in Clients, Open(c) PROVE Service!Next
    <2>1. c # h
      BY <1>1 DEF Open, InCall
    <2>2. rspPipe' # <<Own(c)'>>
      <3>1. <<Own(c)'>> # <<Own(h)>> /\ <<Own(c)'>> # <<>>
        BY <2>1 DEF Own
      <3> QED BY <3>1, <1>1, <1>r DEF Open, pipeVars
    <2>3. PhaseOf(c)' = "asked"
      BY <1>1, <1>g, <2>1, <2>2, PhaseAsked DEF Open
    <2>4. ASSUME NEW d \in Clients, d # c PROVE PhaseOf(d)' = PhaseOf(d)
      BY <1>1, <2>4, PhaseKeep DEF Open, pipeVars
    <2>5. PhaseOf(c) = "idle"
      BY <1>1 DEF Open, PhaseOf
    <2>6. phaseBar' = [phaseBar EXCEPT ![c] = "asked"] /\ phaseBar[c] = "idle"
      BY <2>3, <2>4, <2>5, BarChange DEF phaseBar
    <2> QED BY <2>6 DEF Service!Next, Service!Ask
  <1>2. ASSUME NEW c \in Clients PROVE ~Acquire(c)
    BY DEF Acquire, InCall
  <1>3. ASSUME NEW c \in Clients, Retry(c) PROVE [Service!Next]_phaseBar
    <2>1. c # h
      BY <1>3 DEF Retry, InCall
    <2>2. ASSUME NEW d \in Clients, d # c PROVE PhaseOf(d)' = PhaseOf(d)
      BY <1>3, <2>2, PhaseKeep DEF Retry, pipeVars
    <2>3. CASE tries[c] = 1
      <3>1. PhaseOf(c) = "asked"
        BY <1>3, <1>p, <2>1 DEF BarOutside, Retry
      <3>2. PhaseOf(c)' = "idle"
        BY <1>3, <2>3 DEF Retry, PhaseOf
      <3>3. phaseBar' = [phaseBar EXCEPT ![c] = "idle"] /\ phaseBar[c] = "asked"
        BY <3>1, <3>2, <2>2, BarChange DEF phaseBar
      <3> QED BY <3>3 DEF Service!Next, Service!Fail
    <2>4. CASE tries[c] # 1
      <3>1. PhaseOf(c)' = PhaseOf(c)
        BY <1>3, <2>4, PhaseKeep DEF Retry, pipeVars
      <3> QED BY <3>1, <2>2, BarSame
    <2> QED BY <2>3, <2>4
  <1>4. ASSUME NEW c \in Clients, Write(c) PROVE phaseBar' = phaseBar
    BY <1>4, PhaseKeep, BarSame DEF Write
  <1>5. ASSUME NEW c \in Clients, Read(c) PROVE phaseBar' = phaseBar
    <2>1. c = h /\ rspPipe = <<Own(h)>> /\ pc[h] = "waiting"
      BY <1>5, <1>h, <1>r DEF Read
    <2>2. got' = [got EXCEPT ![h] = <<Own(h)>>] /\ pc' = [pc EXCEPT ![h] = "releasing"]
          /\ rspPipe' = <<>> /\ call' = call
      BY <1>5, <2>1, <1>m DEF Read
    <2>3. PhaseOf(h)' = PhaseOf(h)
      BY <1>p, <2>1, <2>2 DEF PhaseOf, Own
    <2>4. ASSUME NEW d \in Clients, d # h PROVE PhaseOf(d)' = PhaseOf(d)
      <3>1. got'[d] = <<>> /\ pc'[d] = pc[d] /\ BarOutside(d) /\ <<Own(d)'>> # <<>>
        BY <1>g, <1>p, <2>2, <2>4
      <3>2. PhaseOf(d)' = IF pc[d] = "idle" THEN "idle" ELSE "asked"
        BY <2>2, <3>1 DEF PhaseOf, Own
      <3> QED BY <3>1, <3>2 DEF BarOutside
    <2> QED BY <2>3, <2>4, BarSame
  <1>6. ASSUME NEW c \in Clients PROVE ~Timeout(c)
    <2> SUFFICES ASSUME Timeout(c) PROVE FALSE
      OBVIOUS
    <2>1. c = h /\ rspPipe = <<>>
      BY <1>h DEF Timeout
    <2>2. reqPipe = <<Own(h)>> \/ serving = <<Own(h)>>
      BY <2>1, <1>m DEF Timeout, InCall
    <2>3. Pending(c)
      BY <2>1, <2>2, <1>m DEF Pending
    <2> QED BY <2>3 DEF Timeout, Faultless
  <1>7. ASSUME NEW c \in Clients, Release(c) PROVE Service!Next
    <2>1. c = h /\ pc[h] = "releasing"
      BY <1>7, <1>h DEF Release
    <2>2. PhaseOf(h) = "executed" /\ PhaseOf(h)' = "idle"
      BY <1>7, <1>p, <2>1 DEF Release, Exit, PhaseOf
    <2>3. ASSUME NEW d \in Clients, d # h PROVE PhaseOf(d)' = PhaseOf(d)
      BY <1>7, <2>1, <2>3, PhaseKeep DEF Release, Exit, pipeVars
    <2>4. phaseBar' = [phaseBar EXCEPT ![h] = "idle"] /\ phaseBar[h] = "executed"
      BY <2>2, <2>3, BarChange DEF phaseBar
    <2> QED BY <2>4 DEF Service!Next, Service!Return
  <1>8. ASSUME NEW c \in Clients PROVE ~Kill(c)
    BY DEF Kill, Faultless
  <1>9. ASSUME Answer PROVE Service!Next
    <2>1. pc[h] = "waiting" /\ serving = <<Own(h)>> /\ rspPipe = <<>>
      BY <1>9 DEF Answer, InCall
    <2>2. rspPipe' = <<Own(h)>> /\ UNCHANGED <<pc, call, got>>
      BY <1>9, <2>1, <1>m DEF Answer, clientVars
    <2>3. PhaseOf(h) = "asked" /\ PhaseOf(h)' = "executed"
      BY <1>p, <1>m, <2>1, <2>2 DEF PhaseOf, Own
    <2>4. ASSUME NEW d \in Clients, d # h
          PROVE  PhaseOf(d)' = PhaseOf(d) /\ PhaseOf(d) # "executed"
      <3>1. got'[d] = <<>> /\ pc'[d] = pc[d] /\ BarOutside(d) /\ <<Own(d)>> # <<>>
        BY <1>g, <1>p, <2>2, <2>4
      <3>2. <<Own(d)>> # rspPipe' /\ Own(d)' = Own(d)
        BY <2>2, <2>4, OwnDiffers DEF Own
      <3>3. PhaseOf(d)' = IF pc[d] = "idle" THEN "idle" ELSE "asked"
        BY <3>1, <3>2 DEF PhaseOf
      <3> QED BY <3>1, <3>3 DEF BarOutside
    <2>5. phaseBar' = [phaseBar EXCEPT ![h] = "executed"] /\ phaseBar[h] = "asked"
          /\ \A d \in Clients : phaseBar[d] # "executed"
      BY <2>3, <2>4, BarChange DEF phaseBar
    <2> QED BY <2>5 DEF Service!Next, Service!Execute
  <1>10. ASSUME IdlePass \/ OtherInput \/ ServeOther \/ Take \/ Check \/ UNCHANGED vars
         PROVE  phaseBar' = phaseBar
    <2>1. UNCHANGED <<pc, call, got, rspPipe>>
      BY <1>10 DEF IdlePass, OtherInput, ServeOther, Take, Check, vars, clientVars, pipeVars
    <2> QED BY <2>1, PhaseKeep, BarSame
  <1>11. ~Reset
    BY DEF Reset, Faultless, InCall
  <1> QED BY <1>1, <1>2, <1>3, <1>4, <1>5, <1>6, <1>7, <1>8, <1>9, <1>10, <1>11
          DEF Next, AgentStep, ClientStep

LEMMA BarInit == Init => Service!Init
  BY DEF Init, Service!Init, phaseBar, PhaseOf

LEMMA BarNext == IInv /\ [Next]_vars /\ Faultless /\ Faultless' => [Service!Next]_phaseBar
  BY BarFree, BarCall DEF IInv, Protocol

\* A run of the command path in which no fault happens is a run of
\* CommandService: commands are executed one at a time, once each, a call that
\* succeeds has had its own command executed and one that fails has not.
THEOREM ImplementsService == Spec /\ []Faultless => ServiceSpec
  BY IInvInit, IInvNext, BarInit, BarNext, PTL DEF Spec, ServiceSpec, Service!Spec

----------------------------------------------------------------------------
(* The count of the agent.  If nobody is killed, no answer is late and no    *)
(* client sits on a step of its own for as long as it takes the agent to      *)
(* come round to its next look at the semaphore, then a call is looked at no  *)
(* more than once before the agent takes its request and no more than once   *)
(* after that, and taking it starts the count again.                          *)

Punctual == MaxKills = 0 /\ MaxLate = 0 /\ Slack < CheckEvery /\ DeadlockLimit >= 2

\* The agent is in a pass that ends with a look at the semaphore.
WillLook == agent # "select" /\ loop = 0

\* It has counted n, or one more and will not look again before c's time is up.
Counts(c, n) ==
  \/ sem_deadlock <= n
  \/ /\ sem_deadlock = n + 1 /\ ~WillLook
     /\ loop + (Slack - slow[c]) < CheckEvery

\* The request of c's call is still to be taken by the agent; it has been.
Ahead(c)  == pc[c] = "holding" \/ (pc[c] = "waiting" /\ reqPipe # <<>>)
Behind(c) == pc[c] = "releasing" \/ (pc[c] = "waiting" /\ reqPipe = <<>>)

CountRight ==
  /\ agent # "reset"
  /\ (\A c \in Clients : Outside(c)) => sem_deadlock <= 1
  /\ \A c \in Clients : (Ahead(c) => Counts(c, 1)) /\ (Behind(c) => Counts(c, 0))

PInv == IInv /\ Faultless /\ CountRight

LEMMA LoopGoes ==
  ASSUME TypeInv
  PROVE  NextLoop = IF loop + 1 < CheckEvery THEN loop + 1 ELSE 0
<1>1. ASSUME NEW m \in Nat \ {0}, NEW n \in 0..m-1
      PROVE  (n + 1) % m = IF n + 1 < m THEN n + 1 ELSE 0
  OBVIOUS
<1>2. loop \in 0..CheckEvery-1 BY DEF TypeInv, TypeOK
<1> QED BY <1>1, <1>2 DEF NextLoop

\* One client at most is in its call, and the rest of it depends on nothing
\* but its own step, the agent and the requests.
LEMMA CountSame ==
  ASSUME CountRight, UNCHANGED <<pc, slow, agent, loop, sem_deadlock, reqPipe>>
  PROVE  CountRight'
  BY DEF CountRight, Outside, Ahead, Behind, Counts, WillLook

\* The agent goes on with its pass, and looks at the semaphore if it did before.
LEMMA CountPass ==
  ASSUME CountRight, UNCHANGED <<pc, slow, loop, sem_deadlock, reqPipe>>, agent' # "reset",
         agent # "select"
  PROVE  CountRight'
  BY DEF CountRight, Outside, Ahead, Behind, Counts, WillLook

\* The count starts again.
LEMMA CountZero ==
  ASSUME sem_deadlock' = 0, agent' # "reset"
  PROVE  CountRight'
  BY DEF CountRight, Counts

LEMMA CountClient ==
  ASSUME Punctual, PInv, NEW c \in Clients, ClientStep(c) \/ Open(c) \/ Kill(c)
  PROVE  CountRight' /\ Faultless'
<1> USE DEF PInv, IInv, TypeInv, TypeOK, pipeVars, agentVars, boundVars, histVars
<1>a. Protocol OBVIOUS
<1>b. ASSUME NEW d \in Clients, ~Outside(d) PROVE InCall(d)
  BY <1>a, <1>b DEF Protocol, Free, InCall, Outside
<1>c. ASSUME UNCHANGED <<slow, agent, loop, sem_deadlock>>
      PROVE  \A d, n : Counts(d, n)' <=> Counts(d, n)
  BY <1>c DEF Counts, WillLook
<1>1. CASE Open(c)
  <2>1. /\ pc[c] = "idle" /\ pc' = [pc EXCEPT ![c] = "trying"]
        /\ UNCHANGED <<slow, agent, loop, sem_deadlock, reqPipe, boundVars, broken>>
    BY <1>1 DEF Open
  <2> QED BY <2>1, <1>c DEF CountRight, Outside, Ahead, Behind, Faultless
<1>2. CASE Acquire(c)
  <2>1. /\ pc[c] = "trying" /\ pc' = [pc EXCEPT ![c] = "holding"] /\ semval > 0
        /\ UNCHANGED <<slow, agent, loop, sem_deadlock, reqPipe, boundVars, broken>>
    BY <1>2 DEF Acquire
  <2>2. Free BY <1>a, <2>1 DEF Protocol, InCall
  <2>3. sem_deadlock <= 1 BY <2>2 DEF Free, CountRight
  <2>4. Counts(c, 1)' BY <2>1, <2>3 DEF Counts
  <2>5. \A d \in Clients : d # c => Outside(d)' BY <2>1, <2>2 DEF Free, Outside
  <2> QED BY <2>1, <2>4, <2>5 DEF CountRight, Outside, Ahead, Behind, Faultless
<1>3. CASE Retry(c)
  <2>1. /\ pc[c] = "trying" /\ pc' \in {[pc EXCEPT ![c] = x] : x \in {"idle", "trying"}}
        /\ UNCHANGED <<slow, agent, loop, sem_deadlock, reqPipe, boundVars, broken>>
    BY <1>3 DEF Retry
  <2> QED BY <2>1, <1>c DEF CountRight, Outside, Ahead, Behind, Faultless
<1>4. CASE Write(c)
  <2>1. /\ pc[c] = "holding" /\ pc' = [pc EXCEPT ![c] = "waiting"] /\ reqPipe' = Append(reqPipe, Own(c))
        /\ UNCHANGED <<slow, agent, loop, sem_deadlock, boundVars, broken>>
    BY <1>4 DEF Write
  <2>2. InCall(c) BY <1>b, <2>1 DEF Outside
  <2>3. \A d \in Clients : d # c => Outside(d)' BY <2>1, <2>2 DEF InCall, Outside
  <2>4. reqPipe' # <<>>
    <3>1. reqPipe = <<>> BY <2>1, <2>2 DEF InCall, Quiet
    <3> QED BY <2>1, <3>1, OneMsg, OwnType
  <2>5. Counts(c, 1)' BY <2>1, <1>c DEF CountRight, Ahead
  <2> QED BY <2>1, <2>3, <2>4, <2>5 DEF CountRight, Outside, Ahead, Behind, Faultless
<1>5. CASE Read(c)
  <2>1. /\ pc[c] = "waiting" /\ rspPipe # <<>>
        /\ pc' = [pc EXCEPT ![c] = "releasing"] \/ pc' = pc
        /\ UNCHANGED <<slow, agent, loop, sem_deadlock, reqPipe, boundVars, broken>>
    BY <1>5 DEF Read
  <2>2. InCall(c) BY <1>b, <2>1 DEF Outside
  <2>3. reqPipe = <<>> BY <2>1, <2>2 DEF InCall, OnItsWay
  <2> QED BY <2>1, <2>3, <1>c DEF CountRight, Outside, Ahead, Behind, Faultless
<1>6. CASE Timeout(c)
  <2>1. pc[c] = "waiting" /\ rspPipe = <<>> /\ (Pending(c) => lates < MaxLate) BY <1>6 DEF Timeout
  <2>2. InCall(c) BY <1>b, <2>1 DEF Outside
  <2>3. reqPipe = <<Own(c)>> \/ serving = <<Own(c)>> BY <2>1, <2>2, OneMsg, OwnType DEF InCall, OnItsWay
  <2>4. Pending(c) BY <2>3, OneMsg, OwnType DEF Pending
  <2> QED BY <2>1, <2>4 DEF Punctual
<1>7. CASE Release(c)
  <2>1. /\ pc[c] = "releasing" /\ pc' = [pc EXCEPT ![c] = "idle"]
        /\ UNCHANGED <<agent, loop, sem_deadlock, reqPipe, boundVars, broken>>
    BY <1>7 DEF Release, Exit
  <2>2. InCall(c) BY <1>b, <2>1 DEF Outside
  <2>3. \A d \in Clients : Outside(d)' BY <2>1, <2>2 DEF InCall, Outside
  <2>4. Counts(c, 0) BY <2>1 DEF CountRight, Behind
  <2>5. sem_deadlock' <= 1 BY <2>1, <2>4 DEF Counts
  <2> QED BY <2>1, <2>3, <2>5 DEF CountRight, Outside, Ahead, Behind, Faultless
<1>8. ~Kill(c) BY DEF Kill, Punctual
<1> QED BY <1>1, <1>2, <1>3, <1>4, <1>5, <1>6, <1>7, <1>8 DEF ClientStep

LEMMA CountAgent ==
  ASSUME Punctual, PInv, AgentStep \/ OtherInput
  PROVE  CountRight' /\ Faultless'
<1> USE DEF PInv, IInv, TypeInv, TypeOK, pipeVars, agentVars, boundVars, histVars, clientVars
<1>a. Protocol /\ agent # "reset" BY DEF CountRight
<1>1. CASE IdlePass
  <2>1. /\ agent = "select" /\ agent' = "check" /\ reqPipe = <<>> /\ loop' = NextLoop
        /\ slow' = [c \in Clients |-> IF CouldStep(c) THEN slow[c] + 1 ELSE slow[c]]
        /\ UNCHANGED <<pc, sem_deadlock, reqPipe, boundVars, broken>>
    BY <1>1 DEF IdlePass
  <2>2. ASSUME NEW c \in Clients, NEW n \in {0, 1}, Counts(c, n), ~Outside(c) PROVE Counts(c, n)'
    <3>1. InCall(c) BY <1>a, <2>2 DEF Protocol, Free, InCall, Outside
    <3>2. CouldStep(c) BY <2>1, <3>1, OneMsg, OwnType DEF InCall, OnItsWay, CouldStep
    <3>3. slow[c] < Slack /\ slow'[c] = slow[c] + 1 BY <1>1, <2>1, <3>2 DEF IdlePass
    <3>4. CASE sem_deadlock <= n BY <2>1, <3>4 DEF Counts
    <3>5. CASE ~(sem_deadlock <= n)
      <4>1. sem_deadlock = n + 1 /\ loop + (Slack - slow[c]) < CheckEvery BY <2>2, <3>5 DEF Counts
      <4>2. loop' = loop + 1 BY <2>1, <3>3, <4>1, LoopGoes
      <4>3. loop' + (Slack - slow'[c]) < CheckEvery /\ loop' # 0 BY <3>3, <4>1, <4>2
      <4> QED BY <2>1, <4>1, <4>3 DEF Counts, WillLook
    <3> QED BY <3>4, <3>5
  <2>3. ASSUME NEW c \in Clients PROVE (Ahead(c)' => Counts(c, 1)') /\ (Behind(c)' => Counts(c, 0)')
    BY <2>1, <2>2 DEF CountRight, Ahead, Behind, Outside
  <2> QED BY <2>1, <2>3 DEF CountRight, Outside, Faultless
<1>2. CASE OtherInput BY <1>2, CountZero DEF OtherInput, Faultless
<1>3. CASE ServeOther BY <1>3, CountPass DEF ServeOther, Faultless
<1>4. CASE Take BY <1>4, CountZero DEF Take, Faultless
<1>5. CASE Answer BY <1>5, CountPass DEF Answer, Faultless
<1>6. CASE Check /\ loop # 0 BY <1>6, CountPass DEF Check, Faultless
<1>7. CASE Check /\ loop = 0
  <2>1. /\ agent = "check" /\ sem_deadlock' = IF semval = 0 THEN Bump(sem_deadlock) ELSE sem_deadlock
        /\ agent' = IF semval > 1 \/ sem_deadlock' > DeadlockLimit THEN "reset" ELSE "select"
        /\ UNCHANGED <<pc, slow, loop, reqPipe, boundVars, broken>>
    BY <1>7 DEF Check
  <2>2. CASE Free
    <3>1. sem_deadlock' = sem_deadlock /\ sem_deadlock <= 1 BY <2>1, <2>2 DEF Free, CountRight
    <3>2. agent' = "select" BY <2>1, <2>2, <3>1 DEF Free, Punctual
    <3>3. \A d \in Clients : Outside(d)' BY <2>1, <2>2 DEF Free, Outside
    <3> QED BY <2>1, <3>1, <3>2, <3>3 DEF CountRight, Outside, Ahead, Behind, Faultless
  <2>3. ASSUME NEW h \in Clients, InCall(h) PROVE CountRight' /\ Faultless'
    <3>1. WillLook BY <1>7, <2>1 DEF WillLook
    <3>2. \A d \in Clients : d # h => Outside(d)' BY <2>1, <2>3 DEF InCall, Outside
    <3>3. sem_deadlock' = Bump(sem_deadlock) BY <2>1, <2>3 DEF InCall
    <3>4. Ahead(h) \/ Behind(h) BY <2>3 DEF InCall, Ahead, Behind
    <3>5. sem_deadlock <= 1 /\ (Behind(h) => sem_deadlock <= 0)
      BY <3>1, <3>4 DEF CountRight, Counts
    <3>6. sem_deadlock' = sem_deadlock + 1 /\ agent' = "select"
      BY <2>1, <2>3, <3>3, <3>5 DEF Bump, Punctual, InCall
    <3>7. loop' + (Slack - slow'[h]) < CheckEvery BY <1>7, <2>1 DEF Punctual
    <3>8. \A n \in {0, 1} : sem_deadlock <= n => Counts(h, n)'
      BY <3>6, <3>7 DEF Counts, WillLook
    <3>9. (Ahead(h)' <=> Ahead(h)) /\ (Behind(h)' <=> Behind(h)) BY <2>1 DEF Ahead, Behind
    <3>10. ~Outside(h)' BY <2>1, <2>3 DEF InCall, Outside
    <3>11. (Ahead(h)' => Counts(h, 1)') /\ (Behind(h)' => Counts(h, 0)') BY <3>5, <3>8, <3>9
    <3>12. \A d \in Clients : Outside(d)' => ~Ahead(d)' /\ ~Behind(d)' BY DEF Outside, Ahead, Behind
    <3> QED BY <2>1, <3>2, <3>6, <3>10, <3>11, <3>12 DEF CountRight, Faultless
  <2> QED BY <1>a, <2>2, <2>3 DEF Protocol
<1>8. ~Reset BY <1>a DEF Reset
<1> QED BY <1>1, <1>2, <1>3, <1>4, <1>5, <1>6, <1>7, <1>8 DEF AgentStep

LEMMA PInvNext == ASSUME Punctual PROVE PInv /\ [Next]_vars => PInv'
<1> SUFFICES ASSUME PInv, [Next]_vars PROVE PInv' OBVIOUS
<1>1. IInv' BY IInvNext DEF PInv
<1>2. CASE UNCHANGED vars
  <2>1. CountRight' BY <1>2, CountSame DEF PInv, vars, clientVars, agentVars, pipeVars
  <2>2. Faultless' BY <1>2 DEF PInv, Faultless, vars, boundVars, histVars
  <2> QED BY <1>1, <2>1, <2>2 DEF PInv
<1>3. CASE Next
  <2>1. CASE AgentStep \/ OtherInput BY <1>1, <2>1, CountAgent DEF PInv
  <2>2. ASSUME NEW c \in Clients, ClientStep(c) \/ Open(c) \/ Kill(c) PROVE PInv'
    BY <1>1, <2>2, CountClient DEF PInv
  <2> QED BY <1>3, <2>1, <2>2 DEF Next
<1> QED BY <1>2, <1>3

LEMMA PInvInit == ASSUME Punctual PROVE Init => PInv
  BY IInvInit DEF Init, PInv, Faultless, CountRight, Outside, Ahead, Behind

\* The agent never sets a semaphore that is taken: with the values of main.c, a
\* look every five passes and the third one counted before it acts, no client that
\* lets fewer than five idle passes of its call go by is robbed, whatever else
\* comes in (main.c:327-337).
THEOREM BreakOnlyOnDeadlockHolds ==
  ASSUME Punctual
  PROVE  Spec => BreakOnlyOnDeadlock /\ [](broken = 0)
<1>1. PInv /\ [Next]_vars => [Reset /\ semval = 0 => zeroChecks > DeadlockLimit]_vars
  BY DEF PInv, CountRight, Reset
<1>2. PInv => broken = 0 BY DEF PInv, Faultless
<1> QED BY <1>1, <1>2, PInvInit, PInvNext, PTL DEF Spec, BreakOnlyOnDeadlock

\* So such runs are runs of CommandService, without assuming that nothing goes
\* wrong: the count cannot do harm by itself.
THEOREM PunctualImplements ==
  ASSUME Punctual
  PROVE  Spec => ServiceSpec
<1>1. PInv => Faultless BY DEF PInv
<1> QED BY <1>1, PInvInit, PInvNext, ImplementsService, PTL DEF Spec

=============================================================================
