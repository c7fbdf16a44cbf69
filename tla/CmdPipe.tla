------------------------------ MODULE CmdPipe ------------------------------
(***************************************************************************)
(* The command path between the CGI programs and EmsAgent.                  *)
(*                                                                          *)
(* Every CGI process that needs the agent calls comm::send_cmd              *)
(* (Web/cgi/Comm.cpp): it takes the System V semaphore SEM_PIPE_KEY with    *)
(* IPC_NOWAIT (retrying for five seconds), writes one request into the      *)
(* FIFO /tmp/cgi_pipes, waits up to five seconds for one answer in the FIFO *)
(* /tmp/cgi_pipec, and gives the semaphore back.  The agent                 *)
(* (EmsAgent/main.c) is one thread: each pass of its loop waits 100 ms in   *)
(* select, serves the request it finds, and every CheckEvery passes looks   *)
(* whether the semaphore is stuck and, if so, sets it to one.               *)
(*                                                                          *)
(* A message is the record [from |-> client, call |-> call number]; what it *)
(* asks is abstracted away.  Both FIFOs outlive their users: the agent      *)
(* holds them open for reading and writing.                                 *)
(*                                                                          *)
(* An operator named after the action or helper that follows it, with a     *)
(* word added, is that definition with a bug a programmer could make; it is *)
(* used in no specification and only shows which property would notice.     *)
(***************************************************************************)
EXTENDS Integers, Sequences, FiniteSets

CONSTANTS Clients,        \* the CGI processes
          SemTries,       \* attempts at the semaphore (50 in the code)
          CheckEvery,     \* loop passes between two checks (5)
          DeadlockLimit,  \* checks a taken semaphore is left alone (2)
          CallIds,        \* bound: calls of a client that are told apart
          Slack,          \* bound: idle passes of the agent during which a
                          \* live client may sit on a step it could take
          MaxKills,       \* bound: processes killed in the middle of a call
          MaxLate         \* bound: answers that come after the 5 seconds

ASSUME CmdPipeAssumption ==
  /\ SemTries \in Nat \ {0}
  /\ CheckEvery \in Nat \ {0}
  /\ DeadlockLimit \in Nat
  /\ CallIds \in Nat \ {0}
  /\ Slack \in Nat
  /\ MaxKills \in Nat
  /\ MaxLate \in Nat

VARIABLES
  semval,        \* value of the semaphore
  pc,            \* where each client is in send_cmd
  tries,         \* sem_timeout of each client
  call,          \* number of the current (or last) call of each client
  got,           \* the answer a client returns, a sequence of length 0 or 1
  slow,          \* idle passes each client has wasted in its current call
  reqPipe,       \* contents of /tmp/cgi_pipes
  rspPipe,       \* contents of /tmp/cgi_pipec
  agent,         \* where the agent is in its loop
  serving,       \* the request in ProcessMsg, a sequence of length 0 or 1
  loop,          \* loop_count % CheckEvery
  semcount,      \* the value of the semaphore the agent read last
  sem_deadlock,  \* the agent's count, saturated above DeadlockLimit
  kills, lates,  \* how much of each bound is used
  broken,        \* history: 1 if the agent has set the semaphore while it was 0
  zeroChecks     \* history: checks that found the semaphore 0 since it was
                 \* last taken, saturated above DeadlockLimit

clientVars == <<pc, tries, call, got, slow>>
pipeVars   == <<reqPipe, rspPipe>>
agentVars  == <<agent, serving, loop, semcount, sem_deadlock>>
boundVars  == <<kills, lates>>
histVars   == <<broken, zeroChecks>>
vars == <<semval, clientVars, pipeVars, agentVars, boundVars, histVars>>

Msg == [from : Clients, call : 0..CallIds-1]

\* The request of c's current call, which is also what its answer carries.
Own(c) == [from |-> c, call |-> call[c]]

ClientPC == {"idle", "trying", "holding", "waiting", "releasing"}

\* Clients between a successful semop(-1) and the semop(+1).
Holders == {c \in Clients : pc[c] \in {"holding", "waiting", "releasing"}}

TypeOK ==
  /\ semval \in Nat
  /\ pc \in [Clients -> ClientPC]
  /\ tries \in [Clients -> 0..SemTries]
  /\ call \in [Clients -> 0..CallIds-1]
  /\ got \in [Clients -> Seq(Msg)]
  /\ slow \in [Clients -> 0..Slack]
  /\ reqPipe \in Seq(Msg)
  /\ rspPipe \in Seq(Msg)
  /\ agent \in {"select", "serve", "other", "check", "reset"}
  /\ semcount \in Nat
  /\ serving \in Seq(Msg)
  /\ loop \in 0..CheckEvery-1
  /\ sem_deadlock \in 0..DeadlockLimit+1
  /\ kills \in 0..MaxKills /\ lates \in 0..MaxLate
  /\ broken \in {0, 1}
  /\ zeroChecks \in 0..DeadlockLimit+1

Init ==
  /\ semval = 1
  /\ pc = [c \in Clients |-> "idle"]
  /\ tries = [c \in Clients |-> 0]
  /\ call = [c \in Clients |-> 0]
  /\ got = [c \in Clients |-> <<>>]
  /\ slow = [c \in Clients |-> 0]
  /\ reqPipe = <<>> /\ rspPipe = <<>>
  /\ agent = "select" /\ serving = <<>>
  /\ loop = 0 /\ semcount = 1 /\ sem_deadlock = 0
  /\ kills = 0 /\ lates = 0
  /\ broken = 0 /\ zeroChecks = 0

----------------------------------------------------------------------------
(* The client: comm::send_cmd. *)

\* Open both FIFOs, find the semaphore, start the retry loop.
Open(c) ==
  /\ pc[c] = "idle"
  /\ pc' = [pc EXCEPT ![c] = "trying"]
  /\ tries' = [tries EXCEPT ![c] = SemTries]
  /\ call' = [call EXCEPT ![c] = (@ + 1) % CallIds]
  /\ UNCHANGED <<semval, got, slow, pipeVars, agentVars, boundVars, histVars>>

\* semop(-1) succeeds.
AcquireAnyway(c) ==
  /\ pc[c] = "trying"
  /\ semval' = IF semval > 0 THEN semval - 1 ELSE 0
  /\ pc' = [pc EXCEPT ![c] = "holding"]
  /\ zeroChecks' = 0
  /\ UNCHANGED <<tries, call, got, slow, pipeVars, agentVars, boundVars, broken>>
Acquire(c) ==
  /\ pc[c] = "trying"
  /\ semval > 0
  /\ semval' = semval - 1
  /\ pc' = [pc EXCEPT ![c] = "holding"]
  /\ zeroChecks' = 0
  /\ UNCHANGED <<tries, call, got, slow, pipeVars, agentVars, boundVars, broken>>

\* semop(-1) fails with EAGAIN: sleep 100 ms and count down; at zero give up.
RetryPastZero(c) ==
  /\ pc[c] = "trying" /\ semval = 0
  /\ tries' = [tries EXCEPT ![c] = @ - 1]
  /\ pc' = [pc EXCEPT ![c] = IF tries[c] = 0 THEN "idle" ELSE "trying"]
  /\ UNCHANGED <<semval, call, got, slow, pipeVars, agentVars, boundVars, histVars>>
RetryForever(c) ==
  /\ pc[c] = "trying" /\ semval = 0
  /\ UNCHANGED vars
Retry(c) ==
  /\ pc[c] = "trying"
  /\ semval = 0
  /\ tries' = [tries EXCEPT ![c] = @ - 1]
  /\ pc' = [pc EXCEPT ![c] = IF tries[c] = 1 THEN "idle" ELSE "trying"]
  /\ UNCHANGED <<semval, call, got, slow, pipeVars, agentVars, boundVars, histVars>>

\* Write the request.
Write(c) ==
  /\ pc[c] = "holding"
  /\ reqPipe' = Append(reqPipe, Own(c))
  /\ pc' = [pc EXCEPT ![c] = "waiting"]
  /\ UNCHANGED <<semval, tries, call, got, slow, rspPipe, agentVars, boundVars, histVars>>

\* Read whatever the answer FIFO holds.  One whole answer is accepted, whose
\* ever it is; several at once have a wrong length, and the wait starts again.
ReadLeaves(c) ==
  /\ pc[c] = "waiting"
  /\ Len(rspPipe) = 1
  /\ got' = [got EXCEPT ![c] = rspPipe]
  /\ pc' = [pc EXCEPT ![c] = "releasing"]
  /\ UNCHANGED <<semval, tries, call, slow, pipeVars, agentVars, boundVars, histVars>>
Read(c) ==
  /\ pc[c] = "waiting"
  /\ rspPipe # <<>>
  /\ rspPipe' = <<>>
  /\ \/ /\ Len(rspPipe) = 1
        /\ got' = [got EXCEPT ![c] = rspPipe]
        /\ pc' = [pc EXCEPT ![c] = "releasing"]
     \/ /\ Len(rspPipe) > 1
        /\ UNCHANGED <<pc, got>>
  /\ UNCHANGED <<semval, tries, call, slow, reqPipe, agentVars, boundVars, histVars>>

\* An answer to c's call is still to be expected.
Pending(c) == \/ \E i \in 1..Len(reqPipe) : reqPipe[i] = Own(c)
              \/ serving = <<Own(c)>>

\* Nothing came within five seconds.  Only a wait that the agent would still
\* have ended counts as late.
Timeout(c) ==
  /\ pc[c] = "waiting"
  /\ rspPipe = <<>>
  /\ \/ ~Pending(c) /\ UNCHANGED lates
     \/ Pending(c) /\ lates < MaxLate /\ lates' = lates + 1
  /\ pc' = [pc EXCEPT ![c] = "releasing"]
  /\ UNCHANGED <<semval, tries, call, got, slow, pipeVars, agentVars,
                 kills, histVars>>

\* The process is gone, and its variables with it.
Exit(c) == /\ pc' = [pc EXCEPT ![c] = "idle"]
           /\ tries' = [tries EXCEPT ![c] = 0]
           /\ got' = [got EXCEPT ![c] = <<>>]
           /\ slow' = [slow EXCEPT ![c] = 0]
           /\ UNCHANGED call

\* Close the FIFOs, semop(+1), return.
Release(c) ==
  /\ pc[c] = "releasing"
  /\ semval' = semval + 1
  /\ Exit(c)
  /\ UNCHANGED <<pipeVars, agentVars, boundVars, histVars>>

\* The web server kills the process.  The semaphore was taken without
\* SEM_UNDO, so it stays taken.
Kill(c) ==
  /\ pc[c] # "idle"
  /\ kills < MaxKills
  /\ kills' = kills + 1
  /\ Exit(c)
  /\ UNCHANGED <<semval, pipeVars, agentVars, lates, histVars>>

----------------------------------------------------------------------------
(* The agent: one pass of the loop of main(). *)

\* c holds the semaphore and could take a step of its own right now.
CouldStep(c) == \/ pc[c] \in {"holding", "releasing"}
                \/ pc[c] = "waiting" /\ rspPipe # <<>>

NextLoop == (loop + 1) % CheckEvery

\* select times out after 100 ms with no input.
IdlePass ==
  /\ agent = "select"
  /\ reqPipe = <<>>
  /\ \A c \in Clients : CouldStep(c) => slow[c] < Slack
  /\ slow' = [c \in Clients |-> IF CouldStep(c) THEN slow[c] + 1 ELSE slow[c]]
  /\ loop' = NextLoop
  /\ agent' = "check"
  /\ UNCHANGED <<semval, pc, tries, call, got, pipeVars, serving, semcount,
                 sem_deadlock, boundVars, histVars>>

\* Input on the SNMP pipe or a UDP port, none on the CGI pipe: the count
\* starts again.
OtherInput ==
  /\ agent = "select"
  /\ reqPipe = <<>>
  /\ sem_deadlock' = 0
  /\ loop' = NextLoop
  /\ agent' = "other"
  /\ UNCHANGED <<semval, clientVars, pipeVars, serving, semcount, boundVars, histVars>>

\* That input is served.
ServeOther ==
  /\ agent = "other"
  /\ agent' = "check"
  /\ UNCHANGED <<semval, clientVars, pipeVars, serving, loop, semcount, sem_deadlock,
                 boundVars, histVars>>

\* Input on the CGI pipe: read all of it.  A single request goes to
\* ProcessMsg; several have a wrong length and are thrown away unanswered.
TakeUncounted ==
  /\ agent = "select"
  /\ Len(reqPipe) = 1
  /\ reqPipe' = <<>> /\ serving' = reqPipe /\ agent' = "serve"
  /\ loop' = NextLoop
  /\ UNCHANGED <<semval, clientVars, rspPipe, semcount, sem_deadlock, boundVars,
                 histVars>>
Take ==
  /\ agent = "select"
  /\ reqPipe # <<>>
  /\ reqPipe' = <<>>
  /\ sem_deadlock' = 0
  /\ loop' = NextLoop
  /\ \/ Len(reqPipe) = 1 /\ serving' = reqPipe /\ agent' = "serve"
     \/ Len(reqPipe) > 1 /\ agent' = "check" /\ UNCHANGED serving
  /\ UNCHANGED <<semval, clientVars, rspPipe, semcount, boundVars, histVars>>

\* ProcessMsg ends: write the answer.
Answer ==
  /\ agent = "serve"
  /\ rspPipe' = rspPipe \o serving
  /\ serving' = <<>>
  /\ agent' = "check"
  /\ UNCHANGED <<semval, clientVars, reqPipe, loop, semcount, sem_deadlock,
                 boundVars, histVars>>

BumpNot(n) == n
Bump(n) == IF n > DeadlockLimit THEN n ELSE n + 1

\* Every CheckEvery passes: read the semaphore and count the checks that find
\* it 0.  Nothing ever clears the count but input.
Check ==
  /\ agent = "check"
  /\ IF loop = 0
     THEN /\ semcount' = semval
          /\ sem_deadlock' = IF semval = 0 THEN Bump(sem_deadlock) ELSE sem_deadlock
          /\ zeroChecks' = IF semval = 0 THEN Bump(zeroChecks) ELSE zeroChecks
          /\ agent' = IF semval > 1 \/ sem_deadlock' > DeadlockLimit
                      THEN "reset" ELSE "select"
     ELSE /\ agent' = "select"
          /\ UNCHANGED <<semcount, sem_deadlock, zeroChecks>>
  /\ UNCHANGED <<semval, clientVars, pipeVars, serving, loop, boundVars, broken>>

\* It was above one, or 0 too often: set it to one, whatever it is by now.
Reset ==
  /\ agent = "reset"
  /\ semval' = 1
  /\ broken' = IF semval = 0 THEN 1 ELSE broken
  /\ agent' = "select"
  /\ UNCHANGED <<clientVars, pipeVars, serving, loop, semcount, sem_deadlock,
                 boundVars, zeroChecks>>

----------------------------------------------------------------------------
ClientStep(c) == \/ Acquire(c) \/ Retry(c) \/ Write(c) \/ Read(c)
                 \/ Timeout(c) \/ Release(c)
AgentStep == IdlePass \/ ServeOther \/ Take \/ Answer \/ Check \/ Reset

Next == \/ AgentStep
        \/ OtherInput
        \/ \E c \in Clients : ClientStep(c) \/ Open(c) \/ Kill(c)

Spec == Init /\ [][Next]_vars

\* The agent's loop never blocks, and a client that started a call goes on
\* with it; nobody is obliged to start one.
Fairness == /\ WF_vars(AgentStep)
            /\ \A c \in Clients : WF_vars(ClientStep(c))
FairSpec == Spec /\ Fairness

\* As above, and the SNMP manager and the video switch fall silent in the end.
QuietSpec == FairSpec /\ <>[][~OtherInput]_vars

----------------------------------------------------------------------------
(* Properties. *)

\* At most one CGI process is between taking and giving back the semaphore
\* (the purpose of SEM_PIPE_KEY, Comm.cpp:46 "get the semaphore and proceed
\* ahead").
MutualExclusion == \A c, d \in Holders : c = d

\* A call that succeeds returns the answer to its own request, not one left
\* in the FIFO by somebody else (Comm.cpp:86 "Wait the peer response").
OwnAnswer == \A c \in Clients :
  pc[c] = "releasing" /\ got[c] # <<>> => got[c] = <<Own(c)>>

\* Until a client dies, an answer is late or the agent breaks the semaphore,
\* the two above hold, whatever the timing.
Faultless == kills = 0 /\ lates = 0 /\ broken = 0
SafeUntilFault == Faultless => MutualExclusion /\ OwnAnswer

\* Where c's call stands for its caller: its command counts as executed from
\* the moment the agent has answered it.
PhaseOf(c) ==
  IF pc[c] = "idle" THEN "idle"
  ELSE IF <<Own(c)>> \in {rspPipe, got[c]} THEN "executed" ELSE "asked"

phaseBar == [c \in Clients |-> PhaseOf(c)]

Service == INSTANCE CommandService WITH phase <- phaseBar

\* Without faults the path keeps the promise of CommandService.
ServiceSpec == Service!Spec

\* The agent breaks the semaphore only after more than DeadlockLimit checks
\* found it taken by the same holder (main.c:327 "check pipe semaphore
\* deadlock").
BreakOnlyOnDeadlock ==
  [][Reset /\ semval = 0 => zeroChecks > DeadlockLimit]_vars

\* A semaphore whose holder died is free again some time later.
SemaphoreRecovers == semval = 0 ~> semval > 0

\* Every call returns.
CallReturns == \A c \in Clients : pc[c] = "trying" ~> pc[c] = "idle"

\* After the last fault, from some time on every answer returned belongs to
\* the call that returns it.
AnswersRealign == <>[]OwnAnswer
=============================================================================
