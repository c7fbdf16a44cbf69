---------------------------- MODULE RefreshCheck ----------------------------
(***************************************************************************)
(* How a web page learns that what it shows is out of date.                 *)
(*                                                                          *)
(* A page (tree, frame view, topology of one FSA card) asks refrchk.cgi     *)
(* every second whether it must reload (Web/html/frame_view.html and its    *)
(* likes); the CGI program (Web/cgi/CRefreshCheck.cpp) passes the question  *)
(* to EmsAgent, which keeps one entry per client with a flag for every view *)
(* (EmsAgent/refresh_check.c).  A change sets the flag of its view in every *)
(* entry; a question reads and clears it; an entry nobody asks for is       *)
(* removed.                                                                 *)
(*                                                                          *)
(* A client is known to the agent by the first nine digits of its session   *)
(* number: IdOf.  The linked list of entries, which getRefreshState keeps   *)
(* free of duplicates, is the set known of their ids with what is stored    *)
(* under each.                                                              *)
(*                                                                          *)
(* An operator named after the action or helper that follows it, with a     *)
(* word added, is that definition with a bug a programmer could make; it is *)
(* used in no specification and only shows which property would notice.     *)
(* Init, Next and the like have a prefix, so that the module can be         *)
(* extended together with BusRequests.                                      *)
(***************************************************************************)
EXTENDS Integers

CONSTANTS Sessions,    \* browsers that have logged in
          Views,       \* "tree", "frame", and one topology view per card
          Ids,         \* what nine digits may be
          IdOf,        \* the id of each session
          Idle,        \* REFRESH_IDLE_TIME (60 s), in steps of the clock
          Gap,         \* longest time between two questions of a live page
          MaxChanges,  \* bound: changes in the shelf
          MaxLost,     \* bound: calls of send_cmd that fail
          MaxSuspends  \* bound: browsers that stop asking for a while

ASSUME RefreshCheckAssumption ==
  /\ IdOf \in [Sessions -> Ids]
  /\ Idle \in Nat /\ Gap \in Nat /\ Gap <= Idle
  /\ MaxChanges \in Nat /\ MaxLost \in Nat /\ MaxSuspends \in Nat

VARIABLES
  known,     \* ids with an entry in RefreshClient
  idleTime,  \* time since last_req_time, saturated above Idle
  flags,     \* change_flag and topo_flag: <<id, view>> for every bit set
  page,      \* what each session does with each view
  stale,     \* pages that show something older than the agent has
  late,      \* sessions that do not ask once a second at the moment
  excused,   \* history: stale pages the agent never had the chance to tell
  changes, lost, suspends  \* how much of each bound is used

agentVars == <<known, idleTime, flags>>
boundVars == <<changes, lost, suspends>>
refreshVars == <<agentVars, page, stale, late, excused, boundVars>>

Pages == Sessions \X Views
Id(p) == IdOf[p[1]]
Bit(p) == <<Id(p), p[2]>>

\* closed -> loaded (content read) -> asking (has asked once, been told to
\* wait) -> told (must reload) -> loaded; stopped: the last question had no
\* HTTP answer and process_rsp started no timer.
PageState == {"closed", "loaded", "asking", "told", "stopped"}
Live(p) == page[p] \in {"loaded", "asking"}

TypeOK ==
  /\ known \subseteq Ids
  /\ idleTime \in [Ids -> 0..Idle+1]
  /\ flags \subseteq Ids \X Views
  /\ page \in [Pages -> PageState]
  /\ stale \subseteq Pages /\ excused \subseteq Pages
  /\ late \subseteq Sessions
  /\ changes \in 0..MaxChanges /\ lost \in 0..MaxLost /\ suspends \in 0..MaxSuspends

RefreshInit ==
  /\ known = {} /\ idleTime = [i \in Ids |-> 0] /\ flags = {}
  /\ page = [p \in Pages |-> "closed"]
  /\ stale = {} /\ late = {} /\ excused = {}
  /\ changes = 0 /\ lost = 0 /\ suspends = 0

----------------------------------------------------------------------------
(* The pages. *)

\* The page is opened, reloaded by process_rsp or by hand; its content is
\* what the agent has at that moment.
Load(p) ==
  /\ page' = [page EXCEPT ![p] = "loaded"]
  /\ stale' = stale \ {p} /\ excused' = excused \ {p}
  /\ UNCHANGED <<agentVars, late, boundVars>>

Open(p)   == page[p] \in {"closed", "stopped"} /\ Load(p)
Reload(p) == page[p] = "told" /\ Load(p)

Close(p) ==
  /\ page[p] # "closed"
  /\ page' = [page EXCEPT ![p] = "closed"]
  /\ stale' = stale \ {p} /\ excused' = excused \ {p}
  /\ UNCHANGED <<agentVars, late, boundVars>>

\* The browser is suspended: its timers run late until it asks again.
Suspend(s) ==
  /\ s \notin late /\ suspends < MaxSuspends
  /\ late' = late \cup {s}
  /\ suspends' = suspends + 1
  /\ UNCHANGED <<agentVars, page, stale, excused, changes, lost>>

----------------------------------------------------------------------------
(* The agent. *)

\* getRefreshState that takes an old entry's flags for those of a new client.
GetRefreshStateResets(p) ==
  /\ known' = known \cup {Id(p)}
  /\ idleTime' = [idleTime EXCEPT ![Id(p)] = 0]
  /\ flags' = {b \in flags : b[1] # Id(p)}

\* getRefreshState that is given the whole session number.
GetRefreshStateWhole(p) ==
  /\ known' = known \cup {p[1]}
  /\ idleTime' = [idleTime EXCEPT ![Id(p)] = 0]
  /\ flags' = flags \ {Bit(p)}

\* getRefreshState: note the time; clear the flag of the view, which for a new
\* entry is clear.  The answer is 1 if the flag was set.
GetRefreshState(p) ==
  /\ known' = known \cup {Id(p)}
  /\ idleTime' = [idleTime EXCEPT ![Id(p)] = 0]
  /\ flags' = flags \ {Bit(p)}

\* The stale pages of a client that has no entry when it asks.
Missed(p) == {q \in stale : Id(p) \notin known /\ Id(q) = Id(p)}

\* check_refresh, send_cmd, ProcessMsg and process_rsp, all well.
CheckRefresh(p) ==
  /\ Live(p)
  /\ GetRefreshState(p)
  /\ page' = [page EXCEPT ![p] = IF Bit(p) \in flags THEN "told" ELSE "asking"]
  /\ late' = late \ {p[1]}
  /\ excused' = excused \cup Missed(p)
  /\ UNCHANGED <<stale, boundVars>>

\* send_cmd fails, after ProcessMsg or without it.  CRefreshCheck prints ret,
\* which nothing has assigned: 0 keeps the page waiting, anything else
\* reloads it.  Or the web server gives up, and the page asks no more.
AskInVain(p) ==
  /\ Live(p) /\ lost < MaxLost
  /\ lost' = lost + 1
  /\ \/ GetRefreshState(p) /\ excused' = excused \cup Missed(p) \cup (stale \cap {p})
     \/ UNCHANGED <<agentVars, excused>>
  /\ page' \in {[page EXCEPT ![p] = x] : x \in {page[p], "told", "stopped"}}
  /\ UNCHANGED <<stale, late, changes, suspends>>

\* setRefreshState or setRefreshState_Topo that reaches only one entry.
SetRefreshStateFirst(v) ==
  /\ \/ known = {} /\ UNCHANGED flags
     \/ \E i \in known : flags' = flags \cup {<<i, v>>}
  /\ UNCHANGED <<known, idleTime>>

\* setRefreshState or setRefreshState_Topo: what v shows has changed.
SetRefreshState(v) ==
  /\ flags' = flags \cup (known \X {v})
  /\ UNCHANGED <<known, idleTime>>

Change(v) ==
  /\ changes < MaxChanges
  /\ changes' = changes + 1
  /\ SetRefreshState(v)
  /\ stale' = stale \cup {p \in Pages : p[2] = v /\ page[p] # "closed"}
  /\ excused' = {p \in excused : ~(p[2] = v /\ Id(p) \in known)}
  /\ UNCHANGED <<page, late, lost, suspends>>

\* A step of the clock.  A page that asks every second, and has asked since it
\* was loaded, never lets more than Gap pass.
ClockStep ==
  /\ \A p \in Pages : page[p] = "asking" /\ p[1] \notin late => idleTime[Id(p)] < Gap
  /\ \E i \in known : idleTime[i] <= Idle
  /\ idleTime' = [i \in Ids |-> IF i \in known /\ idleTime[i] <= Idle THEN idleTime[i] + 1 ELSE idleTime[i]]
  /\ UNCHANGED <<known, flags, page, stale, late, excused, boundVars>>

\* The entries clearRefreshClient removes, with a limit that is too short.
ExpiredEarly == {i \in known : idleTime[i] >= Gap}

Expired == {i \in known : idleTime[i] > Idle}

\* clearRefreshClient
ClearRefreshClient ==
  /\ Expired # {}
  /\ known' = known \ Expired
  /\ flags' = {b \in flags : b[1] \notin Expired}
  /\ idleTime' = [i \in Ids |-> IF i \in Expired THEN 0 ELSE idleTime[i]]
  /\ UNCHANGED <<page, stale, late, excused, boundVars>>

RefreshNext ==
  \/ \E p \in Pages : Open(p) \/ Reload(p) \/ Close(p) \/ CheckRefresh(p) \/ AskInVain(p)
  \/ \E s \in Sessions : Suspend(s)
  \/ \E v \in Views : Change(v)
  \/ ClockStep \/ ClearRefreshClient

RefreshSpec == RefreshInit /\ [][RefreshNext]_refreshVars

\* A page that is open asks again and, when told, reloads.
RefreshFairSpec == RefreshSpec /\ \A p \in Pages : WF_refreshVars(CheckRefresh(p)) /\ WF_refreshVars(Reload(p))

----------------------------------------------------------------------------
(* Properties. *)

\* No two sessions share an entry.
Injective == \A s, t \in Sessions : IdOf[s] = IdOf[t] => s = t

\* A change made while a client has an entry stays flagged until the page that
\* shows it is told: no poll, purge, other page or other session uses the flag
\* up (getRefreshState, setRefreshState, clearRefreshClient).
ChangeIsFlagged ==
  \A p \in stale : Live(p) /\ Id(p) \in known /\ p \notin excused => Bit(p) \in flags

\* clearRefreshClient removes no client that keeps asking.
OnlyIdleRemoved ==
  [][\A p \in Pages : page[p] = "asking" /\ p[1] \notin late /\ Id(p) \in known
        => Id(p) \in known']_refreshVars

\* A page that is out of date and keeps asking is reloaded or closed, unless
\* the agent never had the chance to tell it.
StaleIsRefreshed ==
  \A p \in Pages : p \in stale /\ Live(p) /\ p \notin excused
                     ~> p \notin stale \/ p \in excused \/ page[p] = "stopped"

\* A question of one session takes the flag of no other: sessionID is "a random
\* number from the current second, with the last part of the IP address at its
\* end" (CGISession.cpp:88, in Chinese), so that every browser has its own.
OwnFlagsOnly ==
  [][\A p, q \in Pages : CheckRefresh(p) /\ q[1] # p[1] /\ Bit(q) \in flags => Bit(q) \in flags']_refreshVars

\* "if the client not found, it is the new request" (refresh_check.c:58): a
\* client that gets a new entry has just read what it shows, so that nothing
\* is lost by starting with clear flags.
NewClientIsCurrent ==
  [][\A p \in stale : CheckRefresh(p) => Id(p) \in known]_refreshVars
=============================================================================
