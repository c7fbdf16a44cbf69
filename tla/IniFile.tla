------------------------------ MODULE IniFile ------------------------------
(***************************************************************************)
(* How one configuration file is read, changed and replaced                 *)
(* (common/iniFile.c and its callers in CSnmpconfig.cpp, card_mgmt.c,        *)
(* back_mgmt.c and FSA/message_proc.c).                                      *)
(*                                                                          *)
(* A process loads the whole file, changes some keys in memory and writes   *)
(* all of it to a second name, the same for every process.  An ini file is  *)
(* then unlinked, the second name linked to it, and the second name         *)
(* unlinked; snmpd.conf is removed and the second name renamed.  Nothing is *)
(* locked.  Processes overlap, are killed between any two system calls, and *)
(* the file system may be full.                                             *)
(*                                                                          *)
(* A file is small enough for stdio to write it in one call, at fclose.     *)
(* What is abstracted of a file is which value each key has; of two files   *)
(* written over each other the later one is kept.                           *)
(* Init, Next and the like have a prefix, so that the module can be         *)
(* extended together with FanControl.                                       *)
(***************************************************************************)
EXTENDS Integers, Sequences, FiniteSets

CONSTANTS Procs,       \* programs that use the file
          Checkers,    \* those that call stat or access before they open it
          Inodes,      \* files on disk, enough of them never to run out
          Keys, Vals,
          Installed,   \* what the file has at first
          Absent,      \* what a missing key has
          None,        \* the inode of a name that does not exist
          Requests,    \* what a process may be asked for
          MaxKills, MaxFull  \* bounds: kills, failed writes

Content == [Keys -> Vals \cup {Absent}]
Empty   == [k \in Keys |-> Absent]

\* The keys one load and save sets; none if the file is only read.
Change == UNION {[S -> Vals] : S \in SUBSET Keys}

ASSUME IniFileAssumption ==
  /\ Checkers \subseteq Procs
  /\ None \notin Inodes
  /\ \A used \in [Procs -> Inodes \cup {None}], m, n \in Inodes \cup {None} :
       \E free \in Inodes \ {m, n} : \A p \in Procs : free # used[p]
  /\ Installed \in Content
  /\ Requests \subseteq Seq(Change) \ {<<>>}
  /\ MaxKills \in Nat /\ MaxFull \in Nat

\* The requests of the callers: getConfigFile, getIGMPParam, getShelfParam, ...
\* only read; SetLowspdConfig, SetNetwork, saveIGMPParam, ... save all keys at
\* once; setConfigFile loads and saves the file again for each key.
Get               == << <<>> >>
SetAtOnce(v)      == << [k \in Keys |-> v] >>
SetKeyByKey(ks, v) == [n \in DOMAIN ks |-> [k \in {ks[n]} |-> v]]

VARIABLES
  way,      \* how the file is replaced: "link" (iniFileSave) or "rename"
  name,     \* inode of the file, None if there is none
  tmp,      \* inode of its second name (.b, chsnmpd.conf)
  data,     \* content of each inode
  pc,       \* where each process is
  todo,     \* changes it has still to make, the current one first
  ini,      \* the file in its memory
  fd,       \* the inode it reads or writes
  kills, fulls, \* how much of the bounds is used
  alone,    \* history: no other process has used the file since this one loaded it
  state,    \* history: what has happened to the file, see Status
  old, new  \* history: its content as last saved, and as last changed

disk   == <<name, tmp, data>>
memory == <<todo, ini, fd>>
bounds == <<kills, fulls>>
fate   == <<alone, state>>
hist   == <<fate, old, new>>
iniVars   == <<way, disk, pc, memory, bounds, hist>>

\* The file is calm when the last save of it was undisturbed, killed when since
\* then a process was killed while it used it, and torn after anything else.
Status == {"calm", "killed", "torn"}

Steps == {"off", "stat", "open", "read", "create", "flush", "unlink", "link", "untmp"}

IniTypeOK ==
  /\ way \in {"link", "rename"}
  /\ name \in Inodes \cup {None} /\ tmp \in Inodes \cup {None}
  /\ data \in [Inodes -> Content]
  /\ pc \in [Procs -> Steps]
  /\ todo \in [Procs -> Seq(Change)]
  /\ \A p \in Procs : pc[p] # "off" => todo[p] # <<>>
  /\ ini \in [Procs -> Content] /\ fd \in [Procs -> Inodes \cup {None}]
  /\ \A p \in Procs : pc[p] \in {"read", "flush"} => fd[p] \in Inodes
  /\ kills \in 0..MaxKills /\ fulls \in 0..MaxFull
  /\ alone \in [Procs -> BOOLEAN] /\ state \in Status
  /\ old \in Content /\ new \in Content

IniInit ==
  /\ way \in {"link", "rename"}
  /\ name = (CHOOSE n \in Inodes : TRUE) /\ tmp = None
  /\ data = [n \in Inodes |-> Installed]
  /\ pc = [p \in Procs |-> "off"] /\ todo = [p \in Procs |-> <<>>]
  /\ ini = [p \in Procs |-> Empty] /\ fd = [p \in Procs |-> None]
  /\ kills = 0 /\ fulls = 0
  /\ alone = [p \in Procs |-> TRUE] /\ state = "calm"
  /\ old = Installed /\ new = Installed

----------------------------------------------------------------------------

Busy == {p \in Procs : pc[p] # "off"}

\* An inode no name or process refers to; creat takes one of them.
Unused == {n \in Inodes \ {name, tmp} : \A p \in Procs : n # fd[p]}
Fresh  == CHOOSE n \in Unused : TRUE

\* The content with the keys of set changed.  iniSetStr adds a missing key;
\* setConfigFile only rewrites the lines of snmpd.conf that are there.
Merge(set, c) ==
  [k \in Keys |-> IF k \in DOMAIN set /\ (way = "rename" => c[k] # Absent) THEN set[k] ELSE c[k]]

\* The process goes on to load the file for the changes in rest, or is done.
\* Loading, it overlaps whoever is busy.  healed says that it has just saved
\* the file undisturbed.
Begin(p, rest, healed) ==
  LET others == IF rest = <<>> THEN {} ELSE Busy \ {p}
      now    == IF healed THEN "calm" ELSE state
  IN
  /\ pc' = [pc EXCEPT ![p] = IF rest = <<>> THEN "off" ELSE IF p \in Checkers THEN "stat" ELSE "open"]
  /\ todo' = [todo EXCEPT ![p] = rest]
  /\ ini' = [ini EXCEPT ![p] = Empty] /\ fd' = [fd EXCEPT ![p] = None]
  /\ alone' = [q \in Procs |-> IF q = p THEN others = {} ELSE alone[q] /\ q \notin others]
  /\ state' = IF rest # <<>> /\ (others # {} \/ now = "killed") THEN "torn" ELSE now

\* A CGI program, the agent or a card is asked to read or change the file.
IniStart(p, r) ==
  /\ pc[p] = "off"
  /\ Begin(p, r, FALSE)
  /\ UNCHANGED <<way, disk, bounds, old, new>>

\* stat or access says whether there is a file; without one the call fails.
Stat(p) ==
  /\ pc[p] = "stat"
  /\ IF name = None THEN Begin(p, <<>>, FALSE)
     ELSE pc' = [pc EXCEPT ![p] = "open"] /\ UNCHANGED <<memory, fate>>
  /\ UNCHANGED <<way, disk, bounds, old, new>>

\* fopen(.., "a+") in iniFileOpen creates a missing file, also for a reader.
Open(p) ==
  /\ pc[p] = "open" /\ way = "link"
  /\ LET n == IF name = None THEN Fresh ELSE name IN
       /\ data' = IF name = None THEN [data EXCEPT ![n] = Empty] ELSE data
       /\ name' = n
       /\ fd' = [fd EXCEPT ![p] = n]
  /\ pc' = [pc EXCEPT ![p] = "read"]
  /\ UNCHANGED <<way, tmp, todo, ini, bounds, hist>>

\* setConfigFile opens snmpd.conf to read.  The second file has been opened
\* for writing, and so emptied, before it is known that there is no first one.
OpenSnmpd(p) ==
  /\ pc[p] = "open" /\ way = "rename"
  /\ IF name # None
     THEN /\ fd' = [fd EXCEPT ![p] = name]
          /\ pc' = [pc EXCEPT ![p] = "read"]
          /\ UNCHANGED <<tmp, data, todo, ini, fate>>
     ELSE LET n == IF tmp = None THEN Fresh ELSE tmp IN
          /\ tmp' = n /\ data' = [data EXCEPT ![n] = Empty]
          /\ Begin(p, <<>>, FALSE)
  /\ UNCHANGED <<way, name, bounds, old, new>>

\* The file is read and the keys are set in memory.
Read(p) ==
  /\ pc[p] = "read"
  /\ LET c == Merge(Head(todo[p]), data[fd[p]]) IN
       IF DOMAIN Head(todo[p]) = {}
       THEN Begin(p, Tail(todo[p]), FALSE) /\ UNCHANGED new
       ELSE /\ ini' = [ini EXCEPT ![p] = c] /\ new' = c
            /\ pc' = [pc EXCEPT ![p] = "create"] /\ fd' = [fd EXCEPT ![p] = None]
            /\ UNCHANGED <<todo, fate>>
  /\ UNCHANGED <<way, disk, bounds, old>>

\* Create that leaves a second file that is there as it is.
CreateIfMissing(p) ==
  /\ pc[p] = "create"
  /\ LET n == IF tmp = None THEN Fresh ELSE tmp IN
       /\ tmp' = n /\ fd' = [fd EXCEPT ![p] = n]
  /\ pc' = [pc EXCEPT ![p] = IF tmp = None THEN "flush" ELSE "unlink"]
  /\ UNCHANGED <<way, name, data, todo, ini, bounds, hist>>

\* Create that writes the file itself.
CreateInPlace(p) ==
  /\ pc[p] = "create"
  /\ LET n == IF name = None THEN Fresh ELSE name IN
       /\ name' = n
       /\ data' = [data EXCEPT ![n] = Empty]
       /\ fd' = [fd EXCEPT ![p] = n]
  /\ pc' = [pc EXCEPT ![p] = "flush"]
  /\ UNCHANGED <<way, tmp, todo, ini, bounds, hist>>

\* fopen(.., "w+") of the second name: created, or emptied if it is there,
\* whoever made it and whatever other name it has.
Create(p) ==
  /\ pc[p] = "create"
  /\ LET n == IF tmp = None THEN Fresh ELSE tmp IN
       /\ tmp' = n
       /\ data' = [data EXCEPT ![n] = Empty]
       /\ fd' = [fd EXCEPT ![p] = n]
  /\ pc' = [pc EXCEPT ![p] = "flush"]
  /\ UNCHANGED <<way, name, todo, ini, bounds, hist>>

\* fclose writes the file.
Flush(p) ==
  /\ pc[p] = "flush"
  /\ data' = [data EXCEPT ![fd[p]] = ini[p]]
  /\ pc' = [pc EXCEPT ![p] = "unlink"] /\ fd' = [fd EXCEPT ![p] = None]
  /\ UNCHANGED <<way, name, tmp, todo, ini, bounds, hist>>

\* The file system is full: nobody looks at what fputs and fclose return.
FlushFull(p) ==
  /\ pc[p] = "flush" /\ fulls < MaxFull
  /\ fulls' = fulls + 1
  /\ pc' = [pc EXCEPT ![p] = "unlink"] /\ fd' = [fd EXCEPT ![p] = None]
  /\ state' = "torn" /\ alone' = [alone EXCEPT ![p] = FALSE]
  /\ UNCHANGED <<way, disk, todo, ini, kills, old, new>>

\* unlink or remove of the file.
Unlink(p) ==
  /\ pc[p] = "unlink"
  /\ name' = None
  /\ pc' = [pc EXCEPT ![p] = "link"]
  /\ UNCHANGED <<way, tmp, data, memory, bounds, hist>>

\* link fails if the file is there again or the second name is gone; nobody
\* looks at what it returns.
Link(p) ==
  /\ pc[p] = "link" /\ way = "link"
  /\ name' = IF name = None THEN tmp ELSE name
  /\ pc' = [pc EXCEPT ![p] = "untmp"]
  /\ old' = ini[p]
  /\ UNCHANGED <<way, tmp, data, memory, bounds, fate, new>>

\* The second name is removed and iniFileSave returns 0.
UnlinkTmp(p) ==
  /\ pc[p] = "untmp"
  /\ tmp' = None
  /\ Begin(p, Tail(todo[p]), alone[p])
  /\ UNCHANGED <<way, name, data, bounds, old, new>>

\* rename replaces the file if there is a second name.
Rename(p) ==
  /\ pc[p] = "link" /\ way = "rename"
  /\ name' = IF tmp = None THEN name ELSE tmp
  /\ tmp' = None
  /\ old' = ini[p]
  /\ Begin(p, Tail(todo[p]), alone[p])
  /\ UNCHANGED <<way, data, bounds, new>>

\* The web server kills a CGI program, or a program crashes.
Kill(p) ==
  /\ pc[p] # "off" /\ kills < MaxKills
  /\ kills' = kills + 1
  /\ pc' = [pc EXCEPT ![p] = "off"] /\ todo' = [todo EXCEPT ![p] = <<>>]
  /\ ini' = [ini EXCEPT ![p] = Empty] /\ fd' = [fd EXCEPT ![p] = None]
  /\ state' = IF state = "calm" THEN "killed" ELSE "torn"
  /\ UNCHANGED <<way, disk, fulls, alone, old, new>>

Save(p) == Create(p) \/ Flush(p) \/ FlushFull(p) \/ Unlink(p) \/ Link(p) \/ UnlinkTmp(p) \/ Rename(p)

IniNext ==
  \/ \E p \in Procs, r \in Requests : IniStart(p, r)
  \/ \E p \in Procs : Stat(p) \/ Open(p) \/ OpenSnmpd(p) \/ Read(p) \/ Save(p) \/ Kill(p)

IniSpec == IniInit /\ [][IniNext]_iniVars

----------------------------------------------------------------------------
(* Properties. *)

\* A process has taken the file away and not yet put the new one in its place.
Between == \E p \in Procs : pc[p] = "link"

\* A file nothing has disturbed since its last save is there, except for the
\* moment of a save, and holds what was saved (iniFileSave, setConfigFile).
\* One save that nothing disturbs makes it so, whatever earlier kills, full
\* file systems and overlaps have left on the disk.
FileIsLastSaved == state = "calm" /\ ~Between => name # None /\ data[name] = old

\* When a process is killed while it saves a calm file, one of the two names
\* still has all of the old content or all of the new, until some process
\* opens the file (the order of the steps of iniFileSave).
KillLosesNothing ==
  state = "killed" => \E n \in {name, tmp} \ {None} : data[n] \in {old, new}

\* What the code does not guarantee: a file no process is using is there, even
\* if nothing was killed and nothing failed.  Two saves share the second name.
NeverVanishes == Busy = {} /\ kills = 0 => name # None

\* Nor, with a single process, that a killed save leaves the old settings or
\* the new ones: the next reader finds no file and creates an empty one.
SettingsSurvive ==
  Busy = {} => name # None /\ \E k \in Keys : data[name][k] # Absent
=============================================================================
