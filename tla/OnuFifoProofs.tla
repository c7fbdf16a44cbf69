--------------------------- MODULE OnuFifoProofs ---------------------------
(***************************************************************************)
(* Proofs about OnuFifo, for any sequences of requests and any bounds on     *)
(* what is lost, late or counted.                                            *)
(*                                                                          *)
(* What a request does is a program of messages.  The first part checks      *)
(* every program of OnuPrograms against what the invariants need of it       *)
(* (Sound): what is written back has been read by the message before, what   *)
(* is read as a counter has been selected by the message before, and no      *)
(* message writes what an earlier one has set.  After that the programs are  *)
(* not looked at again.                                                      *)
(*                                                                          *)
(* The invariants build on each other: types (TInv); whose answer is taken   *)
(* (AInv); an own answer says that the message has been carried out and      *)
(* nothing else is on its way (EInv); every byte is in a counter, in a sum   *)
(* or in one message between them (SInv); and every field is what it should  *)
(* be when all that is on the fibre has been carried out, whatever else is   *)
(* lost (VInv).                                                              *)
(***************************************************************************)
EXTENDS OnuFifo, TLAPS

----------------------------------------------------------------------------
(* Programs. *)

Types    == {"KSR", "KSW", "ADMIN", "ADMINW", "STATE1", "STATE2", "UART", "UARTW", "IO", "IOW", "SFP",
             "NAMEW", "RESET"}
Tags     == {"own", "old", "once"}
Selects  == Counters \cup {"none", "other"}
Settings == UNION {[S -> Bit] : S \in SUBSET Fields}
Keeps    == UNION {[S -> Fields] : S \in SUBSET Fields}
Message  == [type : Types, get : SUBSET Fields, set : SUBSET Fields,
             zero : SUBSET Fields, one : SUBSET Fields, keep : Keeps,
             select : Selects, sum : {"none", "rx", "tx"}, wait : BOOLEAN, go : BOOLEAN, may : BOOLEAN]
Order    == [type : Types \cup {"UP", "none"}, get : SUBSET Fields, bits : Settings, select : Selects,
             count : BOOLEAN, tag : Tags]
Reply    == [type : Types \cup {"UP", "none"}, bits : Settings, count : Nat, valid : BOOLEAN, tag : Tags]

Writes(m) == m.set \cup m.zero \cup m.one \cup DOMAIN m.keep

\* A message that writes nothing.
Plain(m) == Writes(m) = {} /\ m.sum = "none"

\* What the proofs need to know of a program.
Goes(p, i) ==
  /\ p[i + 1].sum # "none" => p[i].select \in Of[p[i + 1].sum] /\ ~p[i].go /\ p[i].sum = "none" /\ p[i].wait
  /\ \A f \in DOMAIN p[i + 1].keep : p[i + 1].keep[f] = f => f \in p[i].get /\ p[i].wait /\ ~p[i].go
Once(m)  == m.sum = "none" /\ Writes(m) \subseteq {"out"}
Fits(m)  ==
  /\ m.sum # "none" => m.select = "none" /\ m.wait /\ Writes(m) = {}
  /\ ~m.wait => Once(m)
  /\ Writes(m) # {} => m.get = {}
  /\ Kept \cap (m.zero \cup m.one \cup DOMAIN m.keep) = {}
  /\ m.set \cap (m.zero \cup m.one \cup DOMAIN m.keep) = {} /\ m.one \cap m.zero = {}
Sound(p) ==
  /\ p \in Seq(Message) /\ p # <<>> /\ Len(p) <= 9
  /\ p[1].sum = "none" /\ DOMAIN p[1].keep = {}
  /\ \A i \in DOMAIN p : Fits(p[i])
  /\ \A i \in DOMAIN p : i + 1 \in DOMAIN p => Goes(p, i)
  /\ (\E i \in DOMAIN p : p[i].may \/ p[i].go) => \A i \in DOMAIN p : Writes(p[i]) = {}
  /\ \A i, j \in DOMAIN p : i < j => (p[i].set \cup p[i].one) \cap Writes(p[j]) = {}

----------------------------------------------------------------------------
LEMMA FirstIn == ASSUME NEW S, NEW s \in Seq(S), s # <<>> PROVE 1 \in DOMAIN s
  OBVIOUS

LEMMA SameType == ASSUME NEW T, NEW S \in SUBSET T PROVE [f \in S |-> f] \in [S -> T]
  OBVIOUS

LEMMA MsgIs ==
  /\ Msg \in Message /\ Msg.type = "KSR" /\ Msg.get = {} /\ Msg.set = {} /\ Msg.zero = {} /\ Msg.one = {}
  /\ DOMAIN Msg.keep = {} /\ Msg.select = "none" /\ Msg.sum = "none" /\ Msg.wait /\ ~Msg.go /\ ~Msg.may
<1>1. Msg.keep \in Keeps /\ DOMAIN Msg.keep = {}
  <2>1. [f \in {} |-> f] \in [{} -> Fields] BY SameType
  <2> QED BY <2>1 DEF Msg, Keeps
<1> DEFINE k == Msg.keep
<1>2. Msg = [type |-> "KSR", get |-> {}, set |-> {}, zero |-> {}, one |-> {},
             keep |-> k, select |-> "none", sum |-> "none",
             wait |-> TRUE, go |-> FALSE, may |-> FALSE]
  BY DEF Msg
<1> HIDE DEF k
<1> QED BY <1>1, <1>2 DEF Message, Selects, Types

\* The messages of the programs.
LEMMA Told ==
  ASSUME NEW type \in Types, NEW S \in SUBSET Fields
  PROVE  /\ Tell(type, S) \in Message /\ Tell(type, S).type = type /\ Tell(type, S).set = S
         /\ Tell(type, S).get = {} /\ Tell(type, S).zero = {} /\ Tell(type, S).one = {}
         /\ DOMAIN Tell(type, S).keep = {} /\ Tell(type, S).select = "none" /\ Tell(type, S).sum = "none"
         /\ Tell(type, S).wait /\ ~Tell(type, S).go /\ ~Tell(type, S).may
  BY MsgIs DEF Tell, Message

LEMMA Asked ==
  ASSUME NEW type \in Types
  PROVE  Ask(type) \in Message /\ Plain(Ask(type)) /\ Ask(type).wait = TRUE
  BY MsgIs DEF Ask, Message, Plain, Writes

LEMMA Reads ==
  ASSUME NEW S \in SUBSET Fields
  PROVE  /\ Read(S) \in Message /\ Plain(Read(S)) /\ Read(S).get = S
         /\ Read(S).wait /\ ~Read(S).go /\ ~Read(S).may /\ Read(S).set = {} /\ Read(S).one = {}
  BY MsgIs DEF Read, Message, Plain, Writes

LEMMA Selected1 ==
  ASSUME NEW s \in Selects
  PROVE  /\ Select(s) \in Message /\ Plain(Select(s)) /\ Select(s).select = s
         /\ Select(s).wait /\ ~Select(s).go /\ ~Select(s).may
<1>1. /\ Select(s).type = "KSW" /\ Select(s).select = s /\ Select(s) \in Message
  BY MsgIs DEF Select, Message, Types
<1>2. /\ Select(s).set = {} /\ Select(s).zero = {} /\ Select(s).one = {} /\ DOMAIN Select(s).keep = {}
      /\ Select(s).sum = "none" /\ Select(s).wait /\ ~Select(s).go /\ ~Select(s).may
  BY MsgIs DEF Select, Message, Types
<1> QED BY <1>1, <1>2 DEF Plain, Writes

\* A getter: it writes nothing.
LEMMA PlainFits == ASSUME NEW m \in Message, Plain(m) PROVE Fits(m) /\ DOMAIN m.keep = {}
  BY DEF Plain, Fits, Once, Writes
LEMMA PlainGoes == ASSUME NEW p, NEW i, Plain(p[i + 1]) PROVE Goes(p, i)
  BY DEF Plain, Goes, Writes
LEMMA PlainNot == ASSUME NEW m, NEW w, Plain(m) PROVE (m.set \cup m.one) \cap w = {}
  BY DEF Plain, Writes

LEMMA Getter ==
  ASSUME NEW p \in Seq(Message), p # <<>>, Len(p) <= 9, \A i \in DOMAIN p : Plain(p[i])
  PROVE  Sound(p)
<1> DEFINE P == \A i \in DOMAIN p : Plain(p[i])
<1>0. P OBVIOUS
<1> HIDE DEF P
<1>1. 1 \in DOMAIN p BY FirstIn
<1>2. \A i \in DOMAIN p : p[i] \in Message OBVIOUS
<1>3. p[1].sum = "none" /\ DOMAIN p[1].keep = {} BY <1>0, <1>1, <1>2, PlainFits DEF P, Plain
<1>4. \A i \in DOMAIN p : Fits(p[i]) BY <1>0, <1>2, PlainFits DEF P
<1>5. \A i \in DOMAIN p : i + 1 \in DOMAIN p => Goes(p, i) BY <1>0, PlainGoes DEF P
<1>6. \A i \in DOMAIN p : Writes(p[i]) = {} BY <1>0 DEF P, Plain
<1>7. \A i, j \in DOMAIN p : i < j => (p[i].set \cup p[i].one) \cap Writes(p[j]) = {} BY <1>0, PlainNot DEF P
<1> QED BY <1>3, <1>4, <1>5, <1>6, <1>7 DEF Sound

LEMMA Excepted ==
  ASSUME NEW x \in Message, Plain(x)
  PROVE  /\ [x EXCEPT !.go = TRUE] \in Message /\ Plain([x EXCEPT !.go = TRUE])
         /\ [x EXCEPT !.may = TRUE] \in Message /\ Plain([x EXCEPT !.may = TRUE])
  BY DEF Message, Plain, Writes

LEMMA Getter1 ==
  ASSUME NEW m1 \in Message, Plain(m1)
  PROVE  Sound(<<m1>>)
<1> DEFINE p == <<m1>>
<1>1. p \in Seq(Message) /\ p # <<>> /\ Len(p) = 1 /\ DOMAIN p = 1..1 OBVIOUS
<1>2. p[1] = m1 OBVIOUS
<1>3. ASSUME NEW i \in DOMAIN p PROVE Plain(p[i])
  <2>1. i = 1 BY <1>1
  <2> HIDE DEF p
  <2> QED BY <1>2, <2>1
<1> HIDE DEF p
<1>4. (\A i \in DOMAIN p : Plain(p[i])) /\ p \in Seq(Message) /\ p # <<>> /\ Len(p) <= 9 BY <1>1, <1>3
<1>5. Sound(p) BY ONLY <1>4, Getter
<1> QED BY <1>5 DEF p

LEMMA Getter2 ==
  ASSUME NEW m1 \in Message, Plain(m1),
         NEW m2 \in Message, Plain(m2)
  PROVE  Sound(<<m1, m2>>)
<1> DEFINE p == <<m1, m2>>
<1>1. p \in Seq(Message) /\ p # <<>> /\ Len(p) = 2 /\ DOMAIN p = 1..2 OBVIOUS
<1>2. p[1] = m1 /\ p[2] = m2 OBVIOUS
<1>3. ASSUME NEW i \in DOMAIN p PROVE Plain(p[i])
  <2>1. i = 1 \/ i = 2 BY <1>1
  <2> HIDE DEF p
  <2> QED BY <1>2, <2>1
<1> HIDE DEF p
<1>4. (\A i \in DOMAIN p : Plain(p[i])) /\ p \in Seq(Message) /\ p # <<>> /\ Len(p) <= 9 BY <1>1, <1>3
<1>5. Sound(p) BY ONLY <1>4, Getter
<1> QED BY <1>5 DEF p

LEMMA Getter3 ==
  ASSUME NEW m1 \in Message, Plain(m1),
         NEW m2 \in Message, Plain(m2),
         NEW m3 \in Message, Plain(m3)
  PROVE  Sound(<<m1, m2, m3>>)
<1> DEFINE p == <<m1, m2, m3>>
<1>1. p \in Seq(Message) /\ p # <<>> /\ Len(p) = 3 /\ DOMAIN p = 1..3 OBVIOUS
<1>2. p[1] = m1 /\ p[2] = m2 /\ p[3] = m3 OBVIOUS
<1>3. ASSUME NEW i \in DOMAIN p PROVE Plain(p[i])
  <2>1. i = 1 \/ i = 2 \/ i = 3 BY <1>1
  <2> HIDE DEF p
  <2> QED BY <1>2, <2>1
<1> HIDE DEF p
<1>4. (\A i \in DOMAIN p : Plain(p[i])) /\ p \in Seq(Message) /\ p # <<>> /\ Len(p) <= 9 BY <1>1, <1>3
<1>5. Sound(p) BY ONLY <1>4, Getter
<1> QED BY <1>5 DEF p

LEMMA Getter5 ==
  ASSUME NEW m1 \in Message, Plain(m1),
         NEW m2 \in Message, Plain(m2),
         NEW m3 \in Message, Plain(m3),
         NEW m4 \in Message, Plain(m4),
         NEW m5 \in Message, Plain(m5)
  PROVE  Sound(<<m1, m2, m3, m4, m5>>)
<1> DEFINE p == <<m1, m2, m3, m4, m5>>
<1>1. p \in Seq(Message) /\ p # <<>> /\ Len(p) = 5 /\ DOMAIN p = 1..5 OBVIOUS
<1>2. p[1] = m1 /\ p[2] = m2 /\ p[3] = m3 /\ p[4] = m4 /\ p[5] = m5 OBVIOUS
<1>3. ASSUME NEW i \in DOMAIN p PROVE Plain(p[i])
  <2>1. i = 1 \/ i = 2 \/ i = 3 \/ i = 4 \/ i = 5 BY <1>1
  <2> HIDE DEF p
  <2> QED BY <1>2, <2>1
<1> HIDE DEF p
<1>4. (\A i \in DOMAIN p : Plain(p[i])) /\ p \in Seq(Message) /\ p # <<>> /\ Len(p) <= 9 BY <1>1, <1>3
<1>5. Sound(p) BY ONLY <1>4, Getter
<1> QED BY <1>5 DEF p

LEMMA Getter9 ==
  ASSUME NEW m1 \in Message, Plain(m1),
         NEW m2 \in Message, Plain(m2),
         NEW m3 \in Message, Plain(m3),
         NEW m4 \in Message, Plain(m4),
         NEW m5 \in Message, Plain(m5),
         NEW m6 \in Message, Plain(m6),
         NEW m7 \in Message, Plain(m7),
         NEW m8 \in Message, Plain(m8),
         NEW m9 \in Message, Plain(m9)
  PROVE  Sound(<<m1, m2, m3, m4, m5, m6, m7, m8, m9>>)
<1> DEFINE p == <<m1, m2, m3, m4, m5, m6, m7, m8, m9>>
<1>1. p \in Seq(Message) /\ p # <<>> /\ Len(p) = 9 /\ DOMAIN p = 1..9 OBVIOUS
<1>2. p[1] = m1 /\ p[2] = m2 /\ p[3] = m3 /\ p[4] = m4 /\ p[5] = m5 /\ p[6] = m6 /\ p[7] = m7 /\ p[8] = m8 /\ p[9] = m9 OBVIOUS
<1>3. ASSUME NEW i \in DOMAIN p PROVE Plain(p[i])
  <2>1. i = 1 \/ i = 2 \/ i = 3 \/ i = 4 \/ i = 5 \/ i = 6 \/ i = 7 \/ i = 8 \/ i = 9 BY <1>1
  <2> HIDE DEF p
  <2> QED BY <1>2, <2>1
<1> HIDE DEF p
<1>4. (\A i \in DOMAIN p : Plain(p[i])) /\ p \in Seq(Message) /\ p # <<>> /\ Len(p) <= 9 BY <1>1, <1>3
<1>5. Sound(p) BY ONLY <1>4, Getter
<1> QED BY <1>5 DEF p

LEMMA Setter ==
  ASSUME NEW x \in Message, x.sum = "none", DOMAIN x.keep = {}, Fits(x), ~x.may, ~x.go
  PROVE  Sound(<<x>>)
<1> DEFINE p == <<x>>
<1>1. p \in Seq(Message) /\ p # <<>> /\ Len(p) = 1 /\ DOMAIN p = {1} /\ p[1] = x OBVIOUS
<1> HIDE DEF p
<1>2. \A i \in DOMAIN p : i = 1 /\ p[i] = x BY <1>1
<1>3. \A i \in DOMAIN p : Fits(p[i]) /\ ~p[i].may /\ ~p[i].go BY <1>2
<1>4. \A i \in DOMAIN p : i + 1 \notin DOMAIN p BY <1>1
<1>5. \A i, j \in DOMAIN p : ~(i < j) BY <1>1
<1>6. Sound(p) BY <1>1, <1>3, <1>4, <1>5 DEF Sound
<1> QED BY <1>6 DEF p

LEMMA ReadAndSet ==
  ASSUME NEW x \in Message, Plain(x), x.wait, ~x.go, ~x.may, x.set = {}, x.one = {},
         NEW y \in Message, y.sum = "none", Fits(y), ~y.may, ~y.go,
         \A f \in DOMAIN y.keep : y.keep[f] = f => f \in x.get
  PROVE  Sound(<<x, y>>)
<1> DEFINE p == <<x, y>>
<1>1. p \in Seq(Message) /\ p # <<>> /\ Len(p) = 2 /\ DOMAIN p = {1, 2} /\ p[1] = x /\ p[2] = y OBVIOUS
<1>2. Fits(x) /\ DOMAIN x.keep = {} /\ x.sum = "none" BY PlainFits DEF Plain
<1> HIDE DEF p
<1>3. \A i \in DOMAIN p : Fits(p[i]) /\ ~p[i].may /\ ~p[i].go BY <1>1, <1>2
<1>4. Goes(p, 1) BY <1>1 DEF Goes
<1>5. \A i \in DOMAIN p : i + 1 \in DOMAIN p => Goes(p, i) BY <1>1, <1>4
<1>6. \A i, j \in DOMAIN p : i < j => p[i].set = {} /\ p[i].one = {} BY <1>1
<1>7. Sound(p) BY <1>1, <1>2, <1>3, <1>5, <1>6 DEF Sound
<1> QED BY <1>7 DEF p

IsWrite(m, S, k) ==
  /\ m \in Message /\ m.get = {} /\ m.set = S /\ m.keep = k /\ m.zero = {} /\ m.one = {} /\ m.sum = "none"
  /\ m.select = "none" /\ m.wait /\ ~m.go /\ ~m.may
LEMMA Written ==
  ASSUME NEW S \in SUBSET Fields, NEW k \in Keeps
  PROVE  IsWrite(Write(S, k), S, k)
  BY MsgIs DEF Write, Message, Types, IsWrite

LEMMA SameKeeps == ASSUME NEW S \in SUBSET Fields PROVE Same(S) \in Keeps
<1>1. Same(S) \in [S -> Fields] BY SameType DEF Same
<1> QED BY <1>1 DEF Keeps

LEMMA Counter ==
  ASSUME NEW sum \in {"rx", "tx"}
  PROVE  LET x == [Read({}) EXCEPT !.sum = sum] IN
         /\ x \in Message /\ Writes(x) = {} /\ x.sum = sum /\ x.select = "none" /\ DOMAIN x.keep = {}
         /\ x.wait /\ ~x.go /\ ~x.may /\ x.set = {} /\ x.one = {} /\ Fits(x)
<1> DEFINE x == [Read({}) EXCEPT !.sum = sum]
<1>1. /\ x \in Message /\ x.sum = sum /\ x.select = "none" /\ DOMAIN x.keep = {} /\ x.zero = {}
      /\ x.wait /\ ~x.go /\ ~x.may /\ x.set = {} /\ x.one = {}
  BY MsgIs DEF Read, Message
<1> HIDE DEF x
<1>2. Writes(x) = {} BY <1>1 DEF Writes
<1>3. Fits(x) BY <1>1, <1>2 DEF Fits
<1> QED BY <1>1, <1>2, <1>3 DEF x

LEMMA Joined ==
  ASSUME NEW S, NEW s \in Seq(S), NEW t \in Seq(S)
  PROVE  /\ s \o t \in Seq(S) /\ Len(s) \in Nat /\ Len(t) \in Nat /\ Len(s \o t) = Len(s) + Len(t)
         /\ \A i \in 1..(Len(s) + Len(t)) : (s \o t)[i] = IF i <= Len(s) THEN s[i] ELSE t[i - Len(s)]
  OBVIOUS

LEMMA JoinTwo ==
  ASSUME NEW S, NEW s \in Seq(S), NEW a \in S, NEW b \in S, NEW p, p = s \o <<a, b>>
  PROVE  /\ p \in Seq(S) /\ Len(p) = Len(s) + 2 /\ DOMAIN p = 1..(Len(s) + 2)
         /\ \A i \in 1..Len(s) : p[i] = s[i]
         /\ p[Len(s) + 1] = a /\ p[Len(s) + 2] = b
<1> DEFINE t == <<a, b>>
<1>1. t \in Seq(S) /\ Len(t) = 2 /\ t[1] = a /\ t[2] = b OBVIOUS
<1>0. p = s \o t OBVIOUS
<1> HIDE DEF t
<1>2. p \in Seq(S) /\ Len(s) \in Nat /\ Len(p) = Len(s) + Len(t) BY <1>0, <1>1, Joined
<1>3. \A i \in 1..(Len(s) + Len(t)) : p[i] = IF i <= Len(s) THEN s[i] ELSE t[i - Len(s)]
  BY <1>0, <1>1, Joined
<1>4. p \in Seq(S) /\ Len(p) = Len(s) + 2 BY <1>1, <1>2
<1>5. DOMAIN p = 1..(Len(s) + 2) BY <1>4
<1>6. \A i \in 1..Len(s) : p[i] = s[i] BY <1>1, <1>2, <1>3
<1>7. p[Len(s) + 1] = t[1] /\ p[Len(s) + 2] = t[2]
  <2>1. Len(s) + 1 \in 1..(Len(s) + Len(t)) /\ Len(s) + 2 \in 1..(Len(s) + Len(t)) BY <1>1, <1>2
  <2>2. ~(Len(s) + 1 <= Len(s)) /\ ~(Len(s) + 2 <= Len(s)) BY <1>2
  <2>3. Len(s) + 1 - Len(s) = 1 /\ Len(s) + 2 - Len(s) = 2 BY <1>2
  <2> QED BY <1>3, <2>1, <2>2, <2>3
<1> QED BY <1>1, <1>4, <1>5, <1>6, <1>7

LEMMA JoinOne ==
  ASSUME NEW S, NEW a \in S, NEW b \in S, NEW p, p = <<a>> \o <<b>>
  PROVE  p \in Seq(S) /\ Len(p) = 2 /\ p[1] = a /\ p[2] = b
<1> DEFINE s == <<a>>
           t == <<b>>
<1>1. s \in Seq(S) /\ Len(s) = 1 /\ s[1] = a /\ t \in Seq(S) /\ Len(t) = 1 /\ t[1] = b OBVIOUS
<1>0. p = s \o t OBVIOUS
<1> HIDE DEF s, t
<1>2. p \in Seq(S) /\ Len(p) = 2 BY <1>0, <1>1, Joined
<1>3. \A i \in 1..(Len(s) + Len(t)) : p[i] = IF i <= Len(s) THEN s[i] ELSE t[i - Len(s)]
  BY <1>0, <1>1, Joined
<1>4. p[1] = a /\ p[2] = b BY <1>1, <1>3
<1> QED BY <1>2, <1>4

LEMMA PerfSound == Sound(getPortPerf)
<1> DEFINE c(s)   == Select(s)
           r(sum) == [Read({}) EXCEPT !.sum = sum]
           p4 == <<c("rxlo"), r("rx")>> \o <<c("rxhi"), r("rx")>>
           p6 == p4 \o <<c("txlo"), r("tx")>>
           p  == p6 \o <<c("txlo"), r("tx")>>
<1>1. getPortPerf = p BY DEF getPortPerf, readPerfReg
<1>2. \A s \in Counters : /\ c(s) \in Message /\ Plain(c(s)) /\ c(s).select = s
                          /\ c(s).wait /\ ~c(s).go /\ ~c(s).may
  BY Selected1 DEF Selects
<1>3. \A d \in {"rx", "tx"} :
        /\ r(d) \in Message /\ Writes(r(d)) = {} /\ r(d).sum = d /\ r(d).select = "none"
        /\ r(d).wait /\ ~r(d).go /\ ~r(d).may /\ Fits(r(d)) /\ DOMAIN r(d).keep = {}
  BY Counter
<1> HIDE DEF c, r
<1>4. /\ c("rxlo") \in Message /\ c("rxhi") \in Message /\ c("txlo") \in Message
      /\ r("rx") \in Message /\ r("tx") \in Message
  BY <1>2, <1>3 DEF Counters
<1>a. /\ <<c("rxlo"), r("rx")>> \in Seq(Message) /\ Len(<<c("rxlo"), r("rx")>>) = 2
      /\ <<c("rxlo"), r("rx")>>[1] = c("rxlo") /\ <<c("rxlo"), r("rx")>>[2] = r("rx")
  BY <1>4
<1>b. /\ p4 \in Seq(Message) /\ Len(p4) = 4
      /\ p4[1] = c("rxlo") /\ p4[2] = r("rx") /\ p4[3] = c("rxhi") /\ p4[4] = r("rx")
  BY <1>4, <1>a, JoinTwo
<1> HIDE DEF p4
<1>d. p4 \in Seq(Message) BY <1>b
<1>x. /\ p6 \in Seq(Message) /\ Len(p6) = Len(p4) + 2
      /\ \A i \in 1..Len(p4) : p6[i] = p4[i]
      /\ p6[Len(p4) + 1] = c("txlo") /\ p6[Len(p4) + 2] = r("tx")
  BY ONLY <1>4, <1>d, JoinTwo
<1> HIDE DEF p6
<1>c. /\ p6 \in Seq(Message) /\ Len(p6) = 6
      /\ p6[1] = c("rxlo") /\ p6[2] = r("rx") /\ p6[3] = c("rxhi") /\ p6[4] = r("rx")
      /\ p6[5] = c("txlo") /\ p6[6] = r("tx")
  BY <1>b, <1>x
<1>e. p6 \in Seq(Message) BY <1>c
<1>y. /\ p \in Seq(Message) /\ Len(p) = Len(p6) + 2 /\ DOMAIN p = 1..(Len(p6) + 2)
      /\ \A i \in 1..Len(p6) : p[i] = p6[i]
      /\ p[Len(p6) + 1] = c("txlo") /\ p[Len(p6) + 2] = r("tx")
  BY ONLY <1>4, <1>e, JoinTwo
<1> HIDE DEF p
<1>5. p \in Seq(Message) /\ Len(p) = 8 /\ DOMAIN p = 1..8 BY <1>c, <1>y
<1>6. /\ p[1] = c("rxlo") /\ p[2] = r("rx") /\ p[3] = c("rxhi") /\ p[4] = r("rx")
      /\ p[5] = c("txlo") /\ p[6] = r("tx") /\ p[7] = c("txlo") /\ p[8] = r("tx")
  BY <1>c, <1>y
<1>7. \A i \in DOMAIN p : i \in {1, 2, 3, 4, 5, 6, 7, 8} BY <1>5
<1>8. \A i \in DOMAIN p : (\E s \in Counters : p[i] = c(s)) \/ \E d \in {"rx", "tx"} : p[i] = r(d)
  BY <1>6, <1>7 DEF Counters
<1>9. \A i \in DOMAIN p : Fits(p[i]) /\ Writes(p[i]) = {} /\ ~p[i].may /\ ~p[i].go
                         /\ DOMAIN p[i].keep = {}
  BY <1>2, <1>3, <1>8, PlainFits DEF Plain
<1>10. ASSUME NEW i \in DOMAIN p, i + 1 \in DOMAIN p PROVE Goes(p, i)
  <2>1. DOMAIN p[i + 1].keep = {} BY <1>9, <1>10
  <2>2. CASE i \in {2, 4, 6}
    <3>1. p[i + 1].sum = "none" BY <1>2, <1>6, <2>2 DEF Counters, Plain
    <3> QED BY <2>1, <3>1 DEF Goes
  <2>3. CASE i \in {1, 3, 5, 7}
    <3>1. \E s \in Counters : \E d \in {"rx", "tx"} : p[i] = c(s) /\ p[i + 1] = r(d) /\ s \in Of[d]
      BY <1>6, <2>3 DEF Counters, Of
    <3> QED BY <1>2, <1>3, <2>1, <3>1 DEF Goes, Plain
  <2> QED BY <1>5, <1>7, <1>10, <2>2, <2>3
<1>11. \A i, j \in DOMAIN p : (p[i].set \cup p[i].one) \cap Writes(p[j]) = {} BY <1>9
<1>12. p[1].sum = "none" /\ DOMAIN p[1].keep = {}
  BY <1>2, <1>5, <1>6, <1>9 DEF Plain, Counters
<1>13. p # <<>> BY <1>5
<1>14. Sound(p) BY <1>5, <1>13, <1>9, <1>10, <1>11, <1>12 DEF Sound
<1> QED BY <1>1, <1>14 DEF p, p6, p4, c, r
\* The requests that set something.
LEMMA TellFits ==
  ASSUME NEW type \in Types, NEW S \in SUBSET Fields
  PROVE  Fits(Tell(type, S)) /\ Writes(Tell(type, S)) = S
  BY Told DEF Fits, Writes

LEMMA TellSound ==
  ASSUME NEW type \in Types, NEW S \in SUBSET Fields
  PROVE  Sound(<<Tell(type, S)>>)
<1> DEFINE m == Tell(type, S)
<1>1. m \in Message /\ m.sum = "none" /\ DOMAIN m.keep = {} /\ ~m.may /\ ~m.go BY Told
<1>2. Fits(m) BY TellFits
<1> HIDE DEF m
<1>3. Sound(<<m>>) BY <1>1, <1>2, Setter
<1> QED BY <1>3 DEF m

LEMMA UnwaitedSound ==
  ASSUME NEW m \in Message, m.set \subseteq {"out"}, m.zero = {}, m.one = {}, DOMAIN m.keep = {},
         m.get = {}, m.sum = "none", ~m.may, ~m.go
  PROVE  Sound(<<[m EXCEPT !.wait = FALSE]>>)
<1> DEFINE x == [m EXCEPT !.wait = FALSE]
<1>1. /\ x \in Message /\ x.set \subseteq {"out"} /\ x.zero = {} /\ x.one = {} /\ DOMAIN x.keep = {}
      /\ x.sum = "none" /\ ~x.may /\ ~x.go /\ x.get = {}
  BY DEF Message
<1> HIDE DEF x
<1>2. Writes(x) \subseteq {"out"} BY <1>1 DEF Writes
<1>3. Fits(x) BY <1>1, <1>2 DEF Fits, Once
<1>4. Sound(<<x>>) BY <1>1, <1>3, Setter
<1> QED BY <1>4 DEF x

LEMMA IOSound == Sound(setONUIO)
<1> DEFINE m == Tell("IOW", {"out"})
<1>1. "IOW" \in Types /\ {"out"} \in SUBSET Fields BY DEF Types, Fields
<1>2. /\ m \in Message /\ m.set \subseteq {"out"} /\ m.zero = {} /\ m.one = {} /\ DOMAIN m.keep = {}
      /\ m.sum = "none" /\ ~m.may /\ ~m.go /\ m.get = {}
  BY <1>1, Told
<1> HIDE DEF m
<1>3. Sound(<<[m EXCEPT !.wait = FALSE]>>) BY <1>2, UnwaitedSound
<1> QED BY <1>3 DEF m, setONUIO

LEMMA ResetSound == Sound(resetONU)
<1> DEFINE m == Ask("RESET")
<1>1. "RESET" \in Types BY DEF Types
<1>2. m \in Message /\ Plain(m) BY <1>1, Asked
<1>3. ~m.may /\ ~m.go /\ m.get = {} BY MsgIs DEF Ask
<1> HIDE DEF m
<1>4. m.set \subseteq {"out"} /\ m.zero = {} /\ m.one = {} /\ DOMAIN m.keep = {} /\ m.sum = "none"
  BY <1>2 DEF Plain, Writes
<1>5. Sound(<<[m EXCEPT !.wait = FALSE]>>) BY <1>2, <1>3, <1>4, UnwaitedSound
<1> QED BY <1>5 DEF m, resetONU

LEMMA MirrorSound == Sound(setONUPortMirror)
<1> DEFINE S == {"mirror", "both"}
           k == Same({})
           m == Write(S, k)
           x == [m EXCEPT !.zero = {"scheme", "vlanOn"}]
<1>1. k \in Keeps /\ DOMAIN k = {} BY SameKeeps DEF Same
<1>2. S \in SUBSET Fields /\ {"scheme", "vlanOn"} \in SUBSET Fields BY DEF Fields
<1> HIDE DEF S, k
<1>3. IsWrite(m, S, k) BY <1>1, <1>2, Written
<1> HIDE DEF m
<1>4. /\ x \in Message /\ x.get = {} /\ x.set = S /\ x.keep = k /\ x.one = {} /\ x.sum = "none"
      /\ x.wait /\ ~x.go /\ ~x.may /\ x.zero = {"scheme", "vlanOn"}
  BY <1>2, <1>3 DEF Message, IsWrite
<1>5. DOMAIN x.keep = {} BY <1>1, <1>4
<1> HIDE DEF x
<1>6. Fits(x) BY <1>4, <1>5 DEF Fits, Kept, S
<1>7. Sound(<<x>>) BY <1>4, <1>5, <1>6, Setter
<1> QED BY <1>7 DEF x, m, k, S, setONUPortMirror

LEMMA PortSound == Sound(setONUFEPort)
<1> DEFINE S == {"port"}
           k == Same({})
           x == Read(S)
           m == Write(S, k)
           y == [m EXCEPT !.select = "other"]
<1>1. k \in Keeps /\ DOMAIN k = {} BY SameKeeps DEF Same
<1>2. S \in SUBSET Fields BY DEF Fields
<1> HIDE DEF k
<1>3. IsWrite(m, S, k) BY <1>1, <1>2, Written
<1>4. /\ x \in Message /\ Plain(x) /\ x.wait /\ ~x.go /\ ~x.may /\ x.set = {} /\ x.one = {}
  BY <1>2, Reads
<1> HIDE DEF m, x
<1>5. /\ y \in Message /\ y.get = {} /\ y.set = S /\ y.keep = k /\ y.zero = {} /\ y.one = {} /\ y.sum = "none"
      /\ y.wait /\ ~y.go /\ ~y.may
  BY <1>3 DEF IsWrite, Message, Selects
<1> HIDE DEF y
<1>6. Fits(y) BY <1>1, <1>5 DEF Fits, Kept
<1>7. \A f \in DOMAIN y.keep : y.keep[f] = f => f \in x.get BY <1>1, <1>5
<1>8. Sound(<<x, y>>) BY <1>4, <1>5, <1>6, <1>7, ReadAndSet
<1> QED BY <1>8 DEF x, y, m, k, setONUFEPort

LEMMA QoSSound == Sound(setONUQoS)
<1> DEFINE G == {"storm", "prio1", "prio2", "scheme", "vlanOn", "both"}
           S == {"prio1", "prio2", "scheme"}
           K == {"storm", "vlanOn", "both"}
           k == Same(K)
           x == Read(G)
           y == Write(S, k)
<1>1. k \in Keeps /\ DOMAIN k = K BY SameKeeps DEF Same, Fields
<1>2. S \in SUBSET Fields /\ G \in SUBSET Fields BY DEF Fields
<1>0. K \subseteq G /\ S \cap K = {} /\ Kept \cap K = {} BY DEF Kept
<1> HIDE DEF G, S, K, k
<1>3. IsWrite(y, S, k) BY <1>1, <1>2, Written
<1>4. x \in Message /\ Plain(x) /\ x.wait /\ ~x.go /\ ~x.may /\ x.set = {} /\ x.one = {} /\ x.get = G
  BY <1>2, Reads
<1> HIDE DEF x, y
<1>5. /\ y \in Message /\ y.get = {} /\ y.set = S /\ DOMAIN y.keep = K /\ y.zero = {} /\ y.one = {} /\ y.sum = "none"
      /\ y.wait /\ ~y.go /\ ~y.may
  BY <1>1, <1>3 DEF IsWrite
<1>6. Fits(y) BY <1>0, <1>5 DEF Fits
<1>7. \A f \in DOMAIN y.keep : f \in x.get BY <1>0, <1>4, <1>5
<1>8. Sound(<<x, y>>) BY <1>4, <1>5, <1>6, <1>7, ReadAndSet
<1> QED BY <1>8 DEF x, y, G, S, K, k, setONUQoS

LEMMA VlanSound == Sound(saveONUVLAN)
<1> DEFINE G == {"scheme", "vlanOn", "both"}
           S == {"vlan"}
           K == {"scheme", "both"}
           k == Same(K)
           x == Read(G)
           m == Write(S, k)
           y == [m EXCEPT !.one = {"vlanOn"}, !.select = "other"]
<1>1. k \in Keeps /\ DOMAIN k = K BY SameKeeps DEF Same, Fields
<1>2. S \in SUBSET Fields /\ G \in SUBSET Fields /\ {"vlanOn"} \in SUBSET Fields BY DEF Fields
<1>0. K \subseteq G /\ S \cap (K \cup {"vlanOn"}) = {} /\ Kept \cap (K \cup {"vlanOn"}) = {} BY DEF Kept
<1> HIDE DEF G, S, K, k
<1>3. IsWrite(m, S, k) BY <1>1, <1>2, Written
<1>4. x \in Message /\ Plain(x) /\ x.wait /\ ~x.go /\ ~x.may /\ x.set = {} /\ x.one = {} /\ x.get = G
  BY <1>2, Reads
<1> HIDE DEF x, m
<1>5. /\ y \in Message /\ y.get = {} /\ y.set = S /\ DOMAIN y.keep = K /\ y.zero = {} /\ y.one = {"vlanOn"}
      /\ y.sum = "none" /\ y.wait /\ ~y.go /\ ~y.may
  BY <1>1, <1>2, <1>3 DEF IsWrite, Message, Selects
<1> HIDE DEF y
<1>6. Fits(y) BY <1>0, <1>5 DEF Fits
<1>7. \A f \in DOMAIN y.keep : f \in x.get BY <1>0, <1>4, <1>5
<1>8. Sound(<<x, y>>) BY <1>4, <1>5, <1>6, <1>7, ReadAndSet
<1> QED BY <1>8 DEF x, y, m, G, S, K, k, saveONUVLAN

LEMMA SetSound == ASSUME NEW v PROVE Sound(setONUAdmin \o setONUName \o setONUStorm(v))
<1> DEFINE G == {"storm", "prio1", "threshold"}
           S == {"storm"} \cup (IF v = 1 THEN {"threshold"} ELSE {})
           K == {"prio1", "prio2"}
           k == [f \in K |-> "prio1"]
           m1 == Tell("ADMINW", {"admin"})
           m2 == Tell("NAMEW", {"name"})
           m3 == Read(G)
           m4 == Write(S, k)
           p  == setONUAdmin \o setONUName \o setONUStorm(v)
<1>1. k \in Keeps /\ DOMAIN k = K /\ \A f \in K : k[f] = "prio1"
  <2>1. k \in [K -> Fields] /\ K \in SUBSET Fields BY DEF Fields
  <2> QED BY <2>1 DEF Keeps
<1>2. /\ S \in SUBSET Fields /\ G \in SUBSET Fields /\ {"admin"} \in SUBSET Fields
      /\ {"name"} \in SUBSET Fields /\ "ADMINW" \in Types /\ "NAMEW" \in Types
  BY DEF Fields, Types
<1>3. /\ "prio1" \in G /\ S \cap K = {} /\ Kept \cap K = {} /\ "admin" \notin {"name"} \cup S \cup K
      /\ "name" \notin {"admin"} \cup S \cup K
  BY DEF Kept
<1>a. /\ m1 \in Message /\ m1.set = {"admin"} /\ m1.one = {} /\ DOMAIN m1.keep = {} /\ m1.sum = "none"
      /\ ~m1.go /\ ~m1.may
  BY <1>2, Told
<1>b. /\ m2 \in Message /\ m2.set = {"name"} /\ m2.one = {} /\ DOMAIN m2.keep = {} /\ m2.sum = "none"
      /\ ~m2.go /\ ~m2.may
  BY <1>2, Told
<1>c. Fits(m1) /\ Writes(m1) = {"admin"} /\ Fits(m2) /\ Writes(m2) = {"name"} BY <1>2, TellFits
<1>d. setONUAdmin \o setONUName \o setONUStorm(v) = <<m1>> \o <<m2>> \o <<m3, m4>>
  BY DEF setONUAdmin, setONUName, setONUStorm
<1> HIDE DEF m1, m2, S, K, G, k
<1>e. /\ m3 \in Message /\ Plain(m3) /\ m3.wait /\ ~m3.go /\ ~m3.may /\ m3.set = {} /\ m3.one = {}
      /\ m3.get = G
  BY <1>2, Reads
<1>f. IsWrite(m4, S, k) BY <1>1, <1>2, Written
<1> HIDE DEF m3, m4
<1>g. /\ m4 \in Message /\ m4.get = {} /\ m4.set = S /\ DOMAIN m4.keep = K /\ m4.zero = {} /\ m4.one = {}
      /\ m4.sum = "none" /\ m4.wait /\ ~m4.go /\ ~m4.may /\ m4.keep = k
  BY <1>1, <1>f DEF IsWrite
<1>h. Fits(m4) BY <1>3, <1>g DEF Fits
<1>i. Fits(m3) /\ DOMAIN m3.keep = {} /\ m3.sum = "none" BY <1>e, PlainFits DEF Plain
<1>j. Writes(m3) = {} /\ Writes(m4) = S \cup K BY <1>e, <1>g DEF Plain, Writes
<1>5. /\ p \in Seq(Message) /\ Len(p) = 4 /\ DOMAIN p = 1..4
      /\ p[1] = m1 /\ p[2] = m2 /\ p[3] = m3 /\ p[4] = m4
  <2> DEFINE s == <<m1>> \o <<m2>>
  <2>1. p = s \o <<m3, m4>> BY <1>d
  <2> HIDE DEF p, s
  <2>2. s \in Seq(Message) /\ Len(s) = 2 /\ s[1] = m1 /\ s[2] = m2 BY <1>a, <1>b, JoinOne DEF s
  <2>3. m3 \in Message /\ m4 \in Message /\ s \in Seq(Message) BY <1>e, <1>g, <2>2
  <2>4. /\ p \in Seq(Message) /\ Len(p) = Len(s) + 2 /\ DOMAIN p = 1..(Len(s) + 2)
        /\ \A i \in 1..Len(s) : p[i] = s[i]
        /\ p[Len(s) + 1] = m3 /\ p[Len(s) + 2] = m4
    BY ONLY <2>1, <2>3, JoinTwo
  <2> QED BY <2>2, <2>4
<1> HIDE DEF p
<1>6. \A i \in DOMAIN p : i \in {1, 2, 3, 4} BY <1>5
<1>7. \A i \in DOMAIN p : Fits(p[i]) /\ ~p[i].may /\ ~p[i].go
  BY <1>5, <1>6, <1>a, <1>b, <1>c, <1>e, <1>g, <1>h, <1>i
<1>8. ASSUME NEW i \in DOMAIN p, i + 1 \in DOMAIN p PROVE Goes(p, i)
  <2>1. p[i + 1].sum = "none" BY <1>5, <1>6, <1>8, <1>b, <1>g, <1>i
  <2>2. CASE i = 3
    <3>1. p[i + 1] = m4 /\ p[i] = m3 BY <1>5, <2>2
    <3>2. \A f \in K : k[f] = f => f \in G BY <1>1, <1>3
    <3> QED BY <2>1, <3>1, <3>2, <1>e, <1>g DEF Goes
  <2>3. CASE i # 3
    <3>1. DOMAIN p[i + 1].keep = {} BY <1>5, <1>6, <1>8, <2>3, <1>b, <1>i
    <3> QED BY <2>1, <3>1 DEF Goes
  <2> QED BY <2>2, <2>3
<1>9. ASSUME NEW i \in DOMAIN p, NEW j \in DOMAIN p, i < j
      PROVE  (p[i].set \cup p[i].one) \cap Writes(p[j]) = {}
  <2>1. CASE i = 1
    <3>1. p[i].set = {"admin"} /\ p[i].one = {} BY <1>5, <1>a, <2>1
    <3>2. "admin" \notin Writes(p[j]) BY <1>3, <1>5, <1>6, <1>9, <2>1, <1>c, <1>j
    <3> QED BY <3>1, <3>2
  <2>2. CASE i = 2
    <3>1. p[i].set = {"name"} /\ p[i].one = {} BY <1>5, <1>b, <2>2
    <3>2. "name" \notin Writes(p[j]) BY <1>3, <1>5, <1>6, <1>9, <2>2, <1>c, <1>j
    <3> QED BY <3>1, <3>2
  <2>3. CASE i = 3 BY <1>5, <1>e, <2>3
  <2>4. i # 4 BY <1>5, <1>9
  <2> QED BY <1>6, <2>1, <2>2, <2>3, <2>4
<1>10. p # <<>> /\ p[1].sum = "none" /\ DOMAIN p[1].keep = {} BY <1>5, <1>a
<1>11. Sound(p) BY <1>5, <1>7, <1>8, <1>9, <1>10 DEF Sound
<1> QED BY <1>11 DEF p

\* Every program is sound.
LEMMA ProgramSound == ASSUME NEW c \in Codes, NEW v PROVE Sound(Program(c, v))
<1>1. c = "C_ONU_GET" => Sound(Program(c, v))
  <2> DEFINE R1 == Read({"storm", "prio1"})
             R2 == Read({"threshold"})
             A1 == Ask("ADMIN")
             A2 == Ask("STATE1")
             A3 == Ask("STATE2")
  <2>1. /\ A1 \in Message /\ Plain(A1) /\ A2 \in Message /\ Plain(A2) /\ A3 \in Message /\ Plain(A3)
        /\ R1 \in Message /\ Plain(R1) /\ R2 \in Message /\ Plain(R2)
    BY Asked, Reads DEF Types, Fields
  <2>2. getONUInfo = <<A1, A2, A3, R1, R2>> BY DEF getONUInfo
  <2> HIDE DEF R1, R2, A1, A2, A3
  <2>3. Sound(<<A1, A2, A3, R1, R2>>) BY <2>1, Getter5
  <2> QED BY <2>2, <2>3 DEF Program
<1>2. c \in {"C_ONU_GETDATACH", "C_ONU_GETIO"} => Sound(Program(c, v))
  <2>1. \A t \in Types : Sound(<<Ask(t)>>) BY Asked, Getter1
  <2>2. "UART" \in Types /\ "IO" \in Types BY DEF Types
  <2> QED BY <2>1, <2>2 DEF Program, getONUUartInfo, getONUIO
<1>3. c \in {"C_ONU_GETPORTMIRROR", "C_ONU_GETQoS"} => Sound(Program(c, v))
  <2>1. \A S \in SUBSET Fields : Sound(<<Read(S)>>) BY Reads, Getter1
  <2>2. /\ {"mirror", "scheme", "vlanOn", "both"} \in SUBSET Fields
        /\ {"storm", "prio1", "prio2", "scheme", "vlanOn", "both"} \in SUBSET Fields
    BY DEF Fields
  <2>3. Sound(getONUPortMirror) BY <2>1, <2>2 DEF getONUPortMirror
  <2>4. Sound(getONUQoS) BY <2>1, <2>2 DEF getONUQoS
  <2> QED BY <2>3, <2>4 DEF Program
<1>4. c = "C_ONU_GETVLAN" => Sound(Program(c, v))
  <2> DEFINE s == Select("other")
             g == [s EXCEPT !.go = TRUE]
             r == Read({})
  <2>1. s \in Message /\ Plain(s) BY Selected1 DEF Selects
  <2>2. r \in Message /\ Plain(r) BY Reads
  <2>0. getONUVLAN = <<g, s, r, s, r, s, r, s, r>> BY DEF getONUVLAN
  <2> HIDE DEF s, r
  <2>3. g \in Message /\ Plain(g) BY <2>1, Excepted
  <2> HIDE DEF g
  <2>4. Sound(<<g, s, r, s, r, s, r, s, r>>) BY <2>1, <2>2, <2>3, Getter9
  <2> QED BY <2>0, <2>4 DEF Program
<1>5. c = "C_SFP_GET" => Sound(Program(c, v))
  <2> DEFINE a == Ask("SFP")
             b == [a EXCEPT !.may = TRUE]
  <2>1. a \in Message /\ Plain(a) BY Asked DEF Types
  <2>0. getSFPInfo = <<a, b, b>> BY DEF getSFPInfo
  <2> HIDE DEF a
  <2>2. b \in Message /\ Plain(b) BY <2>1, Excepted
  <2> HIDE DEF b
  <2>3. Sound(<<a, b, b>>) BY <2>1, <2>2, Getter3
  <2> QED BY <2>0, <2>3 DEF Program
<1>6. c = "C_ETHER_GET" => Sound(Program(c, v))
  <2> DEFINE a == Read({"port"})
             s == Select("other")
             b == [s EXCEPT !.may = TRUE]
             r == Read({})
  <2>1. s \in Message /\ Plain(s) BY Selected1 DEF Selects
  <2>2. r \in Message /\ Plain(r) /\ a \in Message /\ Plain(a) BY Reads DEF Fields
  <2>0. getONUFEPort = <<a, b, r>> BY DEF getONUFEPort
  <2> HIDE DEF a, s, r
  <2>3. b \in Message /\ Plain(b) BY <2>1, Excepted
  <2> HIDE DEF b
  <2>4. Sound(<<a, b, r>>) BY <2>1, <2>2, <2>3, Getter3
  <2> QED BY <2>0, <2>4 DEF Program
<1>7. c = "C_ONU_SET" => Sound(Program(c, v)) BY SetSound DEF Program
<1>8. c = "C_ONU_SETDATACH" => Sound(Program(c, v))
  <2>1. "UARTW" \in Types /\ {"uart"} \in SUBSET Fields BY DEF Types, Fields
  <2>2. Sound(<<Tell("UARTW", {"uart"})>>) BY <2>1, TellSound
  <2> QED BY <2>2 DEF Program, setONUUart
<1>9. c = "C_ONU_SETIO" => Sound(Program(c, v)) BY IOSound DEF Program
<1>10. c = "C_ONU_SETPORTMIRROR" => Sound(Program(c, v)) BY MirrorSound DEF Program
<1>11. c = "C_ONU_SETQoS" => Sound(Program(c, v)) BY QoSSound DEF Program
<1>12. c \in {"C_ONU_SAVEVLAN", "C_ONU_DELVLAN"} => Sound(Program(c, v)) BY VlanSound DEF Program, delONUVLAN
<1>13. c = "C_ETHER_SET" => Sound(Program(c, v)) BY PortSound DEF Program
<1>14. c = "C_ONU_RESET" => Sound(Program(c, v)) BY ResetSound DEF Program
<1>15. c \in {"GET_PORT_PERF", "SET_PERF_RESET"} => Sound(Program(c, v)) BY PerfSound DEF Program
<1> QED BY <1>1, <1>2, <1>3, <1>4, <1>5, <1>6, <1>7, <1>8, <1>9, <1>10, <1>11, <1>12, <1>13, <1>14, <1>15
        DEF Codes

----------------------------------------------------------------------------
(* Messages on the fibre. *)

LEMMA TailOf ==
  ASSUME NEW S, NEW s \in Seq(S), s # <<>>
  PROVE  /\ 1 \in DOMAIN s /\ Head(s) = s[1] /\ Head(s) \in S /\ Tail(s) \in Seq(S)
         /\ \A i \in DOMAIN Tail(s) : i \in Nat /\ i + 1 \in DOMAIN s /\ Tail(s)[i] = s[i + 1]
         /\ \A i \in DOMAIN s : i # 1 => i - 1 \in DOMAIN Tail(s) /\ Tail(s)[i - 1] = s[i]
  OBVIOUS

LEMMA AppendOf ==
  ASSUME NEW S, NEW s \in Seq(S), NEW x \in S
  PROVE  /\ Append(s, x) \in Seq(S) /\ Len(s) \in Nat /\ Len(s) + 1 \in DOMAIN Append(s, x)
         /\ Append(s, x)[Len(s) + 1] = x
         /\ \A i \in DOMAIN s : i \in Nat /\ i <= Len(s) /\ i \in DOMAIN Append(s, x) /\ Append(s, x)[i] = s[i]
         /\ \A i \in DOMAIN Append(s, x) : i \in DOMAIN s \/ i = Len(s) + 1
  OBVIOUS

LEMMA OldOf ==
  ASSUME NEW S, NEW s \in Seq(S), \A x \in S : [x EXCEPT !.tag = IF @ = "own" THEN "old" ELSE @] \in S
  PROVE  /\ Old(s) \in Seq(S) /\ DOMAIN Old(s) = DOMAIN s
         /\ \A i \in DOMAIN s : Old(s)[i] = [s[i] EXCEPT !.tag = IF @ = "own" THEN "old" ELSE @]
<1>1. \A i \in DOMAIN s : s[i] \in S OBVIOUS
<1>2. Old(s) = [i \in 1..Len(s) |-> [s[i] EXCEPT !.tag = IF @ = "own" THEN "old" ELSE @]] BY DEF Old
<1>3. \A i \in 1..Len(s) : [s[i] EXCEPT !.tag = IF @ = "own" THEN "old" ELSE @] \in S BY <1>1
<1> QED BY <1>2, <1>3

LEMMA OldOrders ==
  ASSUME NEW s \in Seq(Order)
  PROVE  /\ Old(s) \in Seq(Order) /\ DOMAIN Old(s) = DOMAIN s
         /\ \A i \in DOMAIN s : /\ Old(s)[i].type = s[i].type /\ Old(s)[i].get = s[i].get
                                /\ Old(s)[i].bits = s[i].bits /\ Old(s)[i].select = s[i].select
                                /\ Old(s)[i].count = s[i].count
                                /\ Old(s)[i].tag = IF s[i].tag = "own" THEN "old" ELSE s[i].tag
<1>1. \A x \in Order : [x EXCEPT !.tag = IF @ = "own" THEN "old" ELSE @] \in Order BY DEF Order, Tags
<1>2. /\ Old(s) \in Seq(Order) /\ DOMAIN Old(s) = DOMAIN s
      /\ \A i \in DOMAIN s : Old(s)[i] = [s[i] EXCEPT !.tag = IF @ = "own" THEN "old" ELSE @]
  BY <1>1, OldOf
<1>3. \A i \in DOMAIN s : s[i] \in Order OBVIOUS
<1> QED BY <1>2, <1>3 DEF Order

LEMMA OldReplies ==
  ASSUME NEW s \in Seq(Reply)
  PROVE  /\ Old(s) \in Seq(Reply) /\ DOMAIN Old(s) = DOMAIN s
         /\ \A i \in DOMAIN s : /\ Old(s)[i].type = s[i].type /\ Old(s)[i].bits = s[i].bits
                                /\ Old(s)[i].count = s[i].count /\ Old(s)[i].valid = s[i].valid
                                /\ Old(s)[i].tag = IF s[i].tag = "own" THEN "old" ELSE s[i].tag
<1>1. \A x \in Reply : [x EXCEPT !.tag = IF @ = "own" THEN "old" ELSE @] \in Reply BY DEF Reply, Tags
<1>2. /\ Old(s) \in Seq(Reply) /\ DOMAIN Old(s) = DOMAIN s
      /\ \A i \in DOMAIN s : Old(s)[i] = [s[i] EXCEPT !.tag = IF @ = "own" THEN "old" ELSE @]
  BY <1>1, OldOf
<1>3. \A i \in DOMAIN s : s[i] \in Reply OBVIOUS
<1> QED BY <1>2, <1>3 DEF Reply

----------------------------------------------------------------------------
(* Types, and whose answers are taken. *)

Flow == toOnu \in Seq(Order) /\ toCard \in Seq(Reply) /\ entry \in Reply

IsOwn(m) == m.tag = "own"

\* What the main thread waits for, and what it has found.
WaitOK ==
  /\ pc = "wait" => Cmd.wait
  /\ entry # None => pc = "wait" /\ entry.type = Cmd.type

\* Without a message of its type that is not its own, what is found is its own.
CleanOwn ==
  clean => /\ entry # None => IsOwn(entry)
           /\ pc = "wait" =>
                /\ \A i \in DOMAIN toOnu : toOnu[i].type = Cmd.type => IsOwn(toOnu[i])
                /\ \A k \in DOMAIN toCard : toCard[k].type = Cmd.type => IsOwn(toCard[k])

TInv == TypeOK /\ Flow
AInv == TInv /\ WaitOK /\ CleanOwn

LEMMA NoneIs ==
  /\ None \in Reply /\ None.type = "none" /\ None.bits = [f \in {} |-> 0] /\ None.count = 0 /\ None.valid
  /\ None.tag = "own"
<1>1. [f \in {} |-> 0] \in [{} -> Bit] BY DEF Bit
<1>2. [f \in {} |-> 0] \in Settings BY <1>1 DEF Settings
<1> DEFINE b == [f \in {} |-> 0]
<1>3. None = [type |-> "none", bits |-> b, count |-> 0, valid |-> TRUE, tag |-> "own"] BY DEF None
<1> HIDE DEF b
<1> QED BY <1>2, <1>3 DEF Reply, Tags, b

LEMMA UpIs == Up \in Reply /\ Up.type = "UP" /\ Up.tag = "once"
  BY NoneIs DEF Up, Reply, Tags

\* The message the main thread is at.
LEMMA CmdIs ==
  ASSUME TypeOK, pc # "idle"
  PROVE  /\ code \in Codes /\ Sound(Program(code, value)) /\ n \in DOMAIN Program(code, value) /\ Cmd \in Message
         /\ Fits(Cmd)
<1>1. code \in Codes /\ n \in DOMAIN Program(code, value) BY DEF TypeOK
<1>2. Sound(Program(code, value)) BY <1>1, ProgramSound
<1>3. Cmd \in Message /\ Fits(Cmd) BY <1>1, <1>2 DEF Sound, Cmd
<1> QED BY <1>1, <1>2, <1>3

LEMMA KeepIs == ASSUME NEW m \in Message PROVE DOMAIN m.keep \in SUBSET Fields /\ m.keep \in [DOMAIN m.keep -> Fields]
  BY DEF Message, Keeps

LEMMA BitsIs ==
  ASSUME TypeOK, NEW m \in Message
  PROVE  Bits(m) \in Settings /\ DOMAIN Bits(m) = Writes(m)
<1>1. DOMAIN m.keep \in SUBSET Fields /\ m.keep \in [DOMAIN m.keep -> Fields] BY KeepIs
<1>2. Writes(m) \in SUBSET Fields BY <1>1 DEF Writes, Message
<1>3. \A f \in DOMAIN m.keep : got[m.keep[f]] \in Bit BY <1>1 DEF TypeOK
<1>4. \A f \in Writes(m) : (IF f \in m.set THEN value ELSE IF f \in m.zero THEN 0 ELSE IF f \in m.one THEN 1
                            ELSE got[m.keep[f]]) \in Bit
  BY <1>3 DEF Writes, TypeOK, Bit
<1>5. Bits(m) = [f \in Writes(m) |-> IF f \in m.set THEN value ELSE IF f \in m.zero THEN 0 ELSE
                                   IF f \in m.one THEN 1 ELSE got[m.keep[f]]]
  BY DEF Bits, Writes
<1>6. Bits(m) \in [Writes(m) -> Bit] BY <1>4, <1>5
<1> QED BY <1>2, <1>6 DEF Settings

LEMMA RequestIs ==
  ASSUME TypeOK, pc # "idle"
  PROVE  /\ Request \in Order /\ Request.type = Cmd.type /\ Request.get = Cmd.get /\ Request.bits = Bits(Cmd)
         /\ Request.select = Cmd.select /\ Request.count = (Cmd.sum # "none")
         /\ Request.tag = IF Cmd.wait THEN "own" ELSE "once"
<1>1. Cmd \in Message BY CmdIs
<1>2. Bits(Cmd) \in Settings BY <1>1, BitsIs
<1>3. /\ Cmd.type \in Types \cup {"UP", "none"} /\ Cmd.get \in SUBSET Fields /\ Cmd.select \in Selects
      /\ (Cmd.sum # "none") \in BOOLEAN /\ (IF Cmd.wait THEN "own" ELSE "once") \in Tags
  BY <1>1 DEF Message, Tags
<1> QED BY <1>2, <1>3 DEF Request, Order

\* Where the main thread is, and what is wanted of the fields.
Place ==
  /\ pc \in {"idle", "send", "wait", "store"} /\ code \in Codes \cup {"none"} /\ value \in Bit
  /\ n \in 1..9
  /\ (pc # "idle" => code \in Codes /\ n \in DOMAIN Program(code, value))
  /\ wanted \in [Fields -> Bit \cup {Any}] /\ spoilt \subseteq Fields

LEMMA ChangesIs ==
  ASSUME NEW p, Sound(p), NEW i \in DOMAIN p
  PROVE  /\ p[i] \in Message /\ Writes(p[i]) \subseteq Fields /\ i \in 1..9
         /\ i < Len(p) => i + 1 \in DOMAIN p /\ i + 1 \in 1..9
<1>1. p \in Seq(Message) /\ Len(p) <= 9 BY DEF Sound
<1>2. p[i] \in Message /\ Len(p) \in Nat /\ DOMAIN p = 1..Len(p) BY <1>1
<1>3. Writes(p[i]) \subseteq Fields BY <1>2, KeepIs DEF Message, Writes
<1>4. i \in 1..9 /\ (i < Len(p) => i + 1 \in DOMAIN p /\ i + 1 \in 1..9)
  <2> DEFINE L == Len(p)
  <2>1. L \in Nat /\ L <= 9 /\ i \in 1..L /\ DOMAIN p = 1..L BY <1>1, <1>2
  <2> HIDE DEF L
  <2>2. i \in 1..9 /\ (i < L => i + 1 \in 1..L /\ i + 1 \in 1..9) BY ONLY <2>1
  <2> QED BY <2>1, <2>2 DEF L
<1> QED BY <1>2, <1>3, <1>4, Zenon

LEMMA SetsIs ==
  ASSUME TypeOK, pc # "idle"
  PROVE  Sets \subseteq Fields /\ Ones \subseteq Fields /\ Others \subseteq Fields
<1> DEFINE p == Program(code, value)
<1>1. Sound(p) BY CmdIs
<1>2. \A i \in DOMAIN p : p[i].set \subseteq Fields /\ p[i].one \subseteq Fields /\ p[i].zero \subseteq Fields
                         /\ DOMAIN p[i].keep \subseteq Fields
  BY <1>1, ChangesIs DEF Writes
<1>3. Sets \subseteq Fields BY <1>2 DEF Sets
<1>4. Ones \subseteq Fields BY <1>2 DEF Ones
<1>5. Others \subseteq Fields BY <1>2 DEF Others
<1> QED BY <1>3, <1>4, <1>5

LEMMA DonePlace ==
  ASSUME TypeOK, pc # "idle", NEW ok \in BOOLEAN, Done(ok)
  PROVE  Place' /\ pc' = "idle" /\ again' \in BOOLEAN
<1>1. /\ pc' = "idle" /\ code' = "none" /\ value' \in Bit /\ n' \in 1..9 /\ again' \in BOOLEAN
  <2>1. pc' = "idle" /\ code' = "none" /\ value' = 0 /\ n' = 1 /\ again' = FALSE BY DEF Done
  <2>2. value' \in Bit /\ n' \in 1..9 BY ONLY <2>1 DEF Bit
  <2> QED BY <2>1, <2>2, Zenon
<1>2. wanted' \in [Fields -> Bit \cup {Any}]
  <2>1. \A f \in Fields : (IF f \in Sets \cup Ones
                          THEN IF ~ok THEN Any ELSE IF f \in Sets THEN value ELSE 1
                          ELSE wanted[f]) \in Bit \cup {Any}
    BY DEF TypeOK, Bit
  <2> QED BY <2>1 DEF Done
<1>3. spoilt' \subseteq Fields BY SetsIs DEF Done, TypeOK
<1> QED BY <1>1, <1>2, <1>3 DEF Place

LEMMA AdvancePlace ==
  ASSUME TypeOK, pc # "idle", Advance
  PROVE  Place' /\ pc' \in {"idle", "send", "store"} /\ again' \in BOOLEAN
<1>1. CASE n < Len(Program(code, value))
  <2>1. n + 1 \in DOMAIN Program(code, value) /\ n + 1 \in 1..9 BY <1>1, CmdIs, ChangesIs
  <2>2. CASE Done(TRUE) BY <2>2, DonePlace
  <2>3. CASE ~Done(TRUE)
    <3>1. pc' = "send" /\ n' = n + 1 /\ again' = FALSE /\ UNCHANGED <<code, value, wanted, spoilt>>
      BY <1>1, <2>3 DEF Advance
    <3>2. code \in Codes /\ value \in Bit /\ wanted \in [Fields -> Bit \cup {Any}] /\ spoilt \subseteq Fields
      BY DEF TypeOK
    <3>3. code' = code /\ value' = value /\ wanted' = wanted /\ spoilt' = spoilt BY <3>1
    <3>4. n' \in DOMAIN Program(code', value') /\ n' \in 1..9 BY <2>1, <3>1, <3>3
    <3>5. pc' \in {"idle", "send", "wait", "store"} /\ pc' \in {"idle", "send", "store"} /\ again' \in BOOLEAN
      BY ONLY <3>1
    <3>6. /\ code' \in Codes /\ value' \in Bit /\ wanted' \in [Fields -> Bit \cup {Any}]
          /\ spoilt' \subseteq Fields /\ code' \in Codes \cup {"none"}
      BY ONLY <3>2, <3>3
    <3> QED BY ONLY <3>4, <3>5, <3>6, Zenon DEF Place
  <2> QED BY <2>2, <2>3, Zenon
<1>2. CASE ~(n < Len(Program(code, value)))
  <2>1. CASE Sets \cap Kept # {}
    <3>1. pc' = "store" /\ UNCHANGED <<code, value, n, again, wanted, spoilt>> BY <1>2, <2>1 DEF Advance
    <3> QED BY <3>1 DEF Place, TypeOK
  <2>2. CASE Sets \cap Kept = {}
    <3>1. Done(TRUE) BY <1>2, <2>2 DEF Advance
    <3> QED BY <3>1, DonePlace
  <2> QED BY <2>1, <2>2
<1> QED BY <1>1, <1>2

\* Types do not depend on where the main thread has come to.
Rest ==
  /\ tries \in 0..(MaxRetry - 1) /\ got \in [Fields -> Bit]
  /\ reg \in [Fields -> Bit] /\ sel \in Counters \cup {"other"}
  /\ cnt \in [Counters -> Nat] /\ perf \in [{"rx", "tx"} -> Nat]
  /\ db \in [Kept -> Bit \cup {NoRow}]
  /\ total \in [{"rx", "tx"} -> Nat] /\ before \in [{"rx", "tx"} -> Nat]
  /\ script \in Seq(Codes) /\ events \in 0..MaxEvents
Flags == again \in BOOLEAN /\ sent \in BOOLEAN /\ on \in BOOLEAN /\ clean \in BOOLEAN /\ tainted \in BOOLEAN

LEMMA TypeIs == TypeOK <=> Place /\ Rest /\ Flags
  BY Zenon DEF TypeOK, Place, Rest, Flags
LEMMA TypeNext == TypeOK' <=> Place' /\ Rest' /\ Flags'
  BY Zenon DEF TypeOK, Place, Rest, Flags

LEMMA ClearedIs ==
  ASSUME TypeOK
  PROVE  /\ [d \in DOMAIN Of |-> 0] \in [{"rx", "tx"} -> Nat] /\ DOMAIN Of = {"rx", "tx"}
         /\ [rx |-> cnt.rxlo + cnt.rxhi, tx |-> cnt.txlo + cnt.txhi] \in [{"rx", "tx"} -> Nat]
<1>1. DOMAIN Of = {"rx", "tx"} BY DEF Of
<1>2. cnt["rxlo"] \in Nat /\ cnt["rxhi"] \in Nat /\ cnt["txlo"] \in Nat /\ cnt["txhi"] \in Nat
  BY DEF TypeOK, Counters
<1> DEFINE a == cnt.rxlo + cnt.rxhi
           b == cnt.txlo + cnt.txhi
<1>3. a \in Nat /\ b \in Nat BY <1>2
<1> HIDE DEF a, b
<1>4. [rx |-> a, tx |-> b] \in [{"rx", "tx"} -> Nat] BY <1>3
<1> QED BY <1>1, <1>4 DEF a, b

LEMMA InitTypes == ASSUME OnuFifoAssumption, Init PROVE TInv /\ WaitOK /\ CleanOwn
<1>1. Place
  <2>1. /\ pc = "idle" /\ code = "none" /\ value = 0 /\ n = 1 /\ wanted = [f \in Fields |-> Any]
        /\ spoilt = {}
    BY DEF Init
  <2> QED BY ONLY <2>1 DEF Place, Bit
<1>2. Rest
  <2>1. sel \in Counters \cup {"other"} /\ got \in [Fields -> Bit] /\ reg \in [Fields -> Bit]
        /\ cnt \in [Counters -> Nat] /\ db \in [Kept -> Bit \cup {NoRow}]
    BY DEF Init, Bit
  <2>2. perf \in [{"rx", "tx"} -> Nat] /\ total = perf /\ before = perf BY DEF Init
  <2>3. script \in Seq(Codes) /\ events \in 0..MaxEvents BY DEF Init, OnuFifoAssumption
  <2>4. tries \in 0..(MaxRetry - 1) BY DEF Init, MaxRetry
  <2> QED BY <2>1, <2>2, <2>3, <2>4 DEF Rest
<1>a. Flags BY Zenon DEF Init, Flags
<1>3. Flow /\ entry = None /\ toOnu = <<>> /\ toCard = <<>> /\ pc = "idle" BY NoneIs DEF Init, Flow
<1>4. TInv BY <1>1, <1>2, <1>3, <1>a, TypeIs DEF TInv
<1> QED BY <1>3, <1>4 DEF WaitOK, CleanOwn

LEMMA CallTypes == ASSUME TInv, NEW v \in Bit, Call(v) PROVE TInv'
<1>1. /\ pc' = "send" /\ code' = Head(script) /\ value' = v /\ n' = 1 /\ script # <<>>
      /\ before' = total /\ script' = Tail(script)
      /\ UNCHANGED <<tries, again, sent, got, entry, toOnu, toCard, onu, db, perf, clean, tainted,
                     wanted, spoilt, total, events>>
  BY DEF Call
<1>2. script \in Seq(Codes) BY DEF TInv, TypeOK
<1>3. code' \in Codes /\ script' \in Seq(Codes) BY <1>1, <1>2, TailOf
<1>4. Sound(Program(code', value')) BY <1>3, ProgramSound
<1>5. 1 \in DOMAIN Program(code', value') BY <1>4, FirstIn DEF Sound
<1>6. Place' BY <1>1, <1>3, <1>5 DEF Place, TInv, TypeOK
<1>7. Rest' BY <1>1, <1>3 DEF Rest, TInv, TypeOK, onu
<1>8. Flow' BY <1>1 DEF Flow, TInv
<1>9. Flags' BY <1>1, Zenon DEF Flags, TInv, TypeOK, onu
<1> QED BY <1>6, <1>7, <1>8, <1>9, TypeNext DEF TInv

LEMMA SendTypes == ASSUME TInv, Send PROVE TInv'
<1>1. /\ pc = "send" /\ entry' = None /\ tries' = 0
      /\ UNCHANGED <<sent, toCard, onu, db, perf, tainted, total, before, script, events>>
  BY DEF Send
<1>2. TypeOK BY DEF TInv
<1>3. toOnu' \in {toOnu, Append(toOnu, Request)} BY DEF Send
<1>4. Flow'
  <2>1. Request \in Order /\ toOnu \in Seq(Order) BY <1>1, <1>2, RequestIs DEF TInv, Flow
  <2>2. toOnu' \in Seq(Order) BY <1>3, <2>1, AppendOf
  <2> QED BY <1>1, <2>2, NoneIs DEF TInv, Flow
<1>5. CASE Cmd.wait
  <2>1. /\ pc' = "wait" /\ UNCHANGED <<code, value, n, again, got, wanted, spoilt>>
        /\ clean' = ~About(Cmd.type)
    BY <1>5 DEF Send
  <2>2. Place' BY <1>1, <1>2, <2>1 DEF Place, TypeOK
  <2>3. clean' \in BOOLEAN BY <2>1 DEF About
  <2>4. Rest' BY <1>1, <1>2, <2>1 DEF Rest, TypeOK, onu, MaxRetry
  <2>5. Flags' BY <1>1, <1>2, <2>1, <2>3, Zenon DEF Flags, TypeOK, onu
  <2> QED BY <1>4, <2>2, <2>4, <2>5, TypeNext DEF TInv
<1>6. CASE ~Cmd.wait
  <2>1. (Advance \/ Done(FALSE)) /\ got' = Zeros /\ clean' = clean BY <1>6 DEF Send
  <2>2. Place' /\ again' \in BOOLEAN
    <3>1. CASE Advance BY <3>1, <1>1, <1>2, AdvancePlace
    <3>2. CASE Done(FALSE) BY <3>2, <1>1, <1>2, DonePlace
    <3> QED BY <2>1, <3>1, <3>2, Zenon
  <2>3. got' \in [Fields -> Bit] BY <2>1 DEF Zeros, Bit
  <2>4. Rest' BY <1>1, <1>2, <2>3 DEF Rest, TypeOK, onu, MaxRetry
  <2>5. Flags' BY <1>1, <1>2, <2>1, <2>2, Zenon DEF Flags, TypeOK, onu
  <2> QED BY <1>4, <2>2, <2>4, <2>5, TypeNext DEF TInv
<1> QED BY <1>5, <1>6

LEMMA WriteTypes == ASSUME TInv, WriteFifo PROVE TInv'
<1>1. /\ pc = "wait" /\ sent' = TRUE /\ toOnu' = Append(toOnu, Request)
      /\ UNCHANGED <<pc, code, value, n, tries, again, got, entry, toCard, onu, db, perf, history,
                     script, events>>
  BY DEF WriteFifo
<1>2. TypeOK BY DEF TInv
<1>3. Flow'
  <2>1. Request \in Order /\ toOnu \in Seq(Order) BY <1>1, <1>2, RequestIs DEF TInv, Flow
  <2>2. toOnu' \in Seq(Order) BY <1>1, <2>1, AppendOf
  <2> QED BY <1>1, <2>2 DEF TInv, Flow
<1>4. Place' BY <1>1, <1>2 DEF Place, TypeOK, history
<1>5. Rest' BY <1>1, <1>2 DEF Rest, TypeOK, onu, history
<1>6. Flags' BY <1>1, <1>2, Zenon DEF Flags, TypeOK, onu, history
<1> QED BY <1>3, <1>4, <1>5, <1>6, TypeNext DEF TInv

LEMMA SettingIs ==
  ASSUME NEW b \in Settings
  PROVE  DOMAIN b \subseteq Fields /\ \A f \in DOMAIN b : b[f] \in Bit
  BY DEF Settings

LEMMA TakeTypes == ASSUME TInv, Take PROVE TInv'
<1>1. /\ pc = "wait" /\ toOnu' = Old(toOnu) /\ toCard' = Old(toCard) /\ entry' = None /\ tries' = 0
      /\ sent' = FALSE
      /\ tainted' = (tainted \/ entry.tag # "own")
      /\ UNCHANGED <<onu, db, clean, before, script, events>>
  BY DEF Take
<1>2. TypeOK /\ pc # "idle" BY <1>1 DEF TInv
<1>3. Flow' BY <1>1, OldOrders, OldReplies, NoneIs DEF TInv, Flow
<1>4. Place' /\ again' \in BOOLEAN
  <2>1. \/ Advance
        \/ Done(FALSE)
        \/ pc' = "send" /\ again' = TRUE /\ UNCHANGED <<code, value, n, wanted, spoilt>>
    BY DEF Take
  <2>2. CASE Advance BY <2>2, <1>2, AdvancePlace
  <2>3. CASE Done(FALSE) BY <2>3, <1>2, DonePlace
  <2>4. CASE pc' = "send" /\ again' = TRUE /\ UNCHANGED <<code, value, n, wanted, spoilt>>
    <3>1. Place' BY <2>4, <1>2 DEF Place, TypeOK
    <3> QED BY <2>4, <3>1, Zenon
  <2> QED BY <2>1, <2>2, <2>3, <2>4, Zenon
<1>5. got' \in [Fields -> Bit]
  <2>1. PICK v \in Bit :
          got' = [f \in Fields |-> IF pc' = "idle" THEN 0
                                ELSE IF entry.tag # "own" /\ f \in Cmd.get THEN v
                                ELSE IF f \in DOMAIN entry.bits /\ entry.tag = "own" THEN entry.bits[f]
                                ELSE got[f]]
    BY DEF Take
  <2>2. entry.bits \in Settings BY DEF TInv, Flow, Reply
  <2>3. \A f \in DOMAIN entry.bits : entry.bits[f] \in Bit BY <2>2, SettingIs
  <2>4. \A f \in Fields : (IF pc' = "idle" THEN 0 ELSE IF entry.tag # "own" /\ f \in Cmd.get THEN v
                           ELSE IF f \in DOMAIN entry.bits /\ entry.tag = "own" THEN entry.bits[f]
                           ELSE got[f]) \in Bit
    BY <1>2, <2>3 DEF TypeOK, Bit
  <2> QED BY <2>1, <2>4
<1>6. perf' \in [{"rx", "tx"} -> Nat] /\ total' \in [{"rx", "tx"} -> Nat]
  <2>1. entry.count \in Nat BY DEF TInv, Flow, Reply
  <2>2. Cmd.sum \in {"none", "rx", "tx"} BY <1>2, CmdIs DEF Message
  <2>3. perf \in [{"rx", "tx"} -> Nat] /\ total \in [{"rx", "tx"} -> Nat] BY <1>2 DEF TypeOK
  <2>4. CASE Cleared
    <3>1. perf' = [d \in DOMAIN Of |-> 0] /\ total' = [rx |-> cnt.rxlo + cnt.rxhi, tx |-> cnt.txlo + cnt.txhi]
      BY <2>4 DEF Take
    <3> QED BY <1>2, <3>1, ClearedIs
  <2>5. CASE ~Cleared
    <3>1. total' = total BY <2>5 DEF Take
    <3>2. CASE Cmd.sum = "none"
      <4>1. perf' = perf BY <2>5, <3>2 DEF Take
      <4> QED BY <2>3, <3>1, <4>1
    <3>3. CASE Cmd.sum # "none"
      <4>1. perf' = [perf EXCEPT ![Cmd.sum] = @ + entry.count] BY <2>5, <3>3 DEF Take
      <4>2. Cmd.sum \in {"rx", "tx"} /\ perf[Cmd.sum] + entry.count \in Nat BY <2>1, <2>2, <2>3, <3>3
      <4> QED BY <2>3, <3>1, <4>1, <4>2
    <3> QED BY <3>2, <3>3
  <2> QED BY <2>4, <2>5
<1>7. Rest' BY <1>1, <1>2, <1>5, <1>6 DEF Rest, TypeOK, onu, MaxRetry
<1>8. Flags' BY <1>1, <1>2, <1>4, Zenon DEF Flags, TypeOK, onu
<1> QED BY <1>3, <1>4, <1>7, <1>8, TypeNext DEF TInv

LEMMA TimeoutTypes == ASSUME OnuFifoAssumption, TInv, Timeout PROVE TInv'
<1>1. /\ pc = "wait" /\ sent' = FALSE /\ tainted' = (tainted \/ Cmd.sum # "none")
      /\ UNCHANGED <<entry, onu, db, clean, before, script>>
  BY DEF Timeout
<1>2. TypeOK /\ pc # "idle" BY <1>1 DEF TInv
<1>3. events' \in 0..MaxEvents
  <2>1. events' = events \/ (events < MaxEvents /\ events' = events + 1) BY DEF Timeout
  <2>2. events \in 0..MaxEvents /\ MaxEvents \in Nat BY <1>2 DEF TypeOK, OnuFifoAssumption
  <2> QED BY <2>1, <2>2
<1>4. CASE tries < MaxRetry - 1
  <2>1. /\ tries' = tries + 1
        /\ UNCHANGED <<pc, code, value, n, again, got, wanted, spoilt, toOnu, toCard, perf, total>>
    BY <1>4 DEF Timeout
  <2>2. Flow' BY <1>1, <2>1 DEF TInv, Flow
  <2>3. Place' BY <1>2, <2>1 DEF Place, TypeOK
  <2>4. tries' \in 0..(MaxRetry - 1) BY <1>2, <1>4, <2>1 DEF TypeOK, MaxRetry
  <2>5. Rest' BY <1>1, <1>2, <1>3, <2>1, <2>4 DEF Rest, TypeOK, onu
  <2>6. Flags' BY <1>1, <1>2, <2>1, Zenon DEF Flags, TypeOK, onu
  <2> QED BY <2>2, <2>3, <2>5, <2>6, TypeNext DEF TInv
<1>5. CASE ~(tries < MaxRetry - 1)
  <2>1. /\ tries' = 0 /\ toOnu' = Old(toOnu) /\ toCard' = Old(toCard)
        /\ IF Cmd.go THEN Advance ELSE Done(FALSE)
        /\ got' = IF pc' = "idle" THEN Zeros ELSE got
        /\ perf' = IF Cleared THEN [d \in DOMAIN Of |-> 0] ELSE perf
        /\ total' = IF Cleared THEN [rx |-> cnt.rxlo + cnt.rxhi, tx |-> cnt.txlo + cnt.txhi] ELSE total
    BY <1>5 DEF Timeout
  <2>2. Flow' BY <1>1, <2>1, OldOrders, OldReplies DEF TInv, Flow
  <2>3. Place' /\ again' \in BOOLEAN
    <3>1. CASE Advance BY <3>1, <1>2, AdvancePlace
    <3>2. CASE Done(FALSE) BY <3>2, <1>2, DonePlace
    <3> QED BY <2>1, <3>1, <3>2, Zenon
  <2>4. got' \in [Fields -> Bit] BY <1>2, <2>1 DEF TypeOK, Zeros, Bit
  <2>5. perf' \in [{"rx", "tx"} -> Nat] /\ total' \in [{"rx", "tx"} -> Nat]
    BY <1>2, <2>1, ClearedIs DEF TypeOK
  <2>6. Rest' BY <1>1, <1>2, <1>3, <2>1, <2>4, <2>5 DEF Rest, TypeOK, onu, MaxRetry
  <2>7. Flags' BY <1>1, <1>2, <2>3, Zenon DEF Flags, TypeOK, onu
  <2> QED BY <2>2, <2>3, <2>6, <2>7, TypeNext DEF TInv
<1> QED BY <1>4, <1>5

LEMMA StoreTypes == ASSUME OnuFifoAssumption, TInv, NEW ok \in BOOLEAN, Store(ok) PROVE TInv'
<1>1. /\ pc = "store" /\ db' = [f \in Kept |-> IF ok /\ f \in Sets THEN value ELSE db[f]]
      /\ Done(TRUE) /\ got' = Zeros
      /\ UNCHANGED <<tries, sent, entry, toOnu, toCard, onu, perf, clean, total, before, script>>
  BY DEF Store
<1>2. TypeOK /\ pc # "idle" BY <1>1 DEF TInv
<1>3. events' \in 0..MaxEvents /\ tainted' \in BOOLEAN
  <2>1. CASE ok BY <1>2, <2>1, Zenon DEF Store, TypeOK
  <2>2. CASE ~ok
    <3>1. events < MaxEvents /\ events' = events + 1 /\ tainted' = TRUE BY <2>2 DEF Store
    <3>2. events \in 0..MaxEvents /\ MaxEvents \in Nat BY <1>2 DEF TypeOK, OnuFifoAssumption
    <3>3. events' \in 0..MaxEvents BY ONLY <3>1, <3>2
    <3> QED BY <3>1, <3>3, Zenon
  <2> QED BY <2>1, <2>2
<1>4. Place' /\ again' \in BOOLEAN BY <1>1, <1>2, DonePlace
<1>5. db' \in [Kept -> Bit \cup {NoRow}] BY <1>1, <1>2 DEF TypeOK
<1>6. got' \in [Fields -> Bit] BY <1>1 DEF Zeros, Bit
<1>7. Rest' BY <1>1, <1>2, <1>3, <1>5, <1>6 DEF Rest, TypeOK, onu
<1>8. Flags' BY <1>1, <1>2, <1>3, <1>4, Zenon DEF Flags, TypeOK, onu
<1>9. Flow' BY <1>1 DEF Flow, TInv
<1> QED BY <1>4, <1>7, <1>8, <1>9, TypeNext DEF TInv

LEMMA DeliverTypes == ASSUME TInv, Deliver PROVE TInv'
<1>1. /\ toCard # <<>> /\ toCard' = Tail(toCard) /\ entry' \in {Head(toCard), entry}
      /\ UNCHANGED <<main, toOnu, onu, db, perf, history, script, events>>
  BY DEF Deliver
<1>2. TypeOK BY DEF TInv
<1>3. Flow' BY <1>1, TailOf DEF TInv, Flow
<1>4. Place' BY <1>1, <1>2 DEF Place, TypeOK, main, history
<1>5. Rest' BY <1>1, <1>2 DEF Rest, TypeOK, main, history, onu
<1>6. Flags' BY <1>1, <1>2, Zenon DEF Flags, TypeOK, main, history, onu
<1> QED BY <1>3, <1>4, <1>5, <1>6, TypeNext DEF TInv

LEMMA StoredIs ==
  ASSUME TypeOK, NEW f \in Kept, db[f] # NoRow
  PROVE  /\ Stored(f) \in Order /\ Stored(f).type \in {"KSW", "UARTW"} /\ Stored(f).tag = "once"
         /\ ~Stored(f).count /\ Stored(f).select \in {"other", "none"}
         /\ DOMAIN Stored(f).bits = {f} /\ Stored(f).bits[f] = db[f]
<1>1. db[f] \in Bit /\ f \in Fields BY DEF TypeOK, Kept, Fields
<1> DEFINE b == [g \in {f} |-> db[f]]
<1>2. b \in [{f} -> Bit] /\ {f} \in SUBSET Fields BY <1>1
<1>3. b \in Settings BY <1>2 DEF Settings
<1>4. DOMAIN b = {f} /\ b[f] = db[f] OBVIOUS
<1>5. Stored(f) = [type |-> IF f = "port" THEN "KSW" ELSE "UARTW", get |-> {},
                   bits |-> b, select |-> IF f = "port" THEN "other" ELSE "none",
                   count |-> FALSE, tag |-> "once"]
  BY DEF Stored
<1> HIDE DEF b
<1> QED BY <1>3, <1>4, <1>5 DEF Order, Types, Tags, Selects

\* The messages that restore the settings.
Restored == (IF db["port"] = NoRow THEN <<>> ELSE << Stored("port") >>)
            \o (IF db["uart"] = NoRow THEN <<>> ELSE << Stored("uart") >>)

LEMMA RestoredIs ==
  ASSUME TypeOK
  PROVE  /\ \E A \in Seq(Order) : \E B \in Seq(Order) :
              /\ A = (IF db["port"] = NoRow THEN <<>> ELSE << Stored("port") >>)
              /\ B = (IF db["uart"] = NoRow THEN <<>> ELSE << Stored("uart") >>)
  <1>1. db["port"] # NoRow => <<Stored("port")>> \in Seq(Order) BY StoredIs DEF Kept
  <1>2. db["uart"] # NoRow => <<Stored("uart")>> \in Seq(Order) BY StoredIs DEF Kept
  <1>3. <<>> \in Seq(Order) OBVIOUS
  <1> QED BY <1>1, <1>2, <1>3

LEMMA RestoreTypes == ASSUME TInv, Restore PROVE TInv'
<1> DEFINE A == IF db["port"] = NoRow THEN <<>> ELSE << Stored("port") >>
           B == IF db["uart"] = NoRow THEN <<>> ELSE << Stored("uart") >>
<1>1. /\ toCard # <<>> /\ toCard' = Tail(toCard) /\ toOnu' = toOnu \o A \o B
      /\ wanted' = [f \in Fields |-> IF f \in Kept /\ db[f] # NoRow THEN db[f] ELSE wanted[f]]
      /\ clean' = (clean /\ pc = "wait" /\ Cmd.type \notin {"KSW", "UARTW"})
      /\ tainted' = (tainted \/ pc # "idle")
      /\ UNCHANGED <<main, entry, onu, db, perf, spoilt, total, before, script, events>>
  BY DEF Restore
<1>2. TypeOK BY DEF TInv
<1>3. A \in Seq(Order) /\ B \in Seq(Order) BY <1>2, RestoredIs
<1> HIDE DEF A, B
<1>4. toOnu' \in Seq(Order) BY <1>1, <1>3 DEF TInv, Flow
<1>5. toCard' \in Seq(Reply) BY <1>1, TailOf DEF TInv, Flow
<1>6. Flow' BY <1>1, <1>4, <1>5 DEF TInv, Flow
<1>7. wanted' \in [Fields -> Bit \cup {Any}]
  <2>1. \A f \in Fields : (IF f \in Kept /\ db[f] # NoRow THEN db[f] ELSE wanted[f]) \in Bit \cup {Any}
    BY <1>2 DEF TypeOK
  <2> QED BY <1>1, <2>1
<1>8. Place' BY <1>1, <1>2, <1>7 DEF Place, TypeOK, main
<1>9. Rest' BY <1>1, <1>2 DEF Rest, TypeOK, main, onu
<1>10. Flags' BY <1>1, <1>2, Zenon DEF Flags, TypeOK, main, onu
<1> QED BY <1>6, <1>8, <1>9, <1>10, TypeNext DEF TInv

LEMMA BootTypes ==
  ASSUME TypeOK, NEW pending \in BOOLEAN, Boot(pending), toCard \in Seq(Reply)
  PROVE  /\ toCard' \in Seq(Reply) /\ reg' \in [Fields -> Bit] /\ sel' \in Counters \cup {"other"}
         /\ cnt' \in [Counters -> Nat] /\ wanted' \in [Fields -> Bit \cup {Any}] /\ spoilt' \subseteq Fields
         /\ total' \in [{"rx", "tx"} -> Nat]
<1>1. /\ reg' = Zeros /\ sel' = "other" /\ cnt' = NoCounts /\ toCard' = Append(toCard, Up)
      /\ wanted' = Zeros /\ spoilt' = {} /\ total' = perf
  BY DEF Boot
<1>2. Zeros \in [Fields -> Bit] /\ Zeros \in [Fields -> Bit \cup {Any}] BY DEF Zeros, Bit
<1>3. NoCounts \in [Counters -> Nat] BY DEF NoCounts
<1>4. toCard' \in Seq(Reply) BY <1>1, UpIs, AppendOf
<1> QED BY <1>1, <1>2, <1>3, <1>4 DEF TypeOK
LEMMA BootFlags == ASSUME TypeOK, NEW pending \in BOOLEAN, Boot(pending) PROVE on' \in BOOLEAN /\ tainted' \in BOOLEAN
  BY Zenon DEF Boot

LEMMA ResetTypes == ASSUME TInv, Reset PROVE TInv'
<1>1. /\ toOnu # <<>> /\ toOnu' = Tail(toOnu)
      /\ UNCHANGED <<main, entry, db, perf, clean, before, script, events>>
  BY DEF Reset
<1>2. PICK pending \in BOOLEAN : Boot(pending) BY DEF Reset
<1>3. TypeOK BY DEF TInv
<1>4. /\ toCard' \in Seq(Reply) /\ reg' \in [Fields -> Bit] /\ sel' \in Counters \cup {"other"}
      /\ cnt' \in [Counters -> Nat] /\ wanted' \in [Fields -> Bit \cup {Any}] /\ spoilt' \subseteq Fields
      /\ total' \in [{"rx", "tx"} -> Nat]
  BY <1>2, <1>3, BootTypes DEF TInv, Flow
<1>5. Flow' BY <1>1, <1>4, TailOf DEF TInv, Flow
<1>6. Place' BY <1>1, <1>3, <1>4 DEF Place, TypeOK, main
<1>7. Rest' BY <1>1, <1>3, <1>4 DEF Rest, TypeOK, main
<1>8. on' \in BOOLEAN /\ tainted' \in BOOLEAN BY <1>2, <1>3, BootFlags
<1>9. Flags' BY <1>1, <1>3, <1>8, Zenon DEF Flags, TypeOK, main
<1> QED BY <1>5, <1>6, <1>7, <1>9, TypeNext DEF TInv

LEMMA SwitchOnTypes == ASSUME TInv, SwitchOn PROVE TInv'
<1>1. UNCHANGED <<main, entry, toOnu, db, perf, clean, before, script, events>>
  BY DEF SwitchOn
<1>2. PICK pending \in BOOLEAN : Boot(pending) BY DEF SwitchOn
<1>3. TypeOK BY DEF TInv
<1>4. /\ toCard' \in Seq(Reply) /\ reg' \in [Fields -> Bit] /\ sel' \in Counters \cup {"other"}
      /\ cnt' \in [Counters -> Nat] /\ wanted' \in [Fields -> Bit \cup {Any}] /\ spoilt' \subseteq Fields
      /\ total' \in [{"rx", "tx"} -> Nat]
  BY <1>2, <1>3, BootTypes DEF TInv, Flow
<1>5. Flow' BY <1>1, <1>4 DEF TInv, Flow
<1>6. Place' BY <1>1, <1>3, <1>4 DEF Place, TypeOK, main
<1>7. Rest' BY <1>1, <1>3, <1>4 DEF Rest, TypeOK, main
<1>8. on' \in BOOLEAN /\ tainted' \in BOOLEAN BY <1>2, <1>3, BootFlags
<1>9. Flags' BY <1>1, <1>3, <1>8, Zenon DEF Flags, TypeOK, main
<1> QED BY <1>5, <1>6, <1>7, <1>9, TypeNext DEF TInv

AnswerOf(m, count, valid) ==
  [type |-> m.type, bits |-> [f \in m.get |-> reg[f]], count |-> count, valid |-> valid, tag |-> m.tag]

LEMMA AnswerIs ==
  ASSUME TypeOK, NEW m \in Order, NEW c \in Nat, NEW v \in BOOLEAN
  PROVE  /\ AnswerOf(m, c, v) \in Reply /\ AnswerOf(m, c, v).type = m.type /\ AnswerOf(m, c, v).tag = m.tag
         /\ AnswerOf(m, c, v).count = c /\ AnswerOf(m, c, v).bits = [f \in m.get |-> reg[f]]
<1> DEFINE b == [f \in m.get |-> reg[f]]
<1>1. m.get \in SUBSET Fields BY DEF Order
<1>2. b \in [m.get -> Bit] BY <1>1 DEF TypeOK
<1>3. b \in Settings BY <1>1, <1>2 DEF Settings
<1>4. AnswerOf(m, c, v) = [type |-> m.type, bits |-> b, count |-> c, valid |-> v, tag |-> m.tag]
  BY DEF AnswerOf
<1> HIDE DEF b
<1>5. m.type \in Types \cup {"UP", "none"} /\ m.tag \in Tags BY DEF Order
<1>6. AnswerOf(m, c, v) \in Reply BY <1>3, <1>4, <1>5 DEF Reply
<1> QED BY <1>4, <1>6 DEF b

\* What an answer does to the ONU and the fibre.
LEMMA AnswerDoes ==
  ASSUME TInv, Answer
  PROVE  LET m == Head(toOnu) IN
         /\ on /\ toOnu # <<>> /\ m.type # "RESET" /\ m \in Order /\ toOnu' = Tail(toOnu)
         /\ reg' = [f \in Fields |-> IF f \in DOMAIN m.bits THEN m.bits[f] ELSE reg[f]]
         /\ sel' = IF m.select = "none" THEN sel ELSE m.select
         /\ \E c \in Nat, v \in BOOLEAN :
              /\ toCard' = Append(toCard, AnswerOf(m, c, v))
              /\ \/ m.count /\ sel # "other" /\ c = cnt[sel] /\ cnt' = [cnt EXCEPT ![sel] = 0]
                 \/ cnt' = cnt /\ c = 0
         /\ events' = events \/ (events < MaxEvents /\ events' = events + 1)
         /\ UNCHANGED <<main, entry, on, db, perf, history, script>>
<1> DEFINE m == Head(toOnu)
           a(count, valid) == [type |-> m.type, bits |-> [f \in m.get |-> reg[f]], count |-> count,
                               valid |-> valid, tag |-> m.tag]
<1>1. /\ on /\ toOnu # <<>> /\ m.type # "RESET" /\ toOnu' = Tail(toOnu)
      /\ reg' = [f \in Fields |-> IF f \in DOMAIN m.bits THEN m.bits[f] ELSE reg[f]]
      /\ sel' = IF m.select = "none" THEN sel ELSE m.select
      /\ UNCHANGED <<main, entry, on, db, perf, history, script>>
  BY DEF Answer
<1>2. m \in Order BY <1>1, TailOf DEF TInv, Flow
<1>3. \A c, v : a(c, v) = AnswerOf(m, c, v) BY DEF AnswerOf
<1>4. \/ /\ m.count /\ sel # "other"
         /\ toCard' = Append(toCard, a(cnt[sel], TRUE)) /\ cnt' = [cnt EXCEPT ![sel] = 0]
         /\ UNCHANGED events
      \/ /\ m.count /\ toCard' = Append(toCard, a(0, FALSE)) /\ UNCHANGED cnt
         /\ IF sel = "other" THEN UNCHANGED events
            ELSE events < MaxEvents /\ events' = events + 1
      \/ ~m.count /\ toCard' = Append(toCard, a(0, TRUE)) /\ UNCHANGED <<cnt, events>>
  BY DEF Answer
<1> HIDE DEF a, m
<1>5. events' = events \/ (events < MaxEvents /\ events' = events + 1) BY <1>4
<1>6. \E c \in Nat, v \in BOOLEAN :
        /\ toCard' = Append(toCard, AnswerOf(m, c, v))
        /\ \/ m.count /\ sel # "other" /\ c = cnt[sel] /\ cnt' = [cnt EXCEPT ![sel] = 0]
           \/ cnt' = cnt /\ c = 0
  <2>1. CASE /\ m.count /\ sel # "other"
             /\ toCard' = Append(toCard, a(cnt[sel], TRUE)) /\ cnt' = [cnt EXCEPT ![sel] = 0]
    <3>1. cnt[sel] \in Nat BY <2>1 DEF TInv, TypeOK
    <3> QED BY <1>3, <2>1, <3>1
  <2>2. CASE cnt' = cnt /\ toCard' = Append(toCard, a(0, FALSE)) BY <1>3, <2>2
  <2>3. CASE cnt' = cnt /\ toCard' = Append(toCard, a(0, TRUE)) BY <1>3, <2>3
  <2> QED BY <1>4, <2>1, <2>2, <2>3
<1> QED BY <1>1, <1>2, <1>5, <1>6 DEF m

LEMMA AnswerTypes == ASSUME OnuFifoAssumption, TInv, Answer PROVE TInv'
<1> DEFINE m == Head(toOnu)
<1>1. /\ on /\ toOnu # <<>> /\ m.type # "RESET" /\ m \in Order /\ toOnu' = Tail(toOnu)
      /\ reg' = [f \in Fields |-> IF f \in DOMAIN m.bits THEN m.bits[f] ELSE reg[f]]
      /\ sel' = IF m.select = "none" THEN sel ELSE m.select
      /\ \E c \in Nat, v \in BOOLEAN :
           /\ toCard' = Append(toCard, AnswerOf(m, c, v))
           /\ \/ m.count /\ sel # "other" /\ c = cnt[sel] /\ cnt' = [cnt EXCEPT ![sel] = 0]
              \/ cnt' = cnt /\ c = 0
      /\ events' = events \/ (events < MaxEvents /\ events' = events + 1)
      /\ UNCHANGED <<main, entry, on, db, perf, history, script>>
  BY AnswerDoes
<1> HIDE DEF m
<1>2. TypeOK BY DEF TInv
<1>3. toCard' \in Seq(Reply) /\ cnt' \in [Counters -> Nat]
  <2>1. PICK c \in Nat, v \in BOOLEAN :
          /\ toCard' = Append(toCard, AnswerOf(m, c, v))
          /\ \/ m.count /\ sel # "other" /\ c = cnt[sel] /\ cnt' = [cnt EXCEPT ![sel] = 0]
             \/ cnt' = cnt /\ c = 0
    BY <1>1
  <2>2. AnswerOf(m, c, v) \in Reply BY <1>1, <1>2, AnswerIs
  <2>3. toCard' \in Seq(Reply) BY <2>1, <2>2, AppendOf DEF TInv, Flow
  <2>4. cnt \in [Counters -> Nat] BY <1>2 DEF TypeOK
  <2>5. cnt' \in [Counters -> Nat] BY ONLY <2>1, <2>4
  <2> QED BY <2>3, <2>5
<1>4. toOnu' \in Seq(Order) BY <1>1, TailOf DEF TInv, Flow
<1>5. Flow' BY <1>1, <1>3, <1>4 DEF TInv, Flow
<1>6. reg' \in [Fields -> Bit]
  <2>1. m.bits \in Settings BY <1>1 DEF Order
  <2>2. \A f \in DOMAIN m.bits : m.bits[f] \in Bit BY <2>1, SettingIs
  <2>3. \A f \in Fields : (IF f \in DOMAIN m.bits THEN m.bits[f] ELSE reg[f]) \in Bit
    BY <1>2, <2>2 DEF TypeOK
  <2> QED BY <1>1, <2>3
<1>7. sel' \in Counters \cup {"other"} BY <1>1, <1>2 DEF Order, Selects, TypeOK
<1>8. events' \in 0..MaxEvents
  <2>1. events \in 0..MaxEvents /\ MaxEvents \in Nat BY <1>2 DEF TypeOK, OnuFifoAssumption
  <2> QED BY <1>1, <2>1
<1>9. Place' BY <1>1, <1>2 DEF Place, TypeOK, main, history
<1>10. Rest' BY <1>1, <1>2, <1>3, <1>6, <1>7, <1>8 DEF Rest, TypeOK, main, history
<1>11. Flags' BY <1>1, <1>2, Zenon DEF Flags, TypeOK, main, history
<1> QED BY <1>5, <1>9, <1>10, <1>11, TypeNext DEF TInv

LEMMA SwitchOffTypes == ASSUME OnuFifoAssumption, TInv, SwitchOff PROVE TInv'
<1>1. /\ events < MaxEvents /\ events' = events + 1 /\ on' = FALSE /\ tainted' = (tainted \/ ~Quiet)
      /\ UNCHANGED <<main, entry, toOnu, toCard, reg, sel, cnt, db, perf, clean, wanted, spoilt, total,
                     before, script>>
  BY DEF SwitchOff
<1>2. TypeOK BY DEF TInv
<1>3. events' \in 0..MaxEvents BY <1>1, <1>2 DEF TypeOK, OnuFifoAssumption
<1>4. Place' BY <1>1, <1>2 DEF Place, TypeOK, main
<1>5. Rest' BY <1>1, <1>2, <1>3 DEF Rest, TypeOK, main
<1>6. Flags' BY <1>1, <1>2, Zenon DEF Flags, TypeOK, main
<1>7. Flow' BY <1>1 DEF Flow, TInv
<1> QED BY <1>4, <1>5, <1>6, <1>7, TypeNext DEF TInv

LEMMA UnheardTypes == ASSUME TInv, Unheard PROVE TInv'
<1>1. /\ toOnu # <<>> /\ toOnu' = Tail(toOnu) /\ tainted' = (tainted \/ Head(toOnu).tag = "once")
      /\ UNCHANGED <<main, entry, toCard, onu, db, perf, clean, wanted, spoilt, total, before, script,
                     events>>
  BY DEF Unheard
<1>2. TypeOK BY DEF TInv
<1>3. Flow' BY <1>1, TailOf DEF Flow, TInv
<1>4. Place' BY <1>1, <1>2 DEF Place, TypeOK, main
<1>5. Rest' BY <1>1, <1>2 DEF Rest, TypeOK, main, onu
<1>6. Flags' BY <1>1, <1>2, Zenon DEF Flags, TypeOK, main, onu
<1> QED BY <1>3, <1>4, <1>5, <1>6, TypeNext DEF TInv

LEMMA LoseTypes == ASSUME OnuFifoAssumption, TInv, Lose PROVE TInv'
<1>1. /\ events < MaxEvents /\ events' = events + 1
      /\ \/ toOnu # <<>> /\ toOnu' = Tail(toOnu) /\ toCard' = toCard
         \/ toCard # <<>> /\ toCard' = Tail(toCard) /\ toOnu' = toOnu
      /\ UNCHANGED <<main, entry, onu, db, perf, clean, wanted, spoilt, total, before, script>>
  BY DEF Lose
<1>2. TypeOK BY DEF TInv
<1>3. Flow' BY <1>1, TailOf DEF Flow, TInv
<1>4. events' \in 0..MaxEvents BY <1>1, <1>2 DEF TypeOK, OnuFifoAssumption
<1>5. Place' BY <1>1, <1>2 DEF Place, TypeOK, main
<1>6. Rest' BY <1>1, <1>2, <1>4 DEF Rest, TypeOK, main, onu
<1>7. tainted' \in BOOLEAN BY Zenon DEF Lose
<1>8. Flags' BY <1>1, <1>2, <1>7, Zenon DEF Flags, TypeOK, main, onu
<1> QED BY <1>3, <1>5, <1>6, <1>8, TypeNext DEF TInv

LEMMA CountTypes == ASSUME TInv, NEW c \in Counters, Count(c) PROVE TInv'
<1>1. /\ cnt' = [cnt EXCEPT ![c] = @ + 1]
      /\ total' = [d \in DOMAIN Of |-> IF c \in Of[d] THEN total[d] + 1 ELSE total[d]]
      /\ UNCHANGED <<main, entry, toOnu, toCard, on, reg, sel, db, perf, clean, tainted, wanted,
                     spoilt, before, script, events>>
  BY DEF Count
<1>2. TypeOK BY DEF TInv
<1>3. cnt' \in [Counters -> Nat] BY <1>1, <1>2 DEF TypeOK
<1>4. total' \in [{"rx", "tx"} -> Nat]
  <2>1. \A d \in {"rx", "tx"} : total[d] \in Nat BY <1>2 DEF TypeOK
  <2>2. \A d \in {"rx", "tx"} : (IF c \in Of[d] THEN total[d] + 1 ELSE total[d]) \in Nat BY <2>1
  <2> QED BY <1>1, <1>2, <2>2, ClearedIs
<1>5. Flow' BY <1>1 DEF Flow, TInv
<1>6. Place' BY <1>1, <1>2 DEF Place, TypeOK, main
<1>7. Rest' BY <1>1, <1>2, <1>3, <1>4 DEF Rest, TypeOK, main
<1>8. Flags' BY <1>1, <1>2, Zenon DEF Flags, TypeOK, main
<1> QED BY <1>5, <1>6, <1>7, <1>8, TypeNext DEF TInv

LEMMA StutterTypes == ASSUME TInv, UNCHANGED vars PROVE TInv'
<1>1. UNCHANGED <<main, entry, toOnu, toCard, onu, db, perf, history, script, events>> BY DEF vars
<1>2. TypeOK BY DEF TInv
<1>3. Flow' BY <1>1 DEF Flow, TInv
<1>4. Place' BY <1>1, <1>2 DEF Place, TypeOK, main, history
<1>5. Rest' BY <1>1, <1>2 DEF Rest, TypeOK, main, onu, history
<1>6. Flags' BY <1>1, <1>2, Zenon DEF Flags, TypeOK, main, onu, history
<1> QED BY <1>3, <1>4, <1>5, <1>6, TypeNext DEF TInv

LEMMA TypesStep == ASSUME OnuFifoAssumption, TInv, [Next]_vars PROVE TInv'
<1>1. ASSUME NEW v \in Bit, Call(v) PROVE TInv' BY <1>1, CallTypes
<1>2. CASE Send BY <1>2, SendTypes
<1>3. CASE Take BY <1>3, TakeTypes
<1>4. CASE Timeout BY <1>4, TimeoutTypes
<1>5. ASSUME NEW ok \in BOOLEAN, Store(ok) PROVE TInv' BY <1>5, StoreTypes
<1>6. CASE Deliver BY <1>6, DeliverTypes
<1>7. CASE Restore BY <1>7, RestoreTypes
<1>8. CASE Answer BY <1>8, AnswerTypes
<1>9. CASE Reset BY <1>9, ResetTypes
<1>10. CASE Unheard BY <1>10, UnheardTypes
<1>11. CASE SwitchOn BY <1>11, SwitchOnTypes
<1>12. CASE SwitchOff BY <1>12, SwitchOffTypes
<1>13. CASE Lose BY <1>13, LoseTypes
<1>14. ASSUME NEW c \in Counters, Count(c) PROVE TInv' BY <1>14, CountTypes
<1>15. CASE UNCHANGED vars BY <1>15, StutterTypes
<1>16. CASE WriteFifo BY <1>16, WriteTypes
<1> QED
  BY <1>1, <1>2, <1>3, <1>4, <1>5, <1>6, <1>7, <1>8, <1>9, <1>10, <1>11, <1>12, <1>13, <1>14, <1>15,
     <1>16
  DEF Next, Main, Fifo, Onu

\* The messages that restore the settings come last.
LEMMA RestoreDoes ==
  ASSUME TInv, Restore
  PROVE  /\ \A i \in DOMAIN toOnu : i \in DOMAIN toOnu' /\ toOnu'[i] = toOnu[i]
         /\ \A i \in DOMAIN toOnu' :
              \/ i \in DOMAIN toOnu /\ toOnu'[i] = toOnu[i]
              \/ i \notin DOMAIN toOnu /\ i > Len(toOnu) /\ \E f \in Kept : db[f] # NoRow /\ toOnu'[i] = Stored(f)
         /\ \A f \in Kept : db[f] # NoRow =>
              \E i \in DOMAIN toOnu' : i \notin DOMAIN toOnu /\ i > Len(toOnu) /\ toOnu'[i] = Stored(f)
<1> DEFINE A == IF db["port"] = NoRow THEN <<>> ELSE << Stored("port") >>
           B == IF db["uart"] = NoRow THEN <<>> ELSE << Stored("uart") >>
           L == Len(toOnu)
<1>1. toOnu' = toOnu \o A \o B BY DEF Restore
<1>2. A \in Seq(Order) /\ B \in Seq(Order) /\ toOnu \in Seq(Order) BY RestoredIs DEF TInv, Flow
<1>3. /\ db["port"] = NoRow => Len(A) = 0
      /\ db["port"] # NoRow => Len(A) = 1 /\ A[1] = Stored("port")
      /\ db["uart"] = NoRow => Len(B) = 0
      /\ db["uart"] # NoRow => Len(B) = 1 /\ B[1] = Stored("uart")
  OBVIOUS
<1> HIDE DEF A, B
<1>4. /\ toOnu \o A \in Seq(Order) /\ Len(toOnu \o A) = L + Len(A) /\ L \in Nat /\ Len(A) \in Nat
      /\ \A i \in 1..(L + Len(A)) : (toOnu \o A)[i] = IF i <= L THEN toOnu[i] ELSE A[i - L]
  BY <1>2, Joined
<1> DEFINE s == toOnu \o A
<1>5. /\ toOnu' \in Seq(Order) /\ Len(toOnu') = Len(s) + Len(B) /\ Len(B) \in Nat
      /\ \A i \in 1..(Len(s) + Len(B)) : toOnu'[i] = IF i <= Len(s) THEN s[i] ELSE B[i - Len(s)]
  <2> HIDE DEF s
  <2>1. s \in Seq(Order) BY <1>4 DEF s
  <2>2. toOnu' = s \o B BY <1>1 DEF s
  <2> QED BY <1>2, <2>1, <2>2, Joined
<1> HIDE DEF s, L
<1>6. /\ Len(s) = L + Len(A) /\ L \in Nat /\ Len(A) \in Nat /\ Len(B) \in Nat
      /\ \A i \in 1..(L + Len(A)) : s[i] = IF i <= L THEN toOnu[i] ELSE A[i - L]
      /\ DOMAIN toOnu = 1..L /\ DOMAIN toOnu' = 1..(L + Len(A) + Len(B))
  BY <1>2, <1>4, <1>5 DEF s, L
<1>7. \A i \in 1..L : toOnu'[i] = toOnu[i]
  <2>1. \A i \in 1..L : i \in 1..(L + Len(A)) /\ i \in 1..(Len(s) + Len(B)) /\ i <= Len(s) /\ i <= L BY <1>6
  <2> QED BY <1>5, <1>6, <2>1
<1>8. Len(A) = 1 => toOnu'[L + 1] = A[1]
  <2>1. Len(A) = 1 => /\ L + 1 \in 1..(L + Len(A)) /\ L + 1 \in 1..(Len(s) + Len(B)) /\ L + 1 <= Len(s)
                      /\ ~(L + 1 <= L) /\ L + 1 - L = 1
    BY <1>6
  <2> QED BY <1>5, <1>6, <2>1
<1>9. Len(B) = 1 => toOnu'[L + Len(A) + 1] = B[1]
  <2>1. Len(B) = 1 => /\ L + Len(A) + 1 \in 1..(Len(s) + Len(B)) /\ ~(L + Len(A) + 1 <= Len(s))
                      /\ L + Len(A) + 1 - Len(s) = 1
    BY <1>6
  <2> QED BY <1>5, <2>1
<1>10. \A i \in DOMAIN toOnu : i \in DOMAIN toOnu' /\ toOnu'[i] = toOnu[i] BY <1>6, <1>7
<1>11. ASSUME NEW i \in DOMAIN toOnu'
       PROVE  \/ i \in DOMAIN toOnu /\ toOnu'[i] = toOnu[i]
              \/ i \notin DOMAIN toOnu /\ i > L /\ \E f \in Kept : db[f] # NoRow /\ toOnu'[i] = Stored(f)
  <2> DEFINE a == Len(A)
             b == Len(B)
  <2>a. a \in {0, 1} /\ b \in {0, 1} /\ L \in Nat /\ i \in 1..(L + a + b) BY <1>3, <1>6
  <2> HIDE DEF a, b
  <2>b. \/ i \in 1..L \/ (i = L + 1 /\ a = 1) \/ (i = L + a + 1 /\ b = 1) BY ONLY <2>a
  <2>1. \/ i \in 1..L \/ (i = L + 1 /\ Len(A) = 1) \/ (i = L + Len(A) + 1 /\ Len(B) = 1) BY <2>b DEF a, b
  <2>2. CASE i \in 1..L BY <2>2, <1>6, <1>7
  <2>3. CASE i = L + 1 /\ Len(A) = 1
    <3>1. toOnu'[i] = Stored("port") /\ db["port"] # NoRow BY <2>3, <1>3, <1>8
    <3>2. i > L /\ i \notin DOMAIN toOnu BY <2>3, <1>6
    <3> QED BY <3>1, <3>2 DEF Kept
  <2>4. CASE i = L + Len(A) + 1 /\ Len(B) = 1
    <3>1. toOnu'[i] = Stored("uart") /\ db["uart"] # NoRow BY <2>4, <1>3, <1>9
    <3>2. i > L /\ i \notin DOMAIN toOnu BY <2>4, <1>6
    <3> QED BY <3>1, <3>2 DEF Kept
  <2> QED BY <2>1, <2>2, <2>3, <2>4
<1>12. ASSUME NEW f \in Kept, db[f] # NoRow
       PROVE  \E i \in DOMAIN toOnu' : i \notin DOMAIN toOnu /\ i > L /\ toOnu'[i] = Stored(f)
  <2>1. CASE f = "port"
    <3>1. Len(A) = 1 /\ A[1] = Stored(f) BY <1>3, <1>12, <2>1
    <3>2. L + 1 \in DOMAIN toOnu' /\ L + 1 \notin DOMAIN toOnu /\ L + 1 > L BY <3>1, <1>6
    <3> QED BY <3>1, <3>2, <1>8
  <2>2. CASE f = "uart"
    <3>1. Len(B) = 1 /\ B[1] = Stored(f) BY <1>3, <1>12, <2>2
    <3> DEFINE i == L + Len(A) + 1
    <3>2. i \in DOMAIN toOnu' /\ i \notin DOMAIN toOnu /\ i > L BY <3>1, <1>6
    <3> QED BY <3>1, <3>2, <1>9
  <2> QED BY <2>1, <2>2 DEF Kept
<1> QED BY <1>10, <1>11, <1>12 DEF L

\* What the main thread has found while it does not wait: nothing.
LEMMA NotWaiting ==
  ASSUME entry' = None, pc' # "wait"
  PROVE  WaitOK' /\ CleanOwn'
  BY DEF WaitOK, CleanOwn

LEMMA OwnStep == ASSUME OnuFifoAssumption, AInv, [Next]_vars PROVE WaitOK' /\ CleanOwn'
<1>0. TypeOK /\ Flow /\ WaitOK /\ CleanOwn BY DEF AInv, TInv
<1>a. pc = "wait" => Cmd \in Message BY <1>0, CmdIs
<1>b. /\ \A i \in DOMAIN toOnu : toOnu[i] \in Order
      /\ \A k \in DOMAIN toCard : toCard[k] \in Reply
  BY <1>0 DEF Flow
<1>c. UNCHANGED main => Cmd' = Cmd /\ pc' = pc BY DEF main, Cmd
<1>1. ASSUME NEW v \in Bit, Call(v) PROVE WaitOK' /\ CleanOwn'
  <2>1. pc = "idle" /\ pc' = "send" /\ entry' = entry BY <1>1 DEF Call
  <2>2. entry = None BY <1>0, <2>1 DEF WaitOK
  <2> QED BY <2>1, <2>2, NotWaiting
<1>2. CASE Send
  <2>1. pc = "send" /\ entry' = None /\ toCard' = toCard BY <1>2 DEF Send
  <2>2. CASE Cmd.wait
    <3>1. pc' = "wait" /\ UNCHANGED <<code, value, n, toOnu>> /\ clean' = ~About(Cmd.type)
      BY <1>2, <2>2 DEF Send
    <3>2. Cmd' = Cmd BY <3>1 DEF Cmd
    <3>3. WaitOK' BY <2>1, <2>2, <3>1, <3>2 DEF WaitOK
    <3>4. CleanOwn' BY <2>1, <3>1, <3>2 DEF CleanOwn, About
    <3> QED BY <3>3, <3>4
  <2>3. CASE ~Cmd.wait
    <3>1. Advance \/ Done(FALSE) BY <1>2, <2>3 DEF Send
    <3>2. pc' # "wait"
      <4>1. CASE Advance BY <4>1, <1>0, <2>1, AdvancePlace
      <4>2. CASE Done(FALSE) BY <4>2 DEF Done
      <4> QED BY <3>1, <4>1, <4>2, Zenon
    <3> QED BY <2>1, <3>2, NotWaiting
  <2> QED BY <2>2, <2>3
<1>18. CASE WriteFifo
  <2>1. /\ pc = "wait" /\ toOnu' = Append(toOnu, Request)
        /\ UNCHANGED <<pc, code, value, n, got, entry, toCard, clean>>
    BY <1>18 DEF WriteFifo, history
  <2>2. Cmd' = Cmd BY <2>1 DEF Cmd
  <2>3. WaitOK' BY <1>0, <2>1, <2>2 DEF WaitOK
  <2>4. Request \in Order /\ Request.tag = "own" BY <1>0, <2>1, RequestIs DEF WaitOK
  <2>5. ASSUME clean, NEW i \in DOMAIN toOnu', toOnu'[i].type = Cmd.type PROVE IsOwn(toOnu'[i])
    <3>1. toOnu'[i] = Request \/ (i \in DOMAIN toOnu /\ toOnu'[i] = toOnu[i])
      BY <1>0, <2>1, <2>4, <2>5, AppendOf DEF Flow
    <3> QED BY <1>0, <2>1, <2>4, <2>5, <3>1 DEF IsOwn, CleanOwn
  <2>6. CleanOwn' BY <1>0, <2>1, <2>2, <2>5 DEF CleanOwn
  <2> QED BY <2>3, <2>6
<1>3. CASE Take
  <2>1. entry' = None /\ pc = "wait" BY <1>3 DEF Take
  <2>2. \/ Advance \/ Done(FALSE) \/ pc' = "send" BY <1>3, Zenon DEF Take
  <2>3. pc' # "wait"
    <3>1. CASE Advance BY <3>1, <1>0, <2>1, AdvancePlace
    <3>2. CASE Done(FALSE) BY <3>2 DEF Done
    <3> QED BY <2>2, <3>1, <3>2, Zenon
  <2> QED BY <2>1, <2>3, NotWaiting
<1>4. CASE Timeout
  <2>1. pc = "wait" /\ entry = None /\ entry' = None /\ clean' = clean BY <1>4 DEF Timeout
  <2>2. CASE tries < MaxRetry - 1
    <3>1. UNCHANGED <<toOnu, toCard, pc, code, value, n>> BY <1>4, <2>2 DEF Timeout
    <3>2. Cmd' = Cmd BY <3>1 DEF Cmd
    <3>3. WaitOK' BY <1>0, <2>1, <3>1, <3>2 DEF WaitOK
    <3>4. CleanOwn' BY <1>0, <2>1, <3>1, <3>2 DEF CleanOwn
    <3> QED BY <3>3, <3>4
  <2>3. CASE ~(tries < MaxRetry - 1)
    <3>1. IF Cmd.go THEN Advance ELSE Done(FALSE) BY <1>4, <2>3 DEF Timeout
    <3>2. pc' # "wait"
      <4>1. CASE Advance BY <4>1, <1>0, <2>1, AdvancePlace
      <4>2. CASE Done(FALSE) BY <4>2 DEF Done
      <4> QED BY <3>1, <4>1, <4>2, Zenon
    <3> QED BY <2>1, <3>2, NotWaiting
  <2> QED BY <2>2, <2>3
<1>5. ASSUME NEW ok \in BOOLEAN, Store(ok) PROVE WaitOK' /\ CleanOwn'
  <2>1. pc = "store" /\ entry' = entry /\ pc' = "idle" BY <1>5 DEF Store, Done
  <2>2. entry = None BY <1>0, <2>1 DEF WaitOK
  <2> QED BY <2>1, <2>2, NotWaiting
<1>6. CASE Deliver
  <2>1. /\ toCard # <<>> /\ toCard' = Tail(toCard) /\ UNCHANGED main /\ toOnu' = toOnu /\ clean' = clean
        /\ entry' = IF pc = "wait" /\ entry = None /\ Head(toCard).type = Cmd.type THEN Head(toCard)
                    ELSE entry
    BY <1>6 DEF Deliver, history
  <2>2. /\ 1 \in DOMAIN toCard /\ Head(toCard) = toCard[1]
        /\ \A k \in DOMAIN toCard' : k + 1 \in DOMAIN toCard /\ toCard'[k] = toCard[k + 1]
    BY <1>0, <2>1, TailOf DEF Flow
  <2>3. Cmd' = Cmd /\ pc' = pc BY <1>c, <2>1
  <2>4. WaitOK' BY <1>0, <2>1, <2>3 DEF WaitOK
  <2>5. CleanOwn' BY <1>0, <2>1, <2>2, <2>3 DEF CleanOwn
  <2> QED BY <2>4, <2>5
<1>7. CASE Restore
  <2>1. /\ toCard # <<>> /\ toCard' = Tail(toCard) /\ UNCHANGED main /\ entry' = entry
        /\ clean' = (clean /\ pc = "wait" /\ Cmd.type \notin {"KSW", "UARTW"})
    BY <1>7 DEF Restore
  <2>2. \A k \in DOMAIN toCard' : k + 1 \in DOMAIN toCard /\ toCard'[k] = toCard[k + 1]
    BY <1>0, <2>1, TailOf DEF Flow
  <2>3. Cmd' = Cmd /\ pc' = pc BY <1>c, <2>1
  <2>4. \A i \in DOMAIN toOnu' : \/ i \in DOMAIN toOnu /\ toOnu'[i] = toOnu[i]
                               \/ toOnu'[i].type \in {"KSW", "UARTW"}
    BY <1>0, <1>7, RestoreDoes, StoredIs DEF AInv, TInv
  <2>5. WaitOK' BY <1>0, <2>1, <2>3 DEF WaitOK
  <2>6. CleanOwn' BY <1>0, <2>1, <2>2, <2>3, <2>4 DEF CleanOwn
  <2> QED BY <2>5, <2>6
<1>8. CASE Answer
  <2> DEFINE m == Head(toOnu)
  <2>1. /\ toOnu # <<>> /\ m \in Order /\ toOnu' = Tail(toOnu) /\ UNCHANGED <<main, entry, clean>>
        /\ \E c \in Nat, v \in BOOLEAN : toCard' = Append(toCard, AnswerOf(m, c, v))
    BY <1>0, <1>8, AnswerDoes DEF TInv, history
  <2>2. /\ 1 \in DOMAIN toOnu /\ m = toOnu[1]
        /\ \A i \in DOMAIN toOnu' : i + 1 \in DOMAIN toOnu /\ toOnu'[i] = toOnu[i + 1]
    BY <1>0, <2>1, TailOf DEF Flow
  <2>3. PICK c \in Nat, v \in BOOLEAN : toCard' = Append(toCard, AnswerOf(m, c, v)) BY <2>1
  <2> HIDE DEF m
  <2> DEFINE x == AnswerOf(m, c, v)
  <2>a. TypeOK /\ m \in Order /\ c \in Nat /\ v \in BOOLEAN BY <1>0, <2>1
  <2>4. x \in Reply /\ x.type = m.type /\ x.tag = m.tag BY ONLY <2>a, AnswerIs
  <2> HIDE DEF x
  <2>5. \A k \in DOMAIN toCard' : toCard'[k] = x \/ (k \in DOMAIN toCard /\ toCard'[k] = toCard[k])
    BY <1>0, <2>3, <2>4, AppendOf DEF Flow, x
  <2>6. Cmd' = Cmd /\ pc' = pc /\ entry' = entry /\ clean' = clean BY <1>c, <2>1
  <2>7. WaitOK' BY <1>0, <2>6 DEF WaitOK
  <2>8. CleanOwn' BY <1>0, <2>2, <2>4, <2>5, <2>6 DEF CleanOwn, IsOwn
  <2> QED BY <2>7, <2>8
<1>9. ASSUME NEW pending \in BOOLEAN, Boot(pending), UNCHANGED <<main, entry, clean>>,
             \A i \in DOMAIN toOnu' : \E j \in DOMAIN toOnu : toOnu'[i] = toOnu[j]
      PROVE  WaitOK' /\ CleanOwn'
  <2>1. Cmd' = Cmd /\ pc' = pc /\ entry' = entry /\ clean' = clean BY <1>c, <1>9
  <2>2. \A k \in DOMAIN toCard' : toCard'[k] = Up \/ (k \in DOMAIN toCard /\ toCard'[k] = toCard[k])
    BY <1>0, <1>9, UpIs, AppendOf DEF Flow, Boot
  <2>3. pc = "wait" => Up.type # Cmd.type BY <1>a, UpIs DEF Message, Types
  <2>4. WaitOK' BY <1>0, <2>1 DEF WaitOK
  <2>5. CleanOwn' BY <1>0, <1>9, <2>1, <2>2, <2>3 DEF CleanOwn
  <2> QED BY <2>4, <2>5
<1>10. CASE Reset
  <2>1. toOnu # <<>> /\ toOnu' = Tail(toOnu) /\ UNCHANGED <<main, entry, clean>> BY <1>10 DEF Reset
  <2>2. \A i \in DOMAIN toOnu' : \E j \in DOMAIN toOnu : toOnu'[i] = toOnu[j] BY <1>0, <2>1, TailOf DEF Flow
  <2>3. PICK pending \in BOOLEAN : Boot(pending) BY <1>10 DEF Reset
  <2> QED BY <1>9, <2>1, <2>2, <2>3
<1>11. CASE SwitchOn
  <2>1. toOnu' = toOnu /\ UNCHANGED <<main, entry, clean>> BY <1>11 DEF SwitchOn
  <2>2. \A i \in DOMAIN toOnu' : \E j \in DOMAIN toOnu : toOnu'[i] = toOnu[j] BY <2>1
  <2>3. PICK pending \in BOOLEAN : Boot(pending) BY <1>11 DEF SwitchOn
  <2> QED BY <1>9, <2>1, <2>2, <2>3
<1>12. ASSUME UNCHANGED <<main, entry, clean>>,
              \A i \in DOMAIN toOnu' : \E j \in DOMAIN toOnu : toOnu'[i] = toOnu[j],
              \A k \in DOMAIN toCard' : \E j \in DOMAIN toCard : toCard'[k] = toCard[j]
       PROVE  WaitOK' /\ CleanOwn'
  <2>1. Cmd' = Cmd /\ pc' = pc /\ entry' = entry /\ clean' = clean BY <1>c, <1>12
  <2>2. WaitOK' BY <1>0, <2>1 DEF WaitOK
  <2>3. CleanOwn' BY <1>0, <1>12, <2>1 DEF CleanOwn
  <2> QED BY <2>2, <2>3
<1>13. CASE Unheard
  <2>1. toOnu # <<>> /\ toOnu' = Tail(toOnu) /\ toCard' = toCard /\ UNCHANGED <<main, entry, clean>>
    BY <1>13 DEF Unheard
  <2>2. \A i \in DOMAIN toOnu' : \E j \in DOMAIN toOnu : toOnu'[i] = toOnu[j] BY <1>0, <2>1, TailOf DEF Flow
  <2> QED BY <1>12, <2>1, <2>2
<1>14. CASE Lose
  <2>1. /\ UNCHANGED <<main, entry, clean>>
        /\ \/ toOnu # <<>> /\ toOnu' = Tail(toOnu) /\ toCard' = toCard
           \/ toCard # <<>> /\ toCard' = Tail(toCard) /\ toOnu' = toOnu
    BY <1>14 DEF Lose
  <2>2. \A i \in DOMAIN toOnu' : \E j \in DOMAIN toOnu : toOnu'[i] = toOnu[j] BY <1>0, <2>1, TailOf DEF Flow
  <2>3. \A k \in DOMAIN toCard' : \E j \in DOMAIN toCard : toCard'[k] = toCard[j] BY <1>0, <2>1, TailOf DEF Flow
  <2> QED BY <1>12, <2>1, <2>2, <2>3
<1>15. CASE SwitchOff BY <1>12, <1>15 DEF SwitchOff
<1>16. ASSUME NEW c \in Counters, Count(c) PROVE WaitOK' /\ CleanOwn' BY <1>12, <1>16 DEF Count
<1>17. CASE UNCHANGED vars BY <1>12, <1>17 DEF vars, history
<1> QED
  BY <1>1, <1>2, <1>3, <1>4, <1>5, <1>6, <1>7, <1>8, <1>10, <1>11, <1>13, <1>14, <1>15, <1>16, <1>17,
     <1>18
  DEF Next, Main, Fifo, Onu

\* Every variable of the main thread, the fibre and the ONU has its type: no
\* program runs past its last message, no sum or counter below zero.
THEOREM TypeCorrect == ASSUME OnuFifoAssumption PROVE Spec => []TypeOK
<1>1. Init => TInv BY InitTypes
<1>2. TInv /\ [Next]_vars => TInv' BY TypesStep
<1>3. TInv => TypeOK BY DEF TInv
<1> QED BY <1>1, <1>2, <1>3, PTL DEF Spec

\* send_fifomsg_waitrsp compares types only; still it takes the answer to its own
\* message, unless another message of that type was on the fibre when this one
\* was sent, or handle_fifomsg has sent one since.
THEOREM OwnAnswerHolds == ASSUME OnuFifoAssumption PROVE Spec => []OwnAnswer
<1>1. Init => AInv BY InitTypes DEF AInv
<1>2. AInv /\ [Next]_vars => AInv' BY TypesStep, OwnStep DEF AInv
<1>3. AInv => OwnAnswer BY DEF AInv, CleanOwn, OwnAnswer, IsOwn
<1> QED BY <1>1, <1>2, <1>3, PTL DEF Spec

----------------------------------------------------------------------------
(* Fields and what is on the way to them. *)

Sends(m, f, w) == f \in DOMAIN m.bits => m.bits[f] = w

\* When all messages q have been carried out, field f will be w, in spite of
\* those that may be lost: all that write it write w, and it is w already or
\* one of those that write it is sent only once.
Becomes(q, r, f, w) ==
  \/ r[f] = w /\ \A i \in DOMAIN q : Sends(q[i], f, w)
  \/ \E i \in DOMAIN q : /\ q[i].tag = "once" /\ f \in DOMAIN q[i].bits
                        /\ \A j \in DOMAIN q : j >= i => Sends(q[j], f, w)
Holds(f, w) == Becomes(toOnu, reg, f, w)

LEMMA BecomesAppend ==
  ASSUME NEW q \in Seq(Order), NEW x \in Order, NEW r, NEW f, NEW w, Sends(x, f, w), Becomes(q, r, f, w)
  PROVE  Becomes(Append(q, x), r, f, w)
<1> DEFINE s == Append(q, x)
<1>1. /\ s \in Seq(Order) /\ Len(q) \in Nat /\ s[Len(q) + 1] = x
      /\ \A i \in DOMAIN q : i \in Nat /\ i <= Len(q) /\ i \in DOMAIN s /\ s[i] = q[i]
      /\ \A i \in DOMAIN s : i \in DOMAIN q \/ i = Len(q) + 1
  BY AppendOf
<1> HIDE DEF s
<1>2. CASE r[f] = w /\ \A i \in DOMAIN q : Sends(q[i], f, w)
  <2>1. \A i \in DOMAIN s : Sends(s[i], f, w) BY <1>1, <1>2
  <2> QED BY <1>2, <2>1 DEF Becomes, s
<1>3. ASSUME NEW i \in DOMAIN q, q[i].tag = "once", f \in DOMAIN q[i].bits,
             \A j \in DOMAIN q : j >= i => Sends(q[j], f, w)
      PROVE  Becomes(s, r, f, w)
  <2>1. \A j \in DOMAIN s : j >= i => Sends(s[j], f, w) BY <1>1, <1>3
  <2>2. i \in DOMAIN s /\ s[i] = q[i] BY <1>1
  <2> QED BY <1>3, <2>1, <2>2 DEF Becomes
<1> QED BY <1>2, <1>3 DEF Becomes, s

LEMMA BecomesOnce ==
  ASSUME NEW q \in Seq(Order), NEW x \in Order, NEW r, NEW f, NEW w,
         x.tag = "once", f \in DOMAIN x.bits, x.bits[f] = w
  PROVE  Becomes(Append(q, x), r, f, w)
<1> DEFINE s == Append(q, x)
           l == Len(q) + 1
<1>1. /\ l \in DOMAIN s /\ s[l] = x /\ Len(q) \in Nat
      /\ \A j \in DOMAIN q : j \in Nat /\ j <= Len(q)
      /\ \A j \in DOMAIN s : j \in DOMAIN q \/ j = l
  BY AppendOf
<1>2. \A j \in DOMAIN s : j >= l => j = l BY <1>1
<1> HIDE DEF s, l
<1>3. \A j \in DOMAIN s : j >= l => Sends(s[j], f, w) BY <1>1, <1>2 DEF Sends
<1>4. Becomes(s, r, f, w) BY <1>1, <1>3 DEF Becomes
<1> QED BY <1>4 DEF s

LEMMA BecomesOld ==
  ASSUME NEW q \in Seq(Order), NEW r, NEW f, NEW w, Becomes(q, r, f, w)
  PROVE  Becomes(Old(q), r, f, w)
<1> DEFINE s == Old(q)
<1>1. /\ DOMAIN s = DOMAIN q
      /\ \A i \in DOMAIN q : s[i].bits = q[i].bits /\ (q[i].tag = "once" => s[i].tag = "once")
  BY OldOrders
<1> HIDE DEF s
<1>2. \A i \in DOMAIN q : Sends(q[i], f, w) => Sends(s[i], f, w) BY <1>1 DEF Sends
<1>3. Becomes(s, r, f, w) BY <1>1, <1>2 DEF Becomes
<1> QED BY <1>3 DEF s

LEMMA BecomesTail ==
  ASSUME NEW q \in Seq(Order), NEW r, NEW f, NEW w, q # <<>>, Head(q).tag # "once", Becomes(q, r, f, w)
  PROVE  Becomes(Tail(q), r, f, w)
<1> DEFINE s == Tail(q)
<1>1. /\ Head(q) = q[1]
      /\ \A i \in DOMAIN s : i \in Nat /\ i + 1 \in DOMAIN q /\ s[i] = q[i + 1]
      /\ \A i \in DOMAIN q : i # 1 => i - 1 \in DOMAIN s /\ s[i - 1] = q[i]
      /\ \A i \in DOMAIN q : i \in Nat
  BY TailOf
<1> HIDE DEF s
<1>2. CASE r[f] = w /\ \A i \in DOMAIN q : Sends(q[i], f, w)
  <2>1. \A i \in DOMAIN s : Sends(s[i], f, w) BY <1>1, <1>2
  <2>2. Becomes(s, r, f, w) BY <1>2, <2>1 DEF Becomes
  <2> QED BY <2>2 DEF s
<1>3. ASSUME NEW i \in DOMAIN q, q[i].tag = "once", f \in DOMAIN q[i].bits,
             \A j \in DOMAIN q : j >= i => Sends(q[j], f, w)
      PROVE  Becomes(s, r, f, w)
  <2>1. i # 1 BY <1>1, <1>3
  <2>2. i - 1 \in DOMAIN s /\ s[i - 1] = q[i] /\ i \in Nat BY <1>1, <2>1
  <2>3. \A j \in DOMAIN s : j >= i - 1 => Sends(s[j], f, w)
    <3> SUFFICES ASSUME NEW j \in DOMAIN s, j >= i - 1 PROVE Sends(s[j], f, w) OBVIOUS
    <3>1. j \in Nat /\ j + 1 \in DOMAIN q /\ s[j] = q[j + 1] BY <1>1
    <3>2. j + 1 >= i BY <2>2, <3>1
    <3> QED BY <1>3, <3>1, <3>2
  <2> QED BY <1>3, <2>2, <2>3 DEF Becomes
<1> QED BY <1>2, <1>3 DEF Becomes, s

\* The ONU carries out a message.
LEMMA BecomesDone ==
  ASSUME NEW q \in Seq(Order), NEW r, NEW t, NEW f, NEW w, q # <<>>, Becomes(q, r, f, w),
         t[f] = IF f \in DOMAIN Head(q).bits THEN Head(q).bits[f] ELSE r[f]
  PROVE  Becomes(Tail(q), t, f, w)
<1> DEFINE s == Tail(q)
<1>1. /\ 1 \in DOMAIN q /\ Head(q) = q[1]
      /\ \A i \in DOMAIN s : i \in Nat /\ i + 1 \in DOMAIN q /\ s[i] = q[i + 1]
      /\ \A i \in DOMAIN q : i # 1 => i - 1 \in DOMAIN s /\ s[i - 1] = q[i]
      /\ \A i \in DOMAIN q : i \in Nat /\ i >= 1
  BY TailOf
<1> HIDE DEF s
<1>2. ASSUME t[f] = w, \A i \in DOMAIN q : Sends(q[i], f, w)
      PROVE  Becomes(s, t, f, w)
  <2>1. \A i \in DOMAIN s : Sends(s[i], f, w) BY <1>1, <1>2
  <2> QED BY <1>2, <2>1 DEF Becomes
<1>3. CASE r[f] = w /\ \A i \in DOMAIN q : Sends(q[i], f, w)
  <2>1. Sends(q[1], f, w) BY <1>1, <1>3
  <2>2. t[f] = w BY <1>1, <1>3, <2>1 DEF Sends
  <2> QED BY <1>2, <1>3, <2>2 DEF s
<1>4. ASSUME NEW i \in DOMAIN q, q[i].tag = "once", f \in DOMAIN q[i].bits,
             \A j \in DOMAIN q : j >= i => Sends(q[j], f, w)
      PROVE  Becomes(s, t, f, w)
  <2>1. CASE i = 1
    <3>1. \A j \in DOMAIN q : Sends(q[j], f, w) BY <1>1, <1>4, <2>1
    <3>2. t[f] = w BY <1>1, <1>4, <2>1, <3>1 DEF Sends
    <3> QED BY <1>2, <3>1, <3>2
  <2>2. CASE i # 1
    <3>2. i - 1 \in DOMAIN s /\ s[i - 1] = q[i] /\ i \in Nat BY <1>1, <2>2
    <3>3. \A j \in DOMAIN s : j >= i - 1 => Sends(s[j], f, w)
      <4> SUFFICES ASSUME NEW j \in DOMAIN s, j >= i - 1 PROVE Sends(s[j], f, w) OBVIOUS
      <4>1. j \in Nat /\ j + 1 \in DOMAIN q /\ s[j] = q[j + 1] BY <1>1
      <4>2. j + 1 >= i BY <3>2, <4>1
      <4> QED BY <1>4, <4>1, <4>2
    <3> QED BY <1>4, <3>2, <3>3 DEF Becomes
  <2> QED BY <2>1, <2>2
<1> QED BY <1>3, <1>4 DEF Becomes, s

----------------------------------------------------------------------------
(* What an own answer says: the message has been carried out. *)

\* Messages and answers that are waited for.
OwnIs ==
  /\ \A i \in DOMAIN toOnu : IsOwn(toOnu[i]) => pc = "wait" /\ toOnu[i] = Request
  /\ \A k \in DOMAIN toCard : IsOwn(toCard[k]) => pc = "wait" /\ DOMAIN toCard[k].bits = Cmd.get
  /\ entry # None /\ IsOwn(entry) => DOMAIN entry.bits = Cmd.get

\* They are the last that were sent.
OwnLast == \A i, j \in DOMAIN toOnu : i < j /\ IsOwn(toOnu[i]) => IsOwn(toOnu[j])

Heard == (\E k \in DOMAIN toCard : IsOwn(toCard[k])) \/ (entry # None /\ IsOwn(entry))

\* The ONU has carried out the message, and nothing before it is on its way.
AllDone ==
  /\ \A i \in DOMAIN toOnu : IsOwn(toOnu[i])
  /\ Cmd.select # "none" => sel = Cmd.select
  /\ \A f \in Writes(Cmd) : reg[f] = Bits(Cmd)[f]
  /\ \A k \in DOMAIN toCard : IsOwn(toCard[k]) => \A f \in Cmd.get : toCard[k].bits[f] = reg[f]
  /\ entry # None /\ IsOwn(entry) => \A f \in Cmd.get : entry.bits[f] = reg[f]
Echo == OwnLast /\ (Heard => AllDone)

EInv == AInv /\ OwnIs /\ (tainted \/ Echo)

NoOwn == /\ \A i \in DOMAIN toOnu : ~IsOwn(toOnu[i])
         /\ \A k \in DOMAIN toCard : ~IsOwn(toCard[k])
         /\ entry = None

LEMMA NoOwnNext == NoOwn' => OwnIs' /\ Echo' /\ ~Heard'
  BY DEF NoOwn, OwnIs, Echo, OwnLast, Heard
LEMMA NoOwnNow == ASSUME AInv, OwnIs, pc # "wait" PROVE NoOwn
  BY DEF NoOwn, OwnIs, AInv, WaitOK

LEMMA OldNoOwn ==
  ASSUME TInv, toOnu' = Old(toOnu), toCard' = Old(toCard), entry' = None
  PROVE  NoOwn'
<1>1. \A i \in DOMAIN toOnu' : toOnu'[i].tag # "own" BY OldOrders DEF TInv, Flow
<1>2. \A k \in DOMAIN toCard' : toCard'[k].tag # "own" BY OldReplies DEF TInv, Flow
<1> QED BY <1>1, <1>2 DEF NoOwn, IsOwn

LEMMA SameRequest ==
  ASSUME UNCHANGED <<pc, code, value, n, got>>
  PROVE  /\ Cmd' = Cmd /\ pc' = pc /\ Request' = Request /\ Bits(Cmd)' = Bits(Cmd)
  BY DEF Cmd, Request, Bits

\* Nothing is sent, and nothing changes but that some of it is lost.
LEMMA EchoFewer ==
  ASSUME EInv, UNCHANGED <<pc, code, value, n, got, entry, reg, sel>>,
         toOnu' = toOnu \/ (toOnu # <<>> /\ toOnu' = Tail(toOnu)),
         toCard' = toCard \/ (toCard # <<>> /\ toCard' = Tail(toCard))
  PROVE  OwnIs' /\ (Echo => Echo')
<1>0. Flow BY DEF EInv, AInv, TInv
<1>1. /\ Cmd' = Cmd /\ pc' = pc /\ Request' = Request /\ Bits(Cmd)' = Bits(Cmd) BY SameRequest
<1>2. \A i \in DOMAIN toOnu' : \E j \in DOMAIN toOnu : toOnu'[i] = toOnu[j] BY <1>0, TailOf DEF Flow
<1>3. \A k \in DOMAIN toCard' : \E j \in DOMAIN toCard : toCard'[k] = toCard[j] BY <1>0, TailOf DEF Flow
<1>4. OwnIs' BY <1>1, <1>2, <1>3 DEF OwnIs, EInv
<1>5. ASSUME OwnLast PROVE OwnLast'
  <2>1. CASE toOnu' = toOnu BY <1>5, <2>1 DEF OwnLast
  <2>2. CASE toOnu # <<>> /\ toOnu' = Tail(toOnu)
    <3>1. \A i \in DOMAIN toOnu' : i \in Nat /\ i + 1 \in DOMAIN toOnu /\ toOnu'[i] = toOnu[i + 1]
      BY <1>0, <2>2, TailOf DEF Flow
    <3> SUFFICES ASSUME NEW i \in DOMAIN toOnu', NEW j \in DOMAIN toOnu', i < j, IsOwn(toOnu'[i])
                 PROVE  IsOwn(toOnu'[j])
      BY DEF OwnLast, IsOwn
    <3>2. i + 1 < j + 1 BY <3>1
    <3> QED BY <1>5, <3>1, <3>2 DEF OwnLast
  <2> QED BY <2>1, <2>2
<1>6. ASSUME Heard', Heard => AllDone PROVE AllDone'
  <2>1. Heard BY <1>3, <1>6 DEF Heard
  <2>2. AllDone BY <1>6, <2>1
  <2> QED BY <1>1, <1>2, <1>3, <2>2 DEF AllDone
<1> QED BY <1>4, <1>5, <1>6 DEF Echo

\* The device takes the message waited for, again or for the first time.
LEMMA EchoSent ==
  ASSUME EInv, TypeOK, pc = "wait", Cmd.wait, toOnu' = Append(toOnu, Request),
         UNCHANGED <<toCard, entry, pc, code, value, n, got, reg, sel>>
  PROVE  OwnIs' /\ (Echo => Echo')
<1>0. Flow BY DEF EInv, AInv, TInv
<1>1. /\ Cmd' = Cmd /\ pc' = pc /\ Request' = Request /\ Bits(Cmd)' = Bits(Cmd) BY SameRequest
<1>2. Request \in Order /\ IsOwn(Request) BY RequestIs DEF IsOwn
<1> DEFINE l == Len(toOnu) + 1
<1>3. /\ toOnu'[l] = Request /\ Len(toOnu) \in Nat
      /\ \A i \in DOMAIN toOnu : i \in Nat /\ i <= Len(toOnu) /\ toOnu'[i] = toOnu[i]
      /\ \A i \in DOMAIN toOnu' : i \in DOMAIN toOnu \/ i = l
  BY <1>0, <1>2, AppendOf DEF Flow
<1>4. \A i \in DOMAIN toOnu' :
        \/ toOnu'[i] = Request
        \/ i \in DOMAIN toOnu /\ i < l /\ toOnu'[i] = toOnu[i]
  BY <1>3
<1> HIDE DEF l
<1>5. OwnIs' BY <1>1, <1>4 DEF OwnIs, EInv
<1>6. ASSUME OwnLast PROVE OwnLast'
  <2> SUFFICES ASSUME NEW i \in DOMAIN toOnu', NEW j \in DOMAIN toOnu', i < j, IsOwn(toOnu'[i])
               PROVE  IsOwn(toOnu'[j])
    BY DEF OwnLast, IsOwn
  <2>1. CASE toOnu'[j] = Request BY <1>2, <2>1
  <2>2. CASE j \in DOMAIN toOnu /\ j < l /\ toOnu'[j] = toOnu[j]
    <3>1. i \in DOMAIN toOnu /\ toOnu'[i] = toOnu[i]
      <4>1. i # l BY <1>3, <2>2 DEF l
      <4> QED BY <1>3, <4>1 DEF l
    <3> QED BY <1>6, <2>2, <3>1 DEF OwnLast
  <2> QED BY <1>4, <2>1, <2>2
<1>7. ASSUME Heard', Heard => AllDone PROVE AllDone'
  <2>1. Heard BY <1>7 DEF Heard
  <2>2. AllDone BY <1>7, <2>1
  <2> QED BY <1>1, <1>2, <1>4, <2>2 DEF AllDone
<1> QED BY <1>5, <1>6, <1>7 DEF Echo

LEMMA EchoDelivered == ASSUME EInv, Deliver PROVE OwnIs' /\ (Echo => Echo')
<1>0. Flow /\ WaitOK BY DEF EInv, AInv, TInv
<1>1. /\ toCard # <<>> /\ toCard' = Tail(toCard) /\ UNCHANGED main /\ UNCHANGED <<toOnu, onu>>
      /\ entry' = entry \/ (pc = "wait" /\ entry = None /\ entry' = Head(toCard))
  BY DEF Deliver
<1>2. /\ Cmd' = Cmd /\ pc' = pc /\ Request' = Request /\ Bits(Cmd)' = Bits(Cmd) BY <1>1, SameRequest DEF main
<1>3. /\ 1 \in DOMAIN toCard /\ Head(toCard) = toCard[1]
      /\ \A k \in DOMAIN toCard' : \E j \in DOMAIN toCard : toCard'[k] = toCard[j]
  BY <1>0, <1>1, TailOf DEF Flow
<1>4. OwnIs' BY <1>1, <1>2, <1>3 DEF OwnIs, EInv
<1>5. ASSUME OwnLast PROVE OwnLast' BY <1>1, <1>5 DEF OwnLast
<1>6. ASSUME Heard', Heard => AllDone PROVE AllDone'
  <2>1. Heard BY <1>1, <1>3, <1>6 DEF Heard
  <2>2. AllDone BY <1>6, <2>1
  <2>3. reg' = reg /\ sel' = sel BY <1>1 DEF onu
  <2> QED BY <1>1, <1>2, <1>3, <2>2, <2>3 DEF AllDone
<1> QED BY <1>4, <1>5, <1>6 DEF Echo

LEMMA EchoAnswered == ASSUME EInv, Answer PROVE OwnIs' /\ (Echo => Echo')
<1> DEFINE m == Head(toOnu)
<1>0. Flow /\ WaitOK /\ TypeOK /\ TInv BY DEF EInv, AInv, TInv
<1>1. /\ toOnu # <<>> /\ m \in Order /\ toOnu' = Tail(toOnu)
      /\ reg' = [f \in Fields |-> IF f \in DOMAIN m.bits THEN m.bits[f] ELSE reg[f]]
      /\ sel' = IF m.select = "none" THEN sel ELSE m.select
      /\ \E c \in Nat, v \in BOOLEAN : toCard' = Append(toCard, AnswerOf(m, c, v))
      /\ UNCHANGED main /\ entry' = entry
  BY <1>0, AnswerDoes
<1>2. /\ Cmd' = Cmd /\ pc' = pc /\ Request' = Request /\ Bits(Cmd)' = Bits(Cmd) BY <1>1, SameRequest DEF main
<1>3. PICK c \in Nat, v \in BOOLEAN : toCard' = Append(toCard, AnswerOf(m, c, v)) BY <1>1
<1>4. /\ 1 \in DOMAIN toOnu /\ m = toOnu[1]
      /\ \A i \in DOMAIN toOnu' : i \in Nat /\ i + 1 \in DOMAIN toOnu /\ toOnu'[i] = toOnu[i + 1]
      /\ \A i \in DOMAIN toOnu : i \in Nat /\ i >= 1
  BY <1>0, <1>1, TailOf DEF Flow
<1> DEFINE x == AnswerOf(m, c, v)
<1> HIDE DEF m
<1>a. TypeOK /\ m \in Order /\ c \in Nat /\ v \in BOOLEAN BY <1>0, <1>1
<1>5. x \in Reply /\ x.tag = m.tag /\ x.bits = [f \in m.get |-> reg[f]] BY ONLY <1>a, AnswerIs
<1> HIDE DEF x
<1>6. \A k \in DOMAIN toCard' : toCard'[k] = x \/ (k \in DOMAIN toCard /\ toCard'[k] = toCard[k])
  BY <1>0, <1>3, <1>5, AppendOf DEF Flow, x
<1>7. IsOwn(m) => /\ pc = "wait" /\ m = Request /\ m.get = Cmd.get /\ m.bits = Bits(Cmd) /\ m.select = Cmd.select
                  /\ DOMAIN Bits(Cmd) = Writes(Cmd) /\ Writes(Cmd) \in SUBSET Fields /\ Fits(Cmd)
                  /\ Cmd.get \in SUBSET Fields
  <2> HAVE IsOwn(m)
  <2>1. pc = "wait" /\ m = Request BY <1>4 DEF EInv, OwnIs
  <2>2. m.get = Cmd.get /\ m.bits = Bits(Cmd) /\ m.select = Cmd.select BY <1>0, <2>1, RequestIs
  <2>3. Cmd \in Message /\ Fits(Cmd) BY <1>0, <2>1, CmdIs
  <2>4. Bits(Cmd) \in Settings /\ DOMAIN Bits(Cmd) = Writes(Cmd) BY <1>0, <2>3, BitsIs
  <2>5. Writes(Cmd) \in SUBSET Fields BY <2>4, SettingIs
  <2>6. Cmd.get \in SUBSET Fields BY <2>3 DEF Message
  <2> QED BY <2>1, <2>2, <2>3, <2>4, <2>5, <2>6
<1>8. OwnIs'
  <2>1. \A i \in DOMAIN toOnu' : IsOwn(toOnu'[i]) => pc' = "wait" /\ toOnu'[i] = Request'
    BY <1>2, <1>4 DEF OwnIs, EInv
  <2>2. IsOwn(x) => pc' = "wait" /\ DOMAIN x.bits = Cmd'.get BY <1>2, <1>5, <1>7 DEF IsOwn
  <2>3. \A k \in DOMAIN toCard' : IsOwn(toCard'[k]) => pc' = "wait" /\ DOMAIN toCard'[k].bits = Cmd'.get
    BY <1>2, <1>6, <2>2 DEF OwnIs, EInv
  <2>4. entry' # None /\ IsOwn(entry') => DOMAIN entry'.bits = Cmd'.get BY <1>1, <1>2 DEF OwnIs, EInv
  <2> QED BY <2>1, <2>3, <2>4 DEF OwnIs, IsOwn
<1>9. ASSUME OwnLast PROVE OwnLast'
  <2> SUFFICES ASSUME NEW i \in DOMAIN toOnu', NEW j \in DOMAIN toOnu', i < j, IsOwn(toOnu'[i])
               PROVE  IsOwn(toOnu'[j])
    BY DEF OwnLast, IsOwn
  <2>2. i + 1 < j + 1 BY <1>4
  <2> QED BY <1>4, <1>9, <2>2 DEF OwnLast
<1>10. ASSUME OwnLast, Heard', Heard => AllDone PROVE AllDone'
  <2>1. Heard \/ IsOwn(m) BY <1>1, <1>5, <1>6, <1>10 DEF Heard, IsOwn
  <2>2. IsOwn(m)
    <3>1. CASE Heard BY <1>4, <1>10, <3>1 DEF AllDone
    <3> QED BY <2>1, <3>1
  <2>3. \A i \in DOMAIN toOnu' : IsOwn(toOnu'[i])
    <3> SUFFICES ASSUME NEW i \in DOMAIN toOnu' PROVE IsOwn(toOnu'[i]) OBVIOUS
    <3>1. i + 1 \in DOMAIN toOnu /\ toOnu'[i] = toOnu[i + 1] BY <1>4
    <3>2. 1 = i + 1 \/ 1 < i + 1 BY <3>1, <1>4
    <3> QED BY <1>4, <1>10, <2>2, <3>1, <3>2 DEF OwnLast
  <2>4. Cmd.select # "none" => sel' = Cmd.select BY <1>1, <1>7, <2>2
  <2>5. \A f \in Writes(Cmd) : reg'[f] = Bits(Cmd)[f] BY <1>1, <1>7, <2>2
  <2>6. \A f \in Cmd.get : reg'[f] = reg[f] BY <1>1, <1>7, <2>2 DEF Fits
  <2>7. \A f \in Cmd.get : x.bits[f] = reg'[f] BY <1>5, <1>7, <2>2, <2>6
  <2>8. (\E k \in DOMAIN toCard : IsOwn(toCard[k])) \/ (entry # None /\ IsOwn(entry)) =>
           /\ \A k \in DOMAIN toCard : IsOwn(toCard[k]) => \A f \in Cmd.get : toCard[k].bits[f] = reg[f]
           /\ entry # None /\ IsOwn(entry) => \A f \in Cmd.get : entry.bits[f] = reg[f]
    BY <1>10 DEF Heard, AllDone
  <2>9. \A k \in DOMAIN toCard' : IsOwn(toCard'[k]) => \A f \in Cmd.get : toCard'[k].bits[f] = reg'[f]
    BY <1>6, <2>6, <2>7, <2>8
  <2>10. entry' # None /\ IsOwn(entry') => \A f \in Cmd.get : entry'.bits[f] = reg'[f] BY <1>1, <2>6, <2>8
  <2> QED BY <1>2, <2>3, <2>4, <2>5, <2>9, <2>10 DEF AllDone, IsOwn
<1> QED BY <1>8, <1>9, <1>10 DEF Echo

\* A message is sent that nobody waits for, or none: no own message is about.
LEMMA EchoIdle ==
  ASSUME EInv, pc # "wait", entry' = entry,
         \A i \in DOMAIN toOnu' : ~IsOwn(toOnu'[i]) \/ (i \in DOMAIN toOnu /\ toOnu'[i] = toOnu[i]),
         \A k \in DOMAIN toCard' : ~IsOwn(toCard'[k]) \/ \E j \in DOMAIN toCard : toCard'[k] = toCard[j]
  PROVE  OwnIs' /\ Echo' /\ NoOwn'
<1>1. NoOwn BY NoOwnNow DEF EInv
<1>2. NoOwn' BY <1>1 DEF NoOwn, IsOwn
<1> QED BY <1>2, NoOwnNext

LEMMA TaintStays == ASSUME [Next]_vars, ~tainted', EInv PROVE ~tainted /\ Echo
<1>1. ~tainted
  <2>1. CASE UNCHANGED vars BY <2>1 DEF vars, history
  <2>2. ASSUME NEW v \in Bit, Call(v) PROVE ~tainted BY <2>2 DEF Call
  <2>3. CASE Send BY <2>3 DEF Send
  <2>4. CASE Take BY <2>4 DEF Take
  <2>5. CASE Timeout BY <2>5 DEF Timeout
  <2>6. ASSUME NEW ok \in BOOLEAN, Store(ok) PROVE ~tainted BY <2>6 DEF Store
  <2>7. CASE Deliver BY <2>7 DEF Deliver, history
  <2>8. CASE Restore BY <2>8 DEF Restore
  <2>9. CASE Answer BY <2>9 DEF Answer, history
  <2>10. CASE Reset BY <2>10 DEF Reset, Boot
  <2>11. CASE Unheard BY <2>11 DEF Unheard
  <2>12. CASE SwitchOn BY <2>12 DEF SwitchOn, Boot
  <2>13. CASE SwitchOff BY <2>13 DEF SwitchOff
  <2>14. CASE Lose BY <2>14 DEF Lose
  <2>15. ASSUME NEW c \in Counters, Count(c) PROVE ~tainted BY <2>15 DEF Count
  <2>16. CASE WriteFifo BY <2>16 DEF WriteFifo, history
  <2> QED
    BY <2>1, <2>2, <2>3, <2>4, <2>5, <2>6, <2>7, <2>8, <2>9, <2>10, <2>11, <2>12, <2>13, <2>14, <2>15,
       <2>16
    DEF Next, Main, Fifo, Onu
<1> QED BY <1>1 DEF EInv

\* The ONU starts: nothing was on the fibre, or this was not expected.
LEMMA EchoBoot ==
  ASSUME EInv, NEW pending \in BOOLEAN, Boot(pending), UNCHANGED <<main, entry>>,
         toOnu' = toOnu \/ (toOnu # <<>> /\ toOnu' = Tail(toOnu))
  PROVE  OwnIs' /\ (tainted' \/ Echo')
<1>0. Flow /\ WaitOK BY DEF EInv, AInv, TInv
<1>1. /\ Cmd' = Cmd /\ pc' = pc /\ Request' = Request /\ entry' = entry BY SameRequest DEF main
<1>2. \A i \in DOMAIN toOnu' : \E j \in DOMAIN toOnu : toOnu'[i] = toOnu[j] BY <1>0, TailOf DEF Flow
<1>3. \A k \in DOMAIN toCard' : ~IsOwn(toCard'[k]) \/ (k \in DOMAIN toCard /\ toCard'[k] = toCard[k])
  BY <1>0, UpIs, AppendOf DEF Flow, Boot, IsOwn
<1>4. OwnIs' BY <1>1, <1>2, <1>3 DEF OwnIs, EInv, IsOwn
<1>5. CASE pc # "wait"
  <2>1. NoOwn BY <1>5, NoOwnNow DEF EInv
  <2>2. NoOwn' BY <1>1, <1>2, <1>3, <2>1 DEF NoOwn, IsOwn
  <2> QED BY <1>4, <2>2, NoOwnNext
<1>6. CASE pc = "wait"
  <2>1. tainted' BY <1>6 DEF Boot
  <2> QED BY <1>4, <2>1
<1> QED BY <1>5, <1>6

LEMMA EchoRestored == ASSUME EInv, Restore PROVE OwnIs' /\ (tainted' \/ Echo')
<1>0. Flow /\ WaitOK /\ TypeOK /\ TInv BY DEF EInv, AInv, TInv
<1>1. /\ toCard # <<>> /\ toCard' = Tail(toCard) /\ UNCHANGED main /\ entry' = entry
      /\ tainted' = (tainted \/ pc # "idle")
  BY DEF Restore
<1>2. /\ Cmd' = Cmd /\ pc' = pc /\ Request' = Request BY <1>1, SameRequest DEF main
<1>3. \A i \in DOMAIN toOnu' : ~IsOwn(toOnu'[i]) \/ (i \in DOMAIN toOnu /\ toOnu'[i] = toOnu[i])
  BY <1>0, RestoreDoes, StoredIs DEF IsOwn
<1>4. \A k \in DOMAIN toCard' : \E j \in DOMAIN toCard : toCard'[k] = toCard[j] BY <1>0, <1>1, TailOf DEF Flow
<1>5. OwnIs' BY <1>1, <1>2, <1>3, <1>4 DEF OwnIs, EInv, IsOwn
<1>6. CASE pc # "wait" BY <1>1, <1>3, <1>4, <1>6, EchoIdle
<1>7. CASE pc = "wait" BY <1>1, <1>5, <1>7
<1> QED BY <1>6, <1>7

LEMMA EchoStep == ASSUME OnuFifoAssumption, EInv, [Next]_vars PROVE OwnIs' /\ (tainted' \/ Echo')
<1>0. /\ TypeOK /\ Flow /\ WaitOK /\ CleanOwn /\ TInv /\ AInv
      /\ ~tainted' => Echo
  BY TaintStays DEF EInv, AInv, TInv
<1>1. ASSUME NEW v \in Bit, Call(v) PROVE OwnIs' /\ Echo'
  <2>1. pc # "wait" /\ entry' = entry /\ toOnu' = toOnu /\ toCard' = toCard BY <1>1 DEF Call
  <2> QED BY <2>1, EchoIdle
<1>2. CASE Send
  <2>1. pc = "send" /\ entry' = None /\ toCard' = toCard BY <1>2 DEF Send
  <2>2. entry = None BY <1>0, <2>1 DEF WaitOK
  <2>3. toOnu' = toOnu \/ (~Cmd.wait /\ toOnu' = Append(toOnu, Request))
    BY <1>2 DEF Send
  <2>4. CASE toOnu' = toOnu BY <2>1, <2>2, <2>4, EchoIdle
  <2>5. CASE ~Cmd.wait /\ toOnu' = Append(toOnu, Request)
    <3>1. Request \in Order /\ ~IsOwn(Request) BY <1>0, <2>1, <2>5, RequestIs DEF IsOwn
    <3>2. \A i \in DOMAIN toOnu' : ~IsOwn(toOnu'[i]) \/ (i \in DOMAIN toOnu /\ toOnu'[i] = toOnu[i])
      BY <1>0, <2>5, <3>1, AppendOf DEF Flow
    <3> QED BY <2>1, <2>2, <3>2, EchoIdle
  <2> QED BY <2>3, <2>4, <2>5
<1>3. CASE Take
  <2>1. entry' = None /\ toOnu' = Old(toOnu) /\ toCard' = Old(toCard) BY <1>3 DEF Take
  <2> QED BY <1>0, <2>1, OldNoOwn, NoOwnNext
<1>4. CASE Timeout
  <2>1. pc = "wait" /\ entry' = None /\ entry' = entry /\ UNCHANGED onu BY <1>4 DEF Timeout
  <2>2. CASE tries < MaxRetry - 1
    <3>1. UNCHANGED <<pc, code, value, n, got, toOnu, toCard, reg, sel>>
      BY <1>4, <2>1, <2>2 DEF Timeout, onu
    <3> QED BY <1>0, <2>1, <3>1, EchoFewer
  <2>3. CASE ~(tries < MaxRetry - 1)
    <3>1. toOnu' = Old(toOnu) /\ toCard' = Old(toCard) BY <1>4, <2>3 DEF Timeout
    <3> QED BY <1>0, <2>1, <3>1, OldNoOwn, NoOwnNext
  <2> QED BY <2>2, <2>3
<1>5. ASSUME NEW ok \in BOOLEAN, Store(ok) PROVE OwnIs' /\ Echo'
  <2>1. pc # "wait" /\ entry' = entry /\ toOnu' = toOnu /\ toCard' = toCard BY <1>5 DEF Store
  <2> QED BY <2>1, EchoIdle
<1>6. CASE Deliver BY <1>0, <1>6, EchoDelivered
<1>7. CASE Restore BY <1>7, EchoRestored
<1>8. CASE Answer BY <1>0, <1>8, EchoAnswered
<1>9. CASE Reset
  <2>1. toOnu # <<>> /\ toOnu' = Tail(toOnu) /\ UNCHANGED <<main, entry>> BY <1>9 DEF Reset
  <2>2. PICK pending \in BOOLEAN : Boot(pending) BY <1>9 DEF Reset
  <2> QED BY <2>1, <2>2, EchoBoot
<1>10. CASE SwitchOn
  <2>1. toOnu' = toOnu /\ UNCHANGED <<main, entry>> BY <1>10 DEF SwitchOn
  <2>2. PICK pending \in BOOLEAN : Boot(pending) BY <1>10 DEF SwitchOn
  <2> QED BY <2>1, <2>2, EchoBoot
<1>11. CASE Unheard BY <1>0, <1>11, EchoFewer DEF Unheard, onu, main
<1>12. CASE Lose BY <1>0, <1>12, EchoFewer DEF Lose, onu, main
<1>13. CASE SwitchOff BY <1>0, <1>13, EchoFewer DEF SwitchOff, main
<1>14. ASSUME NEW c \in Counters, Count(c) PROVE OwnIs' /\ (tainted' \/ Echo')
  BY <1>0, <1>14, EchoFewer DEF Count, main
<1>15. CASE UNCHANGED vars BY <1>0, <1>15, EchoFewer DEF vars, onu, main
<1>16. CASE WriteFifo
  <2>1. /\ pc = "wait" /\ toOnu' = Append(toOnu, Request)
        /\ UNCHANGED <<toCard, entry, pc, code, value, n, got, reg, sel>>
    BY <1>16 DEF WriteFifo, onu
  <2>2. Cmd.wait BY <1>0, <2>1 DEF WaitOK
  <2> QED BY <1>0, <2>1, <2>2, EchoSent
<1> QED
  BY <1>1, <1>2, <1>3, <1>4, <1>5, <1>6, <1>7, <1>8, <1>9, <1>10, <1>11, <1>12, <1>13, <1>14, <1>15,
     <1>16
  DEF Next, Main, Fifo, Onu

----------------------------------------------------------------------------
(* Counters. *)

Even    == /\ perf.rx + cnt.rxlo + cnt.rxhi = total.rx
           /\ perf.tx + cnt.txlo + cnt.txhi = total.tx
\* The ONU has cleared a counter that is not yet in the sums.
Plus(x) == /\ perf.rx + cnt.rxlo + cnt.rxhi + (IF Cmd.sum = "rx" THEN x ELSE 0) = total.rx
           /\ perf.tx + cnt.txlo + cnt.txhi + (IF Cmd.sum = "tx" THEN x ELSE 0) = total.tx

Reading == pc = "wait" /\ Cmd.sum # "none"

\* A counter is read by one message at a time.
OneCount ==
  /\ \A i \in DOMAIN toOnu : toOnu[i].count => IsOwn(toOnu[i])
  /\ Reading =>
       /\ \A i, j \in DOMAIN toOnu : IsOwn(toOnu[i]) /\ IsOwn(toOnu[j]) => i = j
       /\ \A k, l \in DOMAIN toCard : IsOwn(toCard[k]) /\ IsOwn(toCard[l]) => k = l
       /\ Heard => \A i \in DOMAIN toOnu : ~IsOwn(toOnu[i])
       /\ entry # None /\ IsOwn(entry) => \A k \in DOMAIN toCard : ~IsOwn(toCard[k])
InFlight(x) == \/ \E k \in DOMAIN toCard : IsOwn(toCard[k]) /\ toCard[k].count = x
               \/ entry # None /\ IsOwn(entry) /\ entry.count = x
Counted ==
  IF Reading
  THEN /\ (\E i \in DOMAIN toOnu : IsOwn(toOnu[i])) => Even
       /\ \A x \in Nat : InFlight(x) => Plus(x)
  ELSE Even
\* The counter that will be read is the one that was selected.
Selected ==
  pc \in {"send", "wait"} /\ Cmd.sum # "none" =>
    /\ n - 1 \in DOMAIN Program(code, value) /\ Goes(Program(code, value), n - 1) /\ sel = Program(code, value)[n - 1].select
    /\ \A i \in DOMAIN toOnu : toOnu[i].select \in {"none", sel}
\* Until the device takes the message that reads a counter, nothing of it is about.
NoneSent == (\A i \in DOMAIN toOnu : ~IsOwn(toOnu[i])) /\ ~Heard
Unsent   == Reading /\ ~sent => Even /\ NoneSent
Sums == OneCount /\ Counted /\ Selected /\ Unsent

NoCount == \A i \in DOMAIN toOnu : ~toOnu[i].count

LEMMA SumsIdle == ASSUME Even', NoOwn', NoCount', Selected' PROVE Sums'
<1>1. ~Heard' BY NoOwnNext
<1>2. OneCount' BY <1>1 DEF OneCount, NoOwn, NoCount
<1>3. Counted' BY DEF Counted, NoOwn, InFlight
<1>4. Unsent' BY <1>1 DEF Unsent, NoneSent, NoOwn
<1> QED BY <1>2, <1>3, <1>4 DEF Sums

LEMMA UnsentStays ==
  ASSUME Unsent, sent' = sent, Reading' => Reading, Even => Even', Heard' => Heard,
         \A i \in DOMAIN toOnu' : \E j \in DOMAIN toOnu : toOnu'[i] = toOnu[j]
  PROVE  Unsent'
<1>1. NoneSent => NoneSent' BY DEF NoneSent, IsOwn
<1> QED BY <1>1, Zenon DEF Unsent

LEMMA NoCountNow == ASSUME EInv, Sums, pc # "wait" PROVE NoCount /\ Even
<1>1. NoOwn BY NoOwnNow DEF EInv
<1> QED BY <1>1 DEF Sums, OneCount, Counted, NoCount, NoOwn, Reading

\* A message of the program that reads no counter.
LEMMA OwnCounts ==
  ASSUME EInv, pc = "wait", NEW i \in DOMAIN toOnu, IsOwn(toOnu[i])
  PROVE  toOnu[i].count = (Cmd.sum # "none") /\ toOnu[i].select = Cmd.select
<1>1. toOnu[i] = Request BY DEF EInv, OwnIs
<1>2. TypeOK BY DEF EInv, AInv, TInv
<1> QED BY <1>1, <1>2, RequestIs

LEMMA SumsFewer ==
  ASSUME EInv, Sums, UNCHANGED <<main, entry, sel>>,
         toOnu' = toOnu \/ (toOnu # <<>> /\ toOnu' = Tail(toOnu)),
         toCard' = toCard \/ (toCard # <<>> /\ toCard' = Tail(toCard)),
         Even => Even', \A x \in Nat : Plus(x) => Plus(x)'
  PROVE  Sums'
<1>0. Flow BY DEF EInv, AInv, TInv
<1>1. /\ Cmd' = Cmd /\ pc' = pc /\ code' = code /\ value' = value /\ n' = n /\ entry' = entry /\ sel' = sel
      /\ sent' = sent
  BY SameRequest DEF main
<1>2. PICK d \in 0..1 : \A i \in DOMAIN toOnu' : i \in Nat /\ i + d \in DOMAIN toOnu /\ toOnu'[i] = toOnu[i + d]
  <2>1. CASE toOnu' = toOnu
    <3>1. \A i \in DOMAIN toOnu' : i \in Nat /\ i + 0 = i BY <1>0, <2>1 DEF Flow
    <3> QED BY <2>1, <3>1
  <2>2. CASE toOnu # <<>> /\ toOnu' = Tail(toOnu) BY <1>0, <2>2, TailOf DEF Flow
  <2> QED BY <2>1, <2>2
<1>3. PICK e \in 0..1 :
        \A k \in DOMAIN toCard' : k \in Nat /\ k + e \in DOMAIN toCard /\ toCard'[k] = toCard[k + e]
  <2>1. CASE toCard' = toCard
    <3>1. \A i \in DOMAIN toCard' : i \in Nat /\ i + 0 = i BY <1>0, <2>1 DEF Flow
    <3> QED BY <2>1, <3>1
  <2>2. CASE toCard # <<>> /\ toCard' = Tail(toCard) BY <1>0, <2>2, TailOf DEF Flow
  <2> QED BY <2>1, <2>2
<1>4. Heard' => Heard BY <1>1, <1>3 DEF Heard
<1>5. Reading' => Reading BY <1>1 DEF Reading
<1>6. OneCount'
  <2>0. OneCount BY DEF Sums
  <2>1. \A i \in DOMAIN toOnu' : toOnu'[i].count => IsOwn(toOnu'[i]) BY <1>2, <2>0 DEF OneCount
  <2>2. ASSUME Reading', NEW i \in DOMAIN toOnu', NEW j \in DOMAIN toOnu', IsOwn(toOnu'[i]), IsOwn(toOnu'[j])
        PROVE  i = j
    <3>1. i + d = j + d BY <1>2, <1>5, <2>0, <2>2 DEF OneCount
    <3>2. i \in Nat /\ j \in Nat /\ d \in Nat BY <1>2
    <3> QED BY <3>1, <3>2
  <2>3. ASSUME Reading', NEW i \in DOMAIN toCard', NEW j \in DOMAIN toCard', IsOwn(toCard'[i]), IsOwn(toCard'[j])
        PROVE  i = j
    <3>1. i + e = j + e BY <1>3, <1>5, <2>0, <2>3 DEF OneCount
    <3>2. i \in Nat /\ j \in Nat /\ e \in Nat BY <1>3
    <3> QED BY <3>1, <3>2
  <2>4. Reading' /\ Heard' => \A i \in DOMAIN toOnu' : ~IsOwn(toOnu'[i]) BY <1>2, <1>4, <1>5, <2>0 DEF OneCount
  <2>5. Reading' /\ entry' # None /\ IsOwn(entry') => \A k \in DOMAIN toCard' : ~IsOwn(toCard'[k])
    BY <1>1, <1>3, <1>5, <2>0 DEF OneCount
  <2> QED BY <2>1, <2>2, <2>3, <2>4, <2>5 DEF OneCount, IsOwn
<1>7. Counted'
  <2>0. Counted BY DEF Sums
  <2>1. CASE Reading
    <3>1. (\E i \in DOMAIN toOnu' : IsOwn(toOnu'[i])) => Even' BY <1>2, <2>0, <2>1 DEF Counted
    <3>2. ASSUME NEW x \in Nat, InFlight(x)' PROVE Plus(x)'
      <4>1. InFlight(x) BY <1>1, <1>3, <3>2 DEF InFlight
      <4>2. Plus(x) BY <2>0, <2>1, <4>1 DEF Counted
      <4> QED BY <4>2
    <3>4. Reading' BY <1>1, <2>1 DEF Reading
    <3> QED BY <3>1, <3>2, <3>4 DEF Counted, IsOwn
  <2>2. CASE ~Reading
    <3>1. ~Reading' BY <1>1, <2>2 DEF Reading
    <3> QED BY <2>0, <2>2, <3>1 DEF Counted
  <2> QED BY <2>1, <2>2
<1>8. Selected' BY <1>1, <1>2 DEF Selected, Sums
<1>9. Unsent' BY <1>1, <1>2, <1>4, <1>5, UnsentStays DEF Sums
<1> QED BY <1>6, <1>7, <1>8, <1>9 DEF Sums

\* The next message.
LEMMA AdvanceTo ==
  ASSUME TypeOK, pc # "idle", Advance, pc' = "send"
  PROVE  /\ code' = code /\ n' = n + 1 /\ value' = value /\ wanted' = wanted /\ spoilt' = spoilt
         /\ n \in DOMAIN Program(code, value) /\ n + 1 \in DOMAIN Program(code, value) /\ n \in Nat
         /\ Goes(Program(code, value), n) /\ Cmd' = Program(code, value)[n + 1]
<1>1. /\ n < Len(Program(code, value)) /\ n' = n + 1 /\ code' = code /\ value' = value /\ wanted' = wanted
      /\ spoilt' = spoilt
  BY DEF Advance, Done
<1>2. Sound(Program(code, value)) /\ n \in DOMAIN Program(code, value) BY CmdIs
<1>3. n + 1 \in DOMAIN Program(code, value) BY <1>1, <1>2, ChangesIs
<1>4. Goes(Program(code, value), n) BY <1>2, <1>3 DEF Sound
<1>5. n \in Nat BY DEF TypeOK
<1> QED BY <1>1, <1>2, <1>3, <1>4, <1>5 DEF Cmd

LEMMA CountsAre ==
  ASSUME TypeOK
  PROVE  /\ cnt.rxlo \in Nat /\ cnt.rxhi \in Nat /\ cnt.txlo \in Nat /\ cnt.txhi \in Nat
         /\ perf.rx \in Nat /\ perf.tx \in Nat /\ total.rx \in Nat /\ total.tx \in Nat
  BY DEF TypeOK, Counters

LEMMA ClearedEven ==
  ASSUME TypeOK, perf' = [d \in DOMAIN Of |-> 0], cnt' = cnt,
         total' = [rx |-> cnt.rxlo + cnt.rxhi, tx |-> cnt.txlo + cnt.txhi]
  PROVE  Even'
<1>1. perf'.rx = 0 /\ perf'.tx = 0 BY ClearedIs
<1>2. total'.rx = cnt.rxlo + cnt.rxhi /\ total'.tx = cnt.txlo + cnt.txhi OBVIOUS
<1> QED BY <1>1, <1>2, CountsAre DEF Even

LEMMA SumsSend == ASSUME EInv, Sums, Send PROVE Sums'
<1>0. TypeOK /\ Flow BY DEF EInv, AInv, TInv
<1>1. pc = "send" /\ entry' = None /\ toCard' = toCard /\ UNCHANGED <<cnt, perf, total, sel>>
  BY DEF Send, onu
<1>2. NoOwn /\ NoCount /\ Even BY <1>1, NoOwnNow, NoCountNow DEF EInv
<1>3. Even' BY <1>1, <1>2 DEF Even
<1>4. CASE Cmd.wait
  <2>1. pc' = "wait" /\ UNCHANGED <<code, value, n, toOnu>> BY <1>4 DEF Send
  <2>2. Cmd' = Cmd BY <2>1 DEF Cmd
  <2>3. NoOwn' /\ NoCount' BY <1>1, <1>2, <2>1 DEF NoOwn, NoCount, IsOwn
  <2>4. Selected' BY <1>1, <2>1, <2>2 DEF Selected, Sums
  <2> QED BY <1>3, <2>3, <2>4, SumsIdle
<1>5. CASE ~Cmd.wait
  <2>1. (toOnu' = Append(toOnu, Request) /\ Advance) \/ (UNCHANGED toOnu /\ Done(FALSE)) BY <1>1, <1>5, Zenon DEF Send
  <2>2. /\ Request \in Order /\ Request.count = (Cmd.sum # "none") /\ Request.tag = "once"
        /\ Cmd.sum = "none"
    BY <1>0, <1>1, <1>5, RequestIs, CmdIs DEF Fits, Once
  <2>3. \A i \in DOMAIN toOnu' : toOnu'[i] = Request \/ (i \in DOMAIN toOnu /\ toOnu'[i] = toOnu[i])
    <3>1. CASE toOnu' = Append(toOnu, Request) BY <1>0, <2>2, <3>1, AppendOf DEF Flow
    <3>2. CASE toOnu' = toOnu BY <3>2
    <3> QED BY <2>1, <3>1, <3>2, Zenon
  <2>4. NoCount' BY <1>2, <2>2, <2>3 DEF NoCount
  <2>5. NoOwn' BY <1>1, <1>2, <2>2, <2>3 DEF NoOwn, IsOwn
  <2>6. Selected'
    <3>1. CASE Advance /\ pc' = "send"
      <4>1. Goes(Program(code, value), n) /\ Cmd' = Program(code, value)[n + 1] BY <1>0, <1>1, <3>1, AdvanceTo
      <4>2. Cmd'.sum = "none" BY <1>5, <4>1 DEF Goes, Cmd
      <4> QED BY <4>2 DEF Selected
    <3>2. CASE Advance /\ pc' # "send"
      <4>1. pc' # "wait" BY <1>0, <1>1, <3>2, AdvancePlace
      <4> QED BY <3>2, <4>1 DEF Selected
    <3>3. CASE Done(FALSE)
      <4>1. pc' = "idle" BY <3>3 DEF Done
      <4> QED BY <4>1 DEF Selected
    <3> QED BY <2>1, <3>1, <3>2, <3>3
  <2> QED BY <1>3, <2>4, <2>5, <2>6, SumsIdle
<1> QED BY <1>4, <1>5

LEMMA SumsWrite == ASSUME EInv, Sums, WriteFifo PROVE Sums'
<1>0. TypeOK /\ Flow BY DEF EInv, AInv, TInv
<1>1. /\ pc = "wait" /\ ~sent /\ sent' = TRUE /\ toOnu' = Append(toOnu, Request)
      /\ UNCHANGED <<pc, code, value, n, entry, toCard, sel, cnt, perf, total>>
  BY DEF WriteFifo, onu, history
<1>2. Cmd' = Cmd BY <1>1 DEF Cmd
<1>3. Reading' = Reading /\ Even' = Even /\ Heard' = Heard BY <1>1, <1>2 DEF Reading, Even, Heard
<1>4. /\ Request \in Order /\ Request.count = (Cmd.sum # "none") /\ Request.select = Cmd.select
      /\ Fits(Cmd) /\ IsOwn(Request)
  <2>1. Cmd.wait BY <1>1 DEF EInv, AInv, WaitOK
  <2> QED BY <1>0, <1>1, <2>1, RequestIs, CmdIs DEF IsOwn
<1>5. \A i \in DOMAIN toOnu' :
        (i = Len(toOnu) + 1 /\ toOnu'[i] = Request) \/ (i \in DOMAIN toOnu /\ toOnu'[i] = toOnu[i])
  BY <1>0, <1>1, <1>4, AppendOf DEF Flow
<1>6. \A i \in DOMAIN toOnu' : toOnu'[i].count => IsOwn(toOnu'[i]) BY <1>4, <1>5 DEF Sums, OneCount
<1>7. Unsent' BY <1>1 DEF Unsent
<1>8. CASE Reading
  <2>1. Even /\ NoneSent BY <1>1, <1>8 DEF Sums, Unsent
  <2>2. \A i, j \in DOMAIN toOnu' : IsOwn(toOnu'[i]) /\ IsOwn(toOnu'[j]) => i = j BY <1>5, <2>1 DEF NoneSent
  <2>3. ~Heard' BY <1>3, <2>1 DEF NoneSent
  <2>4. OneCount' BY <1>6, <2>2, <2>3 DEF OneCount, Heard, IsOwn
  <2>5. Counted' BY <1>3, <1>8, <2>1, <2>3 DEF Counted, InFlight, Heard
  <2>6. Selected'
    <3>1. Cmd.sum # "none" => Cmd.select = "none" BY <1>4 DEF Fits
    <3> QED BY <1>1, <1>2, <1>4, <1>5, <3>1 DEF Selected, Sums
  <2> QED BY <1>7, <2>4, <2>5, <2>6 DEF Sums
<1>9. CASE ~Reading
  <2>1. OneCount' BY <1>3, <1>6, <1>9 DEF OneCount, IsOwn
  <2>2. Counted' BY <1>3, <1>9 DEF Counted, Sums
  <2>3. Cmd'.sum = "none" BY <1>1, <1>2, <1>9 DEF Reading
  <2>4. Selected' BY <2>3 DEF Selected
  <2> QED BY <1>7, <2>1, <2>2, <2>4 DEF Sums
<1> QED BY <1>8, <1>9

LEMMA SumsTake == ASSUME EInv, Echo, Sums, Take, ~tainted' PROVE Sums'
<1>0. TypeOK /\ Flow /\ TInv BY DEF EInv, AInv, TInv
<1>1. /\ pc = "wait" /\ entry # None /\ toOnu' = Old(toOnu) /\ toCard' = Old(toCard) /\ entry' = None
      /\ IsOwn(entry) /\ UNCHANGED <<cnt, sel>>
  BY DEF Take, IsOwn, onu
<1>2. NoOwn' BY <1>0, <1>1, OldNoOwn
<1>3. Heard /\ AllDone BY <1>1 DEF Heard, Echo
<1>4. \A i \in DOMAIN toOnu : ~toOnu[i].count /\ toOnu[i].select = Cmd.select
  <2>1. ASSUME NEW i \in DOMAIN toOnu PROVE IsOwn(toOnu[i]) /\ ~toOnu[i].count /\ toOnu[i].select = Cmd.select
    <3>1. IsOwn(toOnu[i]) BY <1>3 DEF AllDone
    <3>2. Cmd.sum = "none" BY <1>1, <1>3, <3>1 DEF Sums, OneCount, Reading
    <3> QED BY <1>1, <3>1, <3>2, OwnCounts
  <2> QED BY <2>1
<1>5. \A i \in DOMAIN toOnu' : i \in DOMAIN toOnu /\ ~toOnu'[i].count /\ toOnu'[i].select = toOnu[i].select
  BY <1>0, <1>1, <1>4, OldOrders DEF Flow
<1>6. NoCount' BY <1>5 DEF NoCount
<1>7. Even'
  <2>1. CASE Cleared BY <1>0, <1>1, <2>1, ClearedEven DEF Take
  <2>2. CASE ~Cleared /\ Cmd.sum = "none"
    <3>1. perf' = perf /\ total' = total BY <2>2 DEF Take
    <3>2. Even BY <2>2 DEF Sums, Counted, Reading
    <3> QED BY <1>1, <3>1, <3>2 DEF Even
  <2>3. CASE ~Cleared /\ Cmd.sum # "none"
    <3>1. perf' = [perf EXCEPT ![Cmd.sum] = @ + entry.count] /\ total' = total BY <2>3 DEF Take
    <3>2. entry.count \in Nat /\ InFlight(entry.count) BY <1>0, <1>1 DEF Flow, Reply, InFlight
    <3>3. PICK x \in Nat : x = entry.count BY <3>2
    <3>4. Plus(x) BY <1>1, <2>3, <3>2, <3>3 DEF Sums, Counted, Reading
    <3>5. Cmd.sum \in {"rx", "tx"} BY <1>0, <1>1, <2>3, CmdIs DEF Message
    <3>6. perf \in [{"rx", "tx"} -> Nat] BY <1>0 DEF TypeOK
    <3>7. perf'.rx = perf.rx + (IF Cmd.sum = "rx" THEN x ELSE 0) /\ perf'.tx = perf.tx + (IF Cmd.sum = "tx" THEN x ELSE 0)
      BY <3>1, <3>3, <3>5, <3>6
    <3> QED BY <1>0, <1>1, <3>1, <3>4, <3>7, CountsAre DEF Even, Plus
  <2> QED BY <2>1, <2>2, <2>3
<1>8. Selected'
  <2>1. CASE pc' = "send" /\ Advance
    <3>1. /\ Goes(Program(code, value), n) /\ Cmd' = Program(code, value)[n + 1] /\ code' = code
          /\ value' = value /\ n' = n + 1 /\ n \in Nat /\ n \in DOMAIN Program(code, value)
      BY <1>0, <1>1, <2>1, AdvanceTo
    <3>2. ASSUME Cmd'.sum # "none" PROVE Cmd.select # "none" /\ sel = Cmd.select
      <4>1. Cmd.select \in Of[Cmd'.sum] BY <3>1, <3>2 DEF Goes, Cmd
      <4>2. Cmd'.sum \in {"rx", "tx"}
        <5>1. n + 1 \in DOMAIN Program(code, value) BY <1>0, <1>1, <2>1, AdvanceTo
        <5>2. Program(code, value)[n + 1] \in Message BY <1>0, <1>1, <5>1, CmdIs, ChangesIs
        <5> QED BY <3>1, <3>2, <5>2 DEF Message
      <4>3. Cmd.select # "none" BY <4>1, <4>2 DEF Of
      <4> QED BY <1>3, <4>3 DEF AllDone
    <3>3. n' - 1 = n BY <3>1
    <3> QED BY <1>1, <1>4, <1>5, <3>1, <3>2, <3>3 DEF Selected, Cmd
  <2>2. CASE pc' = "send" /\ UNCHANGED <<code, value, n>>
    <3>1. Cmd' = Cmd BY <2>2 DEF Cmd
    <3>2. Selected BY DEF Sums
    <3> QED BY <1>1, <1>5, <2>2, <3>1, <3>2 DEF Selected
  <2>3. CASE pc' = "idle" BY <2>3 DEF Selected
  <2>4. CASE Advance /\ pc' # "send"
    <3>1. pc' # "wait" BY <1>0, <1>1, <2>4, AdvancePlace
    <3> QED BY <2>4, <3>1 DEF Selected
  <2>5. Advance \/ pc' = "idle" \/ (pc' = "send" /\ UNCHANGED <<code, value, n>>) BY Zenon DEF Take, Done
  <2> QED BY <2>1, <2>2, <2>3, <2>4, <2>5, Zenon
<1> QED BY <1>2, <1>6, <1>7, <1>8, SumsIdle

LEMMA SumsCall == ASSUME OnuFifoAssumption, EInv, Sums, NEW v \in Bit, Call(v) PROVE Sums'
<1>0. TypeOK BY DEF EInv, AInv, TInv
<1>1. /\ pc = "idle" /\ pc' = "send" /\ code' = Head(script) /\ n' = 1
      /\ UNCHANGED <<entry, toOnu, toCard, sel, cnt, perf, total>>
  BY DEF Call, onu
<1>2. NoOwn /\ NoCount /\ Even BY <1>1, NoOwnNow, NoCountNow DEF EInv
<1>3. NoOwn' /\ NoCount' /\ Even' BY <1>1, <1>2 DEF NoOwn, NoCount, Even, IsOwn
<1>4. code' \in Codes BY <1>0, <1>1, TailOf DEF Call, TypeOK
<1>5. Cmd'.sum = "none"
  <2>1. Sound(Program(code', value')) BY <1>4, ProgramSound
  <2>2. Program(code', value')[1].sum = "none" BY <2>1 DEF Sound
  <2> QED BY <1>1, <2>2 DEF Cmd
<1>6. Selected' BY <1>5 DEF Selected
<1> QED BY <1>3, <1>6, SumsIdle

LEMMA SumsTimeout == ASSUME EInv, Sums, Timeout, ~tainted' PROVE Sums'
<1>0. TypeOK /\ Flow /\ TInv /\ WaitOK BY DEF EInv, AInv, TInv
<1>1. pc = "wait" /\ entry' = entry /\ Cmd.sum = "none" /\ UNCHANGED <<sel, cnt>> BY DEF Timeout, onu
<1>2. Even BY <1>1 DEF Sums, Counted, Reading
<1>3. NoCount BY <1>1, OwnCounts DEF NoCount, Sums, OneCount
<1>4. CASE tries < MaxRetry - 1
  <2>1. UNCHANGED <<pc, code, value, n, toOnu, toCard, perf, total>> BY <1>4 DEF Timeout
  <2>2. Cmd' = Cmd BY <2>1 DEF Cmd
  <2>3. NoCount' BY <1>3, <2>1 DEF NoCount
  <2>4. ~Reading' BY <1>1, <2>2 DEF Reading
  <2>5. OneCount' BY <2>3, <2>4 DEF OneCount, NoCount
  <2>6. Even' BY <1>1, <1>2, <2>1 DEF Even
  <2>7. Counted' /\ Unsent' BY <2>4, <2>6 DEF Counted, Unsent
  <2>8. Selected' BY <1>1, <2>2 DEF Selected
  <2> QED BY <2>5, <2>7, <2>8 DEF Sums
<1>5. CASE ~(tries < MaxRetry - 1)
  <2>1. /\ toOnu' = Old(toOnu) /\ toCard' = Old(toCard) /\ (IF Cmd.go THEN Advance ELSE Done(FALSE))
        /\ perf' = IF Cleared THEN [d \in DOMAIN Of |-> 0] ELSE perf
        /\ total' = IF Cleared THEN [rx |-> cnt.rxlo + cnt.rxhi, tx |-> cnt.txlo + cnt.txhi] ELSE total
    BY <1>5 DEF Timeout
  <2>2. entry' = None BY <1>1 DEF Timeout
  <2>3. NoOwn' BY <1>0, <2>1, <2>2, OldNoOwn
  <2>4. NoCount' BY <1>0, <1>3, <2>1, OldOrders DEF NoCount, Flow
  <2>5. Even'
    <3>1. CASE Cleared BY <1>0, <1>1, <2>1, <3>1, ClearedEven
    <3>2. CASE ~Cleared BY <1>1, <1>2, <2>1, <3>2 DEF Even
    <3> QED BY <3>1, <3>2
  <2>6. Selected'
    <3>1. CASE Cmd.go /\ pc' = "send"
      <4>1. Goes(Program(code, value), n) /\ Cmd' = Program(code, value)[n + 1] BY <1>0, <1>1, <2>1, <3>1, AdvanceTo
      <4>2. Cmd'.sum = "none" BY <3>1, <4>1 DEF Goes, Cmd
      <4> QED BY <4>2 DEF Selected
    <3>2. CASE Cmd.go /\ pc' # "send"
      <4>1. pc' # "wait" BY <1>0, <1>1, <2>1, <3>2, AdvancePlace
      <4> QED BY <3>2, <4>1 DEF Selected
    <3>3. CASE ~Cmd.go
      <4>1. pc' = "idle" BY <2>1, <3>3 DEF Done
      <4> QED BY <4>1 DEF Selected
    <3> QED BY <3>1, <3>2, <3>3
  <2> QED BY <2>3, <2>4, <2>5, <2>6, SumsIdle
<1> QED BY <1>4, <1>5

LEMMA SumsStore == ASSUME EInv, Sums, NEW ok \in BOOLEAN, Store(ok) PROVE Sums'
<1>1. /\ pc = "store" /\ pc' = "idle" /\ UNCHANGED <<entry, toOnu, toCard, sel, cnt, perf, total>>
  BY DEF Store, Done, onu
<1>2. NoOwn /\ NoCount /\ Even BY <1>1, NoOwnNow, NoCountNow DEF EInv
<1>3. NoOwn' /\ NoCount' /\ Even' BY <1>1, <1>2 DEF NoOwn, NoCount, Even, IsOwn
<1>4. Selected' BY <1>1 DEF Selected
<1> QED BY <1>3, <1>4, SumsIdle

LEMMA SumsDeliver == ASSUME EInv, Sums, Deliver PROVE Sums'
<1>0. Flow BY DEF EInv, AInv, TInv
<1>1. /\ toCard # <<>> /\ toCard' = Tail(toCard) /\ UNCHANGED main /\ UNCHANGED <<toOnu, cnt, sel, perf, total>>
      /\ entry' = entry \/ (entry = None /\ entry' = Head(toCard))
  BY DEF Deliver, onu, history
<1>2. /\ Cmd' = Cmd /\ pc' = pc /\ code' = code /\ value' = value /\ n' = n /\ sent' = sent
  BY <1>1, SameRequest DEF main
<1>3. Even' = Even /\ \A x : Plus(x)' = Plus(x) BY <1>1, <1>2 DEF Even, Plus
<1>4. CASE entry' = entry
  <2>1. (Even => Even') /\ \A x \in Nat : Plus(x) => Plus(x)' BY <1>3
  <2>2. UNCHANGED <<main, entry, sel>> BY <1>1, <1>4
  <2> QED BY <1>1, <2>1, <2>2, SumsFewer
<1>5. CASE entry = None /\ entry' = Head(toCard)
  <2>1. /\ 1 \in DOMAIN toCard /\ Head(toCard) = toCard[1]
        /\ \A k \in DOMAIN toCard' : k \in Nat /\ k + 1 \in DOMAIN toCard /\ toCard'[k] = toCard[k + 1]
                                    /\ k + 1 # 1
    <3>1. /\ 1 \in DOMAIN toCard /\ Head(toCard) = toCard[1]
          /\ \A k \in DOMAIN toCard' : k \in Nat /\ k >= 1 /\ k + 1 \in DOMAIN toCard
                                       /\ toCard'[k] = toCard[k + 1]
      BY <1>0, <1>1, TailOf DEF Flow
    <3> QED BY <3>1
  <2>2. Heard' => Heard BY <1>5, <2>1 DEF Heard
  <2>3. OneCount'
    <3>0. OneCount BY DEF Sums
    <3>1. \A i \in DOMAIN toOnu' : toOnu'[i].count => IsOwn(toOnu'[i]) BY <1>1, <3>0 DEF OneCount
    <3>2. CASE ~Reading'
      BY <3>1, <3>2 DEF OneCount, IsOwn
    <3>3. CASE Reading'
      <4>1. Reading BY <1>2, <3>3 DEF Reading
      <4>2. \A i, j \in DOMAIN toOnu' : IsOwn(toOnu'[i]) /\ IsOwn(toOnu'[j]) => i = j
        BY <1>1, <3>0, <4>1 DEF OneCount
      <4>3. ASSUME NEW i \in DOMAIN toCard', NEW j \in DOMAIN toCard', IsOwn(toCard'[i]), IsOwn(toCard'[j])
            PROVE  i = j
        <5>1. i + 1 = j + 1 BY <2>1, <3>0, <4>1, <4>3 DEF OneCount
        <5> QED BY <2>1, <5>1
      <4>4. Heard' => \A i \in DOMAIN toOnu' : ~IsOwn(toOnu'[i]) BY <1>1, <2>2, <3>0, <4>1 DEF OneCount
      <4>5. IsOwn(entry') => \A k \in DOMAIN toCard' : ~IsOwn(toCard'[k])
        BY <1>5, <2>1, <3>0, <4>1 DEF OneCount
      <4> QED BY <3>1, <4>2, <4>3, <4>4, <4>5 DEF OneCount, IsOwn
    <3> QED BY <3>2, <3>3
  <2>4. Counted'
    <3>1. Reading' = Reading BY <1>2 DEF Reading
    <3>2. \A x : InFlight(x)' => InFlight(x) BY <1>5, <2>1 DEF InFlight
    <3> QED BY <1>1, <1>3, <3>1, <3>2 DEF Counted, Sums, IsOwn
  <2>5. Selected' BY <1>1, <1>2 DEF Selected, Sums
  <2>6. Unsent'
    <3>1. Reading' => Reading BY <1>2 DEF Reading
    <3>2. Even => Even' BY <1>3
    <3>3. \A i \in DOMAIN toOnu' : \E j \in DOMAIN toOnu : toOnu'[i] = toOnu[j] BY <1>1
    <3> QED BY <1>2, <2>2, <3>1, <3>2, <3>3, UnsentStays DEF Sums
  <2> QED BY <2>3, <2>4, <2>5, <2>6 DEF Sums
<1> QED BY <1>1, <1>4, <1>5

LEMMA SumsRestore == ASSUME EInv, Sums, Restore, ~tainted' PROVE Sums'
<1>0. TypeOK /\ Flow /\ TInv BY DEF EInv, AInv, TInv
<1>1. /\ toCard # <<>> /\ toCard' = Tail(toCard) /\ pc = "idle" /\ pc' = pc /\ entry' = entry
      /\ UNCHANGED <<cnt, perf, total>>
  BY DEF Restore, main, onu
<1>2. NoOwn /\ NoCount /\ Even BY <1>1, NoOwnNow, NoCountNow DEF EInv
<1>3. \A i \in DOMAIN toOnu' : \/ i \in DOMAIN toOnu /\ toOnu'[i] = toOnu[i]
                               \/ ~toOnu'[i].count /\ ~IsOwn(toOnu'[i])
  BY <1>0, RestoreDoes, StoredIs DEF IsOwn
<1>4. \A k \in DOMAIN toCard' : \E j \in DOMAIN toCard : toCard'[k] = toCard[j] BY <1>0, <1>1, TailOf DEF Flow
<1>5. NoOwn' BY <1>1, <1>2, <1>3, <1>4 DEF NoOwn, IsOwn
<1>6. NoCount' BY <1>2, <1>3 DEF NoCount
<1>7. Even' BY <1>1, <1>2 DEF Even
<1>8. Selected' BY <1>1 DEF Selected
<1> QED BY <1>5, <1>6, <1>7, <1>8, SumsIdle

LEMMA SumsBoot ==
  ASSUME EInv, Sums, NEW pending \in BOOLEAN, Boot(pending), UNCHANGED <<main, entry, perf>>,
         toOnu' = toOnu \/ (toOnu # <<>> /\ toOnu' = Tail(toOnu)), ~tainted'
  PROVE  Sums'
<1>0. TypeOK /\ Flow BY DEF EInv, AInv, TInv
<1>1. pc = "idle" /\ pc' = pc /\ entry' = entry /\ toCard' = Append(toCard, Up) BY DEF Boot, main
<1>2. NoOwn /\ NoCount BY <1>1, NoOwnNow, NoCountNow DEF EInv
<1>3. \A i \in DOMAIN toOnu' : \E j \in DOMAIN toOnu : toOnu'[i] = toOnu[j] BY <1>0, TailOf DEF Flow
<1>4. \A k \in DOMAIN toCard' : ~IsOwn(toCard'[k]) \/ (k \in DOMAIN toCard /\ toCard'[k] = toCard[k])
  BY <1>0, <1>1, UpIs, AppendOf DEF Flow, IsOwn
<1>5. NoOwn' BY <1>1, <1>2, <1>3, <1>4 DEF NoOwn, IsOwn
<1>6. NoCount' BY <1>2, <1>3 DEF NoCount
<1>7. Even'
  <2>1. perf' = perf /\ total' = perf /\ cnt' = [c \in Counters |-> 0] BY DEF Boot, NoCounts
  <2>2. cnt'.rxlo = 0 /\ cnt'.rxhi = 0 /\ cnt'.txlo = 0 /\ cnt'.txhi = 0 BY <2>1 DEF Counters
  <2> QED BY <1>0, <2>1, <2>2, CountsAre DEF Even
<1>8. Selected' BY <1>1 DEF Selected
<1> QED BY <1>5, <1>6, <1>7, <1>8, SumsIdle

\* The counter that was read has been cleared, and is in the answer.
LEMMA ReadCleared ==
  ASSUME TypeOK, Cmd.sum \in {"rx", "tx"}, sel \in Of[Cmd.sum], Even, cnt' = [cnt EXCEPT ![sel] = 0],
         UNCHANGED <<perf, total>>, Cmd' = Cmd, NEW x, x = cnt[sel]
  PROVE  Plus(x)'
<1> DEFINE a == cnt.rxlo
           b == cnt.rxhi
           c == cnt.txlo
           d == cnt.txhi
<1>1. a \in Nat /\ b \in Nat /\ c \in Nat /\ d \in Nat /\ cnt \in [Counters -> Nat] BY CountsAre DEF TypeOK
<1>2. perf.rx \in Nat /\ perf.tx \in Nat BY CountsAre
<1>3. perf.rx + a + b = total.rx /\ perf.tx + c + d = total.tx BY DEF Even
<1>a. Plus(x)' <=> /\ perf.rx + cnt'.rxlo + cnt'.rxhi + (IF Cmd.sum = "rx" THEN x ELSE 0) = total.rx
                   /\ perf.tx + cnt'.txlo + cnt'.txhi + (IF Cmd.sum = "tx" THEN x ELSE 0) = total.tx
  BY DEF Plus
<1> HIDE DEF a, b, c, d
<1>4. CASE Cmd.sum = "rx"
  <2>1. sel = "rxlo" \/ sel = "rxhi" BY <1>4 DEF Of, a, b
  <2>2. cnt'.txlo = c /\ cnt'.txhi = d BY <1>1, <2>1 DEF Counters, a, b, c, d
  <2>3. CASE sel = "rxlo"
    <3>1. cnt'.rxlo = 0 /\ cnt'.rxhi = b BY <1>1, <2>3 DEF Counters, a, b, c, d
    <3>2. x = a BY <2>3 DEF a
    <3> QED BY <1>1, <1>2, <1>3, <1>4, <1>a, <2>2, <3>1, <3>2
  <2>4. CASE sel = "rxhi"
    <3>1. cnt'.rxhi = 0 /\ cnt'.rxlo = a BY <1>1, <2>4 DEF Counters, a, b, c, d
    <3>2. x = b BY <2>4 DEF b
    <3> QED BY <1>1, <1>2, <1>3, <1>4, <1>a, <2>2, <3>1, <3>2
  <2> QED BY <2>1, <2>3, <2>4
<1>5. CASE Cmd.sum = "tx"
  <2>1. sel = "txlo" \/ sel = "txhi" BY <1>5 DEF Of, c, d
  <2>2. cnt'.rxlo = a /\ cnt'.rxhi = b BY <1>1, <2>1 DEF Counters, a, b, c, d
  <2>3. CASE sel = "txlo"
    <3>1. cnt'.txlo = 0 /\ cnt'.txhi = d BY <1>1, <2>3 DEF Counters, a, b, c, d
    <3>2. x = c BY <2>3 DEF c
    <3> QED BY <1>1, <1>2, <1>3, <1>5, <1>a, <2>2, <3>1, <3>2
  <2>4. CASE sel = "txhi"
    <3>1. cnt'.txhi = 0 /\ cnt'.txlo = c BY <1>1, <2>4 DEF Counters, a, b, c, d
    <3>2. x = d BY <2>4 DEF d
    <3> QED BY <1>1, <1>2, <1>3, <1>5, <1>a, <2>2, <3>1, <3>2
  <2> QED BY <2>1, <2>3, <2>4
<1> QED BY <1>4, <1>5

LEMMA SumsAnswer == ASSUME EInv, Sums, Answer PROVE Sums'
<1> DEFINE m == Head(toOnu)
<1>0. Flow /\ WaitOK /\ TypeOK /\ TInv BY DEF EInv, AInv, TInv
<1>1. /\ toOnu # <<>> /\ m \in Order /\ toOnu' = Tail(toOnu)
      /\ sel' = IF m.select = "none" THEN sel ELSE m.select
      /\ \E c \in Nat, v \in BOOLEAN :
           /\ toCard' = Append(toCard, AnswerOf(m, c, v))
           /\ \/ m.count /\ sel # "other" /\ c = cnt[sel] /\ cnt' = [cnt EXCEPT ![sel] = 0]
              \/ cnt' = cnt /\ c = 0
      /\ UNCHANGED main /\ entry' = entry /\ perf' = perf /\ total' = total
  BY <1>0, AnswerDoes DEF history
<1>2. /\ Cmd' = Cmd /\ pc' = pc /\ code' = code /\ value' = value /\ n' = n /\ sent' = sent
  BY <1>1, SameRequest DEF main
<1>3. PICK c \in Nat, v \in BOOLEAN :
        /\ toCard' = Append(toCard, AnswerOf(m, c, v))
        /\ \/ m.count /\ sel # "other" /\ c = cnt[sel] /\ cnt' = [cnt EXCEPT ![sel] = 0]
           \/ cnt' = cnt /\ c = 0
  BY <1>1
<1>4. /\ 1 \in DOMAIN toOnu /\ m = toOnu[1]
      /\ \A i \in DOMAIN toOnu' : i \in Nat /\ i >= 1 /\ i + 1 \in DOMAIN toOnu /\ toOnu'[i] = toOnu[i + 1]
  BY <1>0, <1>1, TailOf DEF Flow
<1> DEFINE x == AnswerOf(m, c, v)
<1> HIDE DEF m
<1>a. TypeOK /\ m \in Order /\ c \in Nat /\ v \in BOOLEAN BY <1>0, <1>1
<1>5. x \in Reply /\ x.tag = m.tag /\ x.count = c BY ONLY <1>a, AnswerIs
<1>b. toCard' = Append(toCard, x) BY <1>3
<1> HIDE DEF x
<1>6. \A k \in DOMAIN toCard' :
        (k = Len(toCard) + 1 /\ toCard'[k] = x) \/ (k \in DOMAIN toCard /\ toCard'[k] = toCard[k])
  BY <1>0, <1>b, <1>5, AppendOf DEF Flow
<1>7. OneCount /\ Counted /\ Selected /\ Unsent BY DEF Sums
<1>8. \A i \in DOMAIN toOnu' : toOnu'[i].count => IsOwn(toOnu'[i]) BY <1>4, <1>7 DEF OneCount
<1>9. ~m.count => cnt' = cnt /\ c = 0 BY <1>3
<1>10. Reading' = Reading BY <1>2 DEF Reading
<1>11. IsOwn(m) => pc = "wait" /\ m.count = (Cmd.sum # "none") /\ m.select = Cmd.select
  BY <1>4, OwnCounts DEF EInv, OwnIs
<1>12. CASE ~Reading
  <2>1. ~m.count BY <1>4, <1>7, <1>11, <1>12 DEF OneCount, Reading
  <2>2. OneCount' BY <1>8, <1>10, <1>12 DEF OneCount, IsOwn
  <2>3. Even' BY <1>1, <1>7, <1>9, <1>12, <2>1 DEF Even, Counted
  <2>4. Counted' BY <1>10, <1>12, <2>3 DEF Counted
  <2>5. Selected' BY <1>1, <1>2, <1>4, <1>7 DEF Selected
  <2>6. Unsent' BY <1>10, <1>12 DEF Unsent
  <2> QED BY <2>2, <2>4, <2>5, <2>6 DEF Sums
<1>13. CASE Reading /\ ~IsOwn(m)
  <2>1. ~m.count BY <1>4, <1>7, <1>13 DEF OneCount
  <2>2. cnt' = cnt BY <1>9, <2>1
  <2>3. ~IsOwn(x) BY <1>5, <1>13 DEF IsOwn
  <2>4. \A k \in DOMAIN toCard' : IsOwn(toCard'[k]) => k \in DOMAIN toCard /\ toCard'[k] = toCard[k]
    BY <1>6, <2>3
  <2>a. Heard' => Heard BY <1>1, <2>4 DEF Heard, IsOwn
  <2>5. OneCount'
    <3>1. ASSUME NEW i \in DOMAIN toOnu', NEW j \in DOMAIN toOnu', IsOwn(toOnu'[i]), IsOwn(toOnu'[j])
          PROVE  i = j
      <4>1. i + 1 = j + 1 BY <1>4, <1>7, <1>13, <3>1 DEF OneCount
      <4> QED BY <1>4, <4>1
    <3>2. \A k, l \in DOMAIN toCard' : IsOwn(toCard'[k]) /\ IsOwn(toCard'[l]) => k = l
      BY <1>7, <1>13, <2>4 DEF OneCount
    <3>4. Heard' => \A i \in DOMAIN toOnu' : ~IsOwn(toOnu'[i]) BY <1>4, <1>7, <1>13, <2>a DEF OneCount
    <3>5. entry' # None /\ IsOwn(entry') => \A k \in DOMAIN toCard' : ~IsOwn(toCard'[k])
      BY <1>1, <1>7, <1>13, <2>4 DEF OneCount
    <3> QED BY <1>8, <3>1, <3>2, <3>4, <3>5 DEF OneCount, IsOwn
  <2>6. Counted'
    <3>1. Even' = Even /\ \A y : Plus(y)' = Plus(y) BY <1>1, <1>2, <2>2 DEF Even, Plus
    <3>2. \A y : InFlight(y)' => InFlight(y) BY <1>1, <2>4 DEF InFlight, IsOwn
    <3>3. (\E i \in DOMAIN toOnu' : IsOwn(toOnu'[i])) => \E i \in DOMAIN toOnu : IsOwn(toOnu[i]) BY <1>4
    <3> QED BY <1>7, <1>10, <1>13, <3>1, <3>2, <3>3 DEF Counted, IsOwn
  <2>7. Selected' BY <1>1, <1>2, <1>4, <1>7 DEF Selected
  <2>8. Unsent'
    <3>1. Reading' => Reading BY <1>10
    <3>2. Even => Even' BY <1>1, <2>2 DEF Even
    <3>3. \A i \in DOMAIN toOnu' : \E j \in DOMAIN toOnu : toOnu'[i] = toOnu[j] BY <1>4
    <3> QED BY <1>2, <1>7, <2>a, <3>1, <3>2, <3>3, UnsentStays
  <2> QED BY <2>5, <2>6, <2>7, <2>8 DEF Sums
<1>14. CASE Reading /\ IsOwn(m)
  <2>1. \A i \in DOMAIN toOnu' : ~IsOwn(toOnu'[i])
    <3> SUFFICES ASSUME NEW i \in DOMAIN toOnu', IsOwn(toOnu'[i]) PROVE FALSE OBVIOUS
    <3>1. i + 1 = 1 BY <1>4, <1>7, <1>14 DEF OneCount
    <3> QED BY <1>4, <3>1
  <2>2. ~Heard BY <1>4, <1>7, <1>14 DEF OneCount
  <2>3. \A k \in DOMAIN toCard' : IsOwn(toCard'[k]) => k = Len(toCard) + 1 /\ toCard'[k] = x
    BY <1>6, <2>2 DEF Heard
  <2>4. ~(entry' # None /\ IsOwn(entry')) BY <1>1, <2>2 DEF Heard
  <2>5. OneCount' BY <1>8, <2>1, <2>3, <2>4 DEF OneCount, IsOwn
  <2>6. Even BY <1>4, <1>7, <1>14 DEF Counted
  <2>7. Cmd.sum # "none" /\ Cmd \in Message /\ Fits(Cmd) /\ pc = "wait" BY <1>0, <1>14, CmdIs DEF Reading
  <2>8. Cmd.sum \in {"rx", "tx"} BY <2>7 DEF Message
  <2>9. m.select = "none" /\ sel' = sel BY <1>1, <1>11, <1>14, <2>7 DEF Fits
  <2>10. sel \in Of[Cmd.sum]
    <3>1. Goes(Program(code, value), n - 1) /\ sel = Program(code, value)[n - 1].select BY <1>7, <2>7 DEF Selected
    <3>2. n - 1 + 1 = n BY <1>0 DEF TypeOK
    <3> QED BY <2>7, <3>1, <3>2 DEF Goes, Cmd
  <2>11. Plus(c)'
    <3>1. CASE c = cnt[sel] /\ cnt' = [cnt EXCEPT ![sel] = 0]
      <4>1. UNCHANGED <<perf, total>> /\ Cmd' = Cmd BY <1>1, <1>2
      <4> QED BY ONLY <1>0, <2>6, <2>8, <2>10, <3>1, <4>1, ReadCleared
    <3>2. CASE cnt' = cnt /\ c = 0
      <4>1. Plus(c)' <=> Plus(c) BY <1>1, <1>2, <3>2 DEF Plus
      <4>2. Plus(c) BY <1>0, <2>6, <3>2, CountsAre DEF Even, Plus
      <4> QED BY <4>1, <4>2
    <3> QED BY <1>3, <3>1, <3>2
  <2>12. \A y \in Nat : InFlight(y)' => y = c BY <1>5, <2>3, <2>4 DEF InFlight
  <2>13. Counted' BY <1>10, <1>14, <2>1, <2>11, <2>12 DEF Counted, IsOwn
  <2>14. Selected' BY <1>2, <1>4, <1>7, <2>9 DEF Selected
  <2>15. Unsent'
    <3>1. ~NoneSent BY <1>4, <1>14 DEF NoneSent
    <3>2. sent BY <1>7, <1>14, <3>1, Zenon DEF Unsent
    <3>3. sent' BY <1>2, <3>2, Zenon
    <3> QED BY <3>3, Zenon DEF Unsent
  <2> QED BY <2>5, <2>13, <2>14, <2>15 DEF Sums
<1> QED BY <1>12, <1>13, <1>14

LEMMA OneMore ==
  ASSUME NEW p \in Nat, NEW a \in Nat, NEW b \in Nat, NEW c \in Nat, NEW d \in Nat, NEW i \in Nat,
         NEW x \in Nat, NEW t \in Nat, c + d = a + b + i
  PROVE  (p + a + b + x = t => p + c + d + x = t + i) /\ (p + a + b = t => p + c + d = t + i)
  OBVIOUS

LEMMA SumsCount == ASSUME EInv, Sums, NEW c \in Counters, Count(c) PROVE Sums'
<1>0. TypeOK BY DEF EInv, AInv, TInv
<1>1. /\ UNCHANGED <<main, entry, sel, toOnu, toCard, perf>> /\ cnt' = [cnt EXCEPT ![c] = @ + 1]
      /\ total' = [d \in DOMAIN Of |-> IF c \in Of[d] THEN total[d] + 1 ELSE total[d]]
  BY DEF Count
<1>2. Cmd' = Cmd BY <1>1, SameRequest DEF main
<1>3. /\ cnt'.rxlo + cnt'.rxhi = cnt.rxlo + cnt.rxhi + (IF c \in {"rxlo", "rxhi"} THEN 1 ELSE 0)
      /\ cnt'.txlo + cnt'.txhi = cnt.txlo + cnt.txhi + (IF c \in {"txlo", "txhi"} THEN 1 ELSE 0)
      /\ cnt'.rxlo \in Nat /\ cnt'.rxhi \in Nat /\ cnt'.txlo \in Nat /\ cnt'.txhi \in Nat
  <2>1. cnt \in [Counters -> Nat] BY <1>0 DEF TypeOK
  <2>2. \A d \in Counters : cnt'[d] = (IF d = c THEN cnt[d] + 1 ELSE cnt[d]) /\ cnt'[d] \in Nat /\ cnt[d] \in Nat
    BY <1>1, <2>1
  <2> QED BY <2>2 DEF Counters
<1>4. /\ total'.rx = total.rx + (IF c \in {"rxlo", "rxhi"} THEN 1 ELSE 0)
      /\ total'.tx = total.tx + (IF c \in {"txlo", "txhi"} THEN 1 ELSE 0)
  BY <1>0, <1>1, ClearedIs, CountsAre DEF Of
<1> DEFINE i == IF c \in {"rxlo", "rxhi"} THEN 1 ELSE 0
           j == IF c \in {"txlo", "txhi"} THEN 1 ELSE 0
<1>a. i \in Nat /\ j \in Nat OBVIOUS
<1>b. /\ cnt'.rxlo + cnt'.rxhi = cnt.rxlo + cnt.rxhi + i /\ cnt'.txlo + cnt'.txhi = cnt.txlo + cnt.txhi + j
      /\ total'.rx = total.rx + i /\ total'.tx = total.tx + j
  BY <1>3, <1>4
<1> HIDE DEF i, j
<1>c. 0 \in Nat OBVIOUS
<1>d. perf' = perf BY <1>1
<1>e. \A x \in Nat :
        /\ (perf.rx + cnt.rxlo + cnt.rxhi + x = total.rx => perf.rx + cnt'.rxlo + cnt'.rxhi + x = total'.rx)
        /\ (perf.tx + cnt.txlo + cnt.txhi + x = total.tx => perf.tx + cnt'.txlo + cnt'.txhi + x = total'.tx)
        /\ (perf.rx + cnt.rxlo + cnt.rxhi = total.rx => perf.rx + cnt'.rxlo + cnt'.rxhi = total'.rx)
        /\ (perf.tx + cnt.txlo + cnt.txhi = total.tx => perf.tx + cnt'.txlo + cnt'.txhi = total'.tx)
  <2> SUFFICES ASSUME NEW x \in Nat
               PROVE  /\ (perf.rx + cnt.rxlo + cnt.rxhi + x = total.rx => perf.rx + cnt'.rxlo + cnt'.rxhi + x = total'.rx)
                      /\ (perf.tx + cnt.txlo + cnt.txhi + x = total.tx => perf.tx + cnt'.txlo + cnt'.txhi + x = total'.tx)
                      /\ (perf.rx + cnt.rxlo + cnt.rxhi = total.rx => perf.rx + cnt'.rxlo + cnt'.rxhi = total'.rx)
                      /\ (perf.tx + cnt.txlo + cnt.txhi = total.tx => perf.tx + cnt'.txlo + cnt'.txhi = total'.tx)
    OBVIOUS
  <2>1. /\ cnt.rxlo \in Nat /\ cnt.rxhi \in Nat /\ cnt.txlo \in Nat /\ cnt.txhi \in Nat
        /\ perf.rx \in Nat /\ perf.tx \in Nat /\ total.rx \in Nat /\ total.tx \in Nat
    BY <1>0, CountsAre
  <2> QED BY ONLY <1>3, <1>a, <1>b, <2>1, OneMore, x \in Nat
<1>5. Even => Even' BY <1>c, <1>d, <1>e DEF Even
<1>6. ASSUME NEW x \in Nat, Plus(x) PROVE Plus(x)'
  <2>1. CASE Cmd.sum = "rx" BY <1>2, <1>6, <1>d, <1>e, <1>c, <2>1 DEF Plus
  <2>2. CASE Cmd.sum # "rx" BY <1>2, <1>6, <1>d, <1>e, <1>c, <2>2 DEF Plus
  <2> QED BY <2>1, <2>2
<1> QED BY <1>1, <1>5, <1>6, SumsFewer

LEMMA SumsFewer2 ==
  ASSUME EInv, Sums, UNCHANGED <<main, entry, sel, cnt, perf, total>>,
         toOnu' = toOnu \/ (toOnu # <<>> /\ toOnu' = Tail(toOnu)),
         toCard' = toCard \/ (toCard # <<>> /\ toCard' = Tail(toCard))
  PROVE  Sums'
<1>1. Cmd' = Cmd BY SameRequest DEF main
<1>2. (Even => Even') /\ \A x \in Nat : Plus(x) => Plus(x)' BY <1>1 DEF Even, Plus
<1> QED BY <1>2, SumsFewer

SInv == EInv /\ (tainted \/ Sums)

LEMMA SumsStep == ASSUME OnuFifoAssumption, SInv, [Next]_vars, ~tainted' PROVE Sums'
<1>0. EInv /\ ~tainted /\ Echo /\ Sums BY TaintStays DEF SInv
<1>1. ASSUME NEW v \in Bit, Call(v) PROVE Sums' BY <1>0, <1>1, SumsCall
<1>2. CASE Send BY <1>0, <1>2, SumsSend
<1>3. CASE Take BY <1>0, <1>3, SumsTake
<1>4. CASE Timeout BY <1>0, <1>4, SumsTimeout
<1>5. ASSUME NEW ok \in BOOLEAN, Store(ok) PROVE Sums' BY <1>0, <1>5, SumsStore
<1>6. CASE Deliver BY <1>0, <1>6, SumsDeliver
<1>7. CASE Restore BY <1>0, <1>7, SumsRestore
<1>8. CASE Answer BY <1>0, <1>8, SumsAnswer
<1>9. CASE Reset
  <2>1. toOnu # <<>> /\ toOnu' = Tail(toOnu) /\ UNCHANGED <<main, entry, perf>> BY <1>9 DEF Reset
  <2>2. PICK pending \in BOOLEAN : Boot(pending) BY <1>9 DEF Reset
  <2> QED BY <1>0, <2>1, <2>2, SumsBoot
<1>10. CASE SwitchOn
  <2>1. toOnu' = toOnu /\ UNCHANGED <<main, entry, perf>> BY <1>10 DEF SwitchOn
  <2>2. PICK pending \in BOOLEAN : Boot(pending) BY <1>10 DEF SwitchOn
  <2> QED BY <1>0, <2>1, <2>2, SumsBoot
<1>11. CASE Unheard
  <2>1. UNCHANGED <<main, entry, sel, cnt, perf, total, toCard>> /\ toOnu # <<>> /\ toOnu' = Tail(toOnu)
    BY <1>11 DEF Unheard, onu
  <2> QED BY <1>0, <2>1, SumsFewer2
<1>12. CASE Lose
  <2>1. /\ UNCHANGED <<main, entry, sel, cnt, perf, total>>
        /\ toOnu' = toOnu \/ (toOnu # <<>> /\ toOnu' = Tail(toOnu))
        /\ toCard' = toCard \/ (toCard # <<>> /\ toCard' = Tail(toCard))
    BY <1>12 DEF Lose, onu
  <2> QED BY <1>0, <2>1, SumsFewer2
<1>13. CASE SwitchOff
  <2>1. UNCHANGED <<main, entry, sel, cnt, perf, total, toCard, toOnu>> BY <1>13 DEF SwitchOff
  <2> QED BY <1>0, <2>1, SumsFewer2
<1>14. ASSUME NEW c \in Counters, Count(c) PROVE Sums' BY <1>0, <1>14, SumsCount
<1>15. CASE UNCHANGED vars
  <2>1. UNCHANGED <<main, entry, sel, cnt, perf, total, toCard, toOnu>> BY <1>15 DEF vars, onu, history
  <2> QED BY <1>0, <2>1, SumsFewer2
<1>16. CASE WriteFifo BY <1>0, <1>16, SumsWrite
<1> QED
  BY <1>1, <1>2, <1>3, <1>4, <1>5, <1>6, <1>7, <1>8, <1>9, <1>10, <1>11, <1>12, <1>13, <1>14, <1>15,
     <1>16
  DEF Next, Main, Fifo, Onu

LEMMA InitSums == ASSUME OnuFifoAssumption, Init PROVE SInv
<1>1. AInv BY InitTypes DEF AInv
<1>2. pc = "idle" /\ entry = None /\ toOnu = <<>> /\ toCard = <<>> BY DEF Init
<1>3. DOMAIN toOnu = {} /\ DOMAIN toCard = {} BY <1>2
<1>4. OwnIs /\ Echo BY <1>2, <1>3 DEF OwnIs, Echo, OwnLast, Heard
<1>5. OneCount /\ Selected /\ Unsent BY <1>2, <1>3 DEF OneCount, Selected, Unsent, Reading
<1>6. Even
  <2>1. /\ cnt = [c \in Counters |-> 0] /\ perf = [d \in {"rx", "tx"} |-> 0] /\ total = perf
    BY DEF Init
  <2>2. /\ cnt.rxlo = 0 /\ cnt.rxhi = 0 /\ cnt.txlo = 0 /\ cnt.txhi = 0
        /\ perf.rx = 0 /\ perf.tx = 0 /\ total.rx = 0 /\ total.tx = 0
    BY <2>1 DEF Counters
  <2> QED BY <2>2 DEF Even
<1>7. Counted BY <1>2, <1>6 DEF Counted, Reading
<1> QED BY <1>1, <1>4, <1>5, <1>7 DEF SInv, EInv, Sums

LEMMA SumsKept == ASSUME OnuFifoAssumption, SInv, [Next]_vars PROVE SInv'
<1>1. EInv BY DEF SInv
<1>2. TInv' BY <1>1, TypesStep DEF EInv, AInv
<1>3. WaitOK' /\ CleanOwn' BY <1>1, OwnStep DEF EInv
<1>4. OwnIs' /\ (tainted' \/ Echo') BY <1>1, EchoStep
<1>5. tainted' \/ Sums' BY SumsStep
<1> QED BY <1>2, <1>3, <1>4, <1>5 DEF SInv, EInv, AInv

\* What resetPortPerf and getPortPerf have added up, with what the counters of
\* the ONU still have, is what the ONU has counted, also when messages and
\* answers about other things are lost.
THEOREM NothingCountedTwiceHolds == ASSUME OnuFifoAssumption PROVE Spec => []NothingCountedTwice
<1>1. Init => SInv BY InitSums
<1>2. SInv /\ [Next]_vars => SInv' BY SumsKept
<1>3. SInv => NothingCountedTwice
  BY DEF SInv, Sums, Counted, Reading, Even, NothingCountedTwice, Quiet
<1> QED BY <1>1, <1>2, <1>3, PTL DEF Spec

----------------------------------------------------------------------------
(* Values. *)

Changes      == Sets \cup Ones \cup Others
\* Nothing but successful requests of the past has anything to do with field f.
Untouched(f) == f \notin spoilt /\ (pc # "idle" => f \notin Changes) /\ wanted[f] # Any
SetIn(S, f, w) == \E i \in S : \/ f \in Program(code, value)[i].set /\ w = value
                               \/ f \in Program(code, value)[i].one /\ w = 1
\* The messages of the request that have been carried out.
Sofar == CASE pc = "idle"  -> {}
           [] pc = "store" -> DOMAIN Program(code, value)
           [] OTHER        -> 1..(n - 1)
Cares(f, w) == (Untouched(f) /\ w = wanted[f]) \/ SetIn(Sofar, f, w)
Later(f, w) == (Untouched(f) /\ w = wanted[f]) \/ SetIn(1..n, f, w)

Sure == \A f \in Fields : \A w \in Bit : Cares(f, w) => Holds(f, w)
\* What will be written back is what was wanted.
GotTrue ==
  pc \in {"send", "wait"} => \A f \in DOMAIN Cmd.keep : Untouched(f) => got[Cmd.keep[f]] = wanted[f]
Ups == \E k \in DOMAIN toCard : toCard[k].type = "UP"
TablesKept ==
  /\ spoilt \cap Kept = {}
  /\ Ups \/ \A f \in Kept : db[f] # NoRow /\ wanted[f] # Any /\ (pc # "idle" => f \notin Sets) => wanted[f] = db[f]
Values == Sure /\ GotTrue /\ TablesKept

LEMMA SameCares ==
  ASSUME UNCHANGED <<pc, code, n, value, wanted, spoilt>>
  PROVE  /\ \A f, w : Cares(f, w)' = Cares(f, w) /\ Untouched(f)' = Untouched(f)
         /\ Sets' = Sets /\ Cmd' = Cmd
<1>1. Sets' = Sets /\ Ones' = Ones /\ Others' = Others /\ Sofar' = Sofar /\ Cmd' = Cmd
  BY DEF Sets, Ones, Others, Sofar, Cmd
<1>2. \A f : Untouched(f)' = Untouched(f) BY <1>1 DEF Untouched, Changes
<1>3. \A f, w : SetIn(Sofar, f, w)' = SetIn(Sofar, f, w) BY <1>1 DEF SetIn
<1> QED BY <1>1, <1>2, <1>3 DEF Cares

\* Only the ONU and the fibre change.
LEMMA ValuesMove ==
  ASSUME Values, UNCHANGED <<pc, code, n, value, got, wanted, spoilt, db>>, Ups => Ups',
         \A f \in Fields : \A w \in Bit : Cares(f, w) /\ Holds(f, w) => Holds(f, w)'
  PROVE  Values'
<1>1. /\ \A f, w : Cares(f, w)' = Cares(f, w) /\ Untouched(f)' = Untouched(f)
      /\ Sets' = Sets /\ Cmd' = Cmd
  BY SameCares
<1>2. Sure' BY <1>1 DEF Sure, Values
<1>3. GotTrue' BY <1>1 DEF GotTrue, Values
<1>4. TablesKept' BY <1>1 DEF TablesKept, Values
<1> QED BY <1>2, <1>3, <1>4 DEF Values

LEMMA SetsOf ==
  ASSUME TypeOK, pc # "idle"
  PROVE  /\ \A i \in DOMAIN Program(code, value) :
              /\ Program(code, value)[i].set \subseteq Sets /\ Program(code, value)[i].one \subseteq Ones
              /\ Program(code, value)[i].zero \subseteq Others
              /\ \A f \in DOMAIN Program(code, value)[i].keep : Program(code, value)[i].keep[f] # f => f \in Others
         /\ \A f \in Sets : \E i \in DOMAIN Program(code, value) : f \in Program(code, value)[i].set
         /\ \A f \in Ones : \E i \in DOMAIN Program(code, value) : f \in Program(code, value)[i].one
         /\ Kept \cap (Ones \cup Others) = {}
<1> DEFINE p == Program(code, value)
<1>1. \A i \in DOMAIN p : Fits(p[i]) BY CmdIs DEF Sound
<1>2. \A i \in DOMAIN p : p[i].set \subseteq Sets BY DEF Sets
<1>3. \A i \in DOMAIN p : p[i].one \subseteq Ones BY DEF Ones
<1>4. \A i \in DOMAIN p : p[i].zero \subseteq Others BY DEF Others
<1>5. \A i \in DOMAIN p : \A f \in DOMAIN p[i].keep : p[i].keep[f] # f => f \in Others BY DEF Others
<1>6. \A f \in Sets : \E i \in DOMAIN p : f \in p[i].set BY DEF Sets
<1>7. \A f \in Ones : \E i \in DOMAIN p : f \in p[i].one BY DEF Ones
<1>8. \A f \in Others : \E i \in DOMAIN p : f \in p[i].zero \/ f \in DOMAIN p[i].keep BY DEF Others
<1>9. Kept \cap (Ones \cup Others) = {}
  <2> SUFFICES ASSUME NEW f \in Kept, f \in Ones \/ f \in Others PROVE FALSE OBVIOUS
  <2>1. PICK i \in DOMAIN p : f \in p[i].one \/ f \in p[i].zero \/ f \in DOMAIN p[i].keep BY <1>7, <1>8
  <2>2. Fits(p[i]) BY <1>1
  <2> QED BY <2>1, <2>2 DEF Fits
<1> QED BY <1>2, <1>3, <1>4, <1>5, <1>6, <1>7, <1>9

\* A message of the request does not undo what is wanted.
LEMMA SendsWanted ==
  ASSUME TypeOK, pc \in {"send", "wait"}, GotTrue, NEW f \in Fields, NEW w \in Bit, Cares(f, w)
  PROVE  Sends(Request, f, w)
<1>1. /\ n \in DOMAIN Program(code, value) /\ Sound(Program(code, value)) /\ Cmd \in Message BY CmdIs
<1>2. Request.bits = Bits(Cmd) /\ DOMAIN Bits(Cmd) = Writes(Cmd) BY <1>1, RequestIs, BitsIs
<1> SUFFICES ASSUME f \in Writes(Cmd) PROVE Bits(Cmd)[f] = w BY <1>2 DEF Sends
<1>3. CASE Untouched(f) /\ w = wanted[f]
  <2>1. f \notin Sets /\ f \notin Ones /\ f \notin Others BY <1>3 DEF Untouched, Changes
  <2>2. f \notin Cmd.set /\ f \notin Cmd.one /\ f \notin Cmd.zero BY <1>1, <2>1, SetsOf DEF Cmd
  <2>3. f \in DOMAIN Cmd.keep BY <2>2 DEF Writes
  <2>4. Bits(Cmd)[f] = got[Cmd.keep[f]] BY <2>2, <2>3 DEF Bits
  <2> QED BY <1>3, <2>3, <2>4 DEF GotTrue
<1>4. CASE SetIn(Sofar, f, w)
  <2>1. Sofar = 1..(n - 1) BY DEF Sofar
  <2>2. PICK i \in 1..(n - 1) : f \in Program(code, value)[i].set \cup Program(code, value)[i].one BY <1>4, <2>1 DEF SetIn
  <2>3. n \in 1..9 /\ i < n /\ i \in DOMAIN Program(code, value)
    <3>1. Program(code, value) \in Seq(Message) /\ n \in 1..9 BY <1>1 DEF Sound, TypeOK
    <3> QED BY <1>1, <2>2, <3>1
  <2>4. (Program(code, value)[i].set \cup Program(code, value)[i].one) \cap Writes(Program(code, value)[n]) = {}
    BY <1>1, <2>3 DEF Sound
  <2> QED BY <2>2, <2>4 DEF Cmd
<1> QED BY <1>3, <1>4 DEF Cares

\* The request is over.
LEMMA DoneCares ==
  ASSUME TypeOK, pc # "idle", Done(TRUE), NEW f \in Fields, NEW w \in Bit, Cares(f, w)'
  PROVE  (Untouched(f) /\ w = wanted[f]) \/ SetIn(DOMAIN Program(code, value), f, w)
<1>1. /\ pc' = "idle" /\ spoilt' = (spoilt \ (Sets \cup Ones)) \cup Others
      /\ wanted'[f] = IF f \in Sets \cup Ones THEN IF f \in Sets THEN value ELSE 1 ELSE wanted[f]
  BY DEF Done
<1>2. ~SetIn(Sofar, f, w)' BY <1>1 DEF SetIn, Sofar
<1>3. f \notin spoilt' /\ wanted'[f] # Any /\ w = wanted'[f] BY <1>2 DEF Cares, Untouched
<1>4. f \notin Others BY <1>1, <1>3
<1>5. CASE f \in Sets
  <2>1. \E i \in DOMAIN Program(code, value) : f \in Program(code, value)[i].set BY <1>5, SetsOf
  <2>2. w = value BY <1>1, <1>3, <1>5
  <2> QED BY <2>1, <2>2 DEF SetIn
<1>6. CASE f \notin Sets /\ f \in Ones
  <2>1. \E i \in DOMAIN Program(code, value) : f \in Program(code, value)[i].one BY <1>6, SetsOf
  <2>2. w = 1 BY <1>1, <1>3, <1>6
  <2> QED BY <2>1, <2>2 DEF SetIn
<1>7. CASE f \notin Sets /\ f \notin Ones BY <1>1, <1>3, <1>4, <1>7 DEF Untouched, Changes
<1> QED BY <1>5, <1>6, <1>7

LEMMA FailCares ==
  ASSUME TypeOK, pc # "idle", Done(FALSE), NEW f \in Fields, NEW w \in Bit, Cares(f, w)'
  PROVE  Untouched(f) /\ w = wanted[f]
<1>1. /\ pc' = "idle" /\ spoilt' = (spoilt \ (Sets \cup Ones)) \cup Others
      /\ wanted'[f] = IF f \in Sets \cup Ones THEN Any ELSE wanted[f]
  BY DEF Done
<1>2. ~SetIn(Sofar, f, w)' BY <1>1 DEF SetIn, Sofar
<1>3. f \notin spoilt' /\ wanted'[f] # Any /\ w = wanted'[f] BY <1>2 DEF Cares, Untouched
<1> QED BY <1>1, <1>3 DEF Untouched, Changes

\* The message has been carried out, and the main thread goes on.
LEMMA AdvanceCares ==
  ASSUME TypeOK, pc \in {"send", "wait"}, Advance, NEW f \in Fields, NEW w \in Bit, Cares(f, w)'
  PROVE  Later(f, w)
<1> DEFINE p == Program(code, value)
<1>1. n \in DOMAIN p /\ Sound(p) /\ p \in Seq(Message) /\ n \in 1..9 BY CmdIs DEF Sound, TypeOK
<1>2. CASE Done(TRUE) /\ n < Len(p) /\ p[n + 1].may
  <2>1. n + 1 \in DOMAIN p BY <1>1, <1>2, ChangesIs
  <2>2. \A i \in DOMAIN p : Writes(p[i]) = {} BY <1>1, <1>2, <2>1 DEF Sound
  <2>3. ~SetIn(DOMAIN p, f, w) BY <2>2 DEF SetIn, Writes
  <2> QED BY <1>2, <2>3, DoneCares DEF Later
<1>3. CASE Done(TRUE) /\ ~(n < Len(p))
  <2>1. DOMAIN p = 1..n BY <1>1, <1>3
  <2> QED BY <1>3, <2>1, DoneCares DEF Later
<1>4. CASE pc' = "send" /\ n' = n + 1 /\ UNCHANGED <<code, value, wanted, spoilt>>
  <2>1. Sofar' = 1..n
    <3>1. Sofar' = 1..(n' - 1)
      <4>1. pc' # "idle" /\ pc' # "store" BY <1>4
      <4> QED BY ONLY <4>1 DEF Sofar
    <3>2. n' - 1 = n BY <1>1, <1>4
    <3> QED BY <3>1, <3>2
  <2>2. Untouched(f)' = Untouched(f) BY <1>4 DEF Untouched, Changes, Sets, Ones, Others
  <2>3. SetIn(Sofar, f, w)' = SetIn(1..n, f, w) BY <1>4, <2>1 DEF SetIn
  <2> QED BY <1>4, <2>2, <2>3 DEF Cares, Later
<1>5. CASE ~(n < Len(p)) /\ pc' = "store" /\ UNCHANGED <<code, value, wanted, spoilt>>
  <2>1. Sofar' = 1..n
    <3>1. Sofar' = DOMAIN p BY <1>5 DEF Sofar
    <3>2. DOMAIN p = 1..n BY <1>1, <1>5
    <3> QED BY <3>1, <3>2
  <2>2. Untouched(f)' = Untouched(f) BY <1>5 DEF Untouched, Changes, Sets, Ones, Others
  <2>3. SetIn(Sofar, f, w)' = SetIn(1..n, f, w) BY <1>5, <2>1 DEF SetIn
  <2> QED BY <1>5, <2>2, <2>3 DEF Cares, Later
<1>6. \/ Done(TRUE) /\ n < Len(p) /\ p[n + 1].may
      \/ Done(TRUE) /\ ~(n < Len(p))
      \/ pc' = "send" /\ n' = n + 1 /\ UNCHANGED <<code, value, wanted, spoilt>>
      \/ ~(n < Len(p)) /\ pc' = "store" /\ UNCHANGED <<code, value, wanted, spoilt>>
  BY Zenon DEF Advance
<1> QED BY <1>2, <1>3, <1>4, <1>5, <1>6

LEMMA LaterIs ==
  ASSUME TypeOK, pc \in {"send", "wait"}, NEW f, NEW w, Later(f, w)
  PROVE  Cares(f, w) \/ SetIn({n}, f, w)
<1>1. Sofar = 1..(n - 1) BY DEF Sofar
<1>2. 1..n = 1..(n - 1) \cup {n} BY DEF TypeOK
<1> QED BY <1>1, <1>2 DEF Later, Cares, SetIn

LEMMA TablesDone ==
  ASSUME TypeOK, pc # "idle", TablesKept, NEW ok \in BOOLEAN, Done(ok), Ups => Ups',
         \A f \in Kept : IF ok /\ f \in Sets THEN db'[f] = value ELSE db'[f] = db[f]
  PROVE  TablesKept'
<1>1. /\ pc' = "idle" /\ spoilt' = (spoilt \ (Sets \cup Ones)) \cup Others
      /\ wanted' = [f \in Fields |-> IF f \in Sets \cup Ones
                                     THEN IF ~ok THEN Any ELSE IF f \in Sets THEN value ELSE 1
                                     ELSE wanted[f]]
  BY DEF Done
<1>2. Kept \cap (Ones \cup Others) = {} BY SetsOf
<1>3. spoilt' \cap Kept = {} BY <1>1, <1>2 DEF TablesKept
<1>4. ASSUME ~Ups', NEW f \in Kept, db'[f] # NoRow, wanted'[f] # Any PROVE wanted'[f] = db'[f]
  <2>0. f \in Fields BY DEF Kept, Fields
  <2>1. CASE f \in Sets /\ ok BY <1>1, <1>4, <2>0, <2>1
  <2>2. CASE f \in Sets /\ ~ok BY <1>1, <1>4, <2>0, <2>2
  <2>3. CASE f \notin Sets
    <3>1. wanted'[f] = wanted[f] /\ db'[f] = db[f] BY <1>1, <1>2, <2>0, <2>3
    <3> QED BY <1>4, <2>3, <3>1 DEF TablesKept
  <2> QED BY <2>1, <2>2, <2>3
<1> QED BY <1>1, <1>3, <1>4 DEF TablesKept

LEMMA AdvanceTables ==
  ASSUME TypeOK, pc \in {"send", "wait"}, TablesKept, Advance, db' = db, Ups => Ups'
  PROVE  TablesKept'
<1> DEFINE p == Program(code, value)
<1>1. n \in DOMAIN p /\ Sound(p) BY CmdIs
<1>2. CASE Done(TRUE)
  <2>1. Sets \cap Kept = {}
    <3>1. CASE n < Len(p) /\ p[n + 1].may
      <4>1. n + 1 \in DOMAIN p BY <1>1, <3>1, ChangesIs
      <4>2. \A i \in DOMAIN p : Writes(p[i]) = {} BY <1>1, <3>1, <4>1 DEF Sound
      <4> QED BY <4>2 DEF Sets, Writes
    <3>2. CASE n < Len(p) /\ ~p[n + 1].may
      <4>1. pc' = "send" BY <3>2 DEF Advance
      <4> QED BY <1>2, <4>1 DEF Done
    <3>3. CASE ~(n < Len(p)) /\ Sets \cap Kept # {}
      <4>1. pc' = "store" BY <3>3 DEF Advance
      <4> QED BY <1>2, <4>1 DEF Done
    <3> QED BY <3>1, <3>2, <3>3
  <2> QED BY <1>2, <2>1, TablesDone
<1>3. CASE pc' \in {"send", "store"} /\ UNCHANGED <<code, value, wanted, spoilt>>
  <2>1. Sets' = Sets /\ pc' # "idle" BY <1>3 DEF Sets
  <2> QED BY <1>3, <2>1 DEF TablesKept
<1>4. Done(TRUE) \/ (pc' \in {"send", "store"} /\ UNCHANGED <<code, value, wanted, spoilt>>) BY Zenon DEF Advance
<1> QED BY <1>2, <1>3, <1>4, Zenon

LEMMA BecomesAgain ==
  ASSUME NEW f, NEW w, toOnu' = toOnu, reg' = reg, Holds(f, w)
  PROVE  Holds(f, w)'
  BY DEF Holds

LEMMA OldUps == ASSUME Flow, toCard' = Old(toCard) PROVE Ups => Ups'
  BY OldReplies DEF Flow, Ups

LEMMA FewerUps ==
  ASSUME Flow, toCard # <<>>, toCard' = Tail(toCard), Head(toCard).type # "UP"
  PROVE  Ups => Ups'
<1>1. /\ Head(toCard) = toCard[1]
      /\ \A i \in DOMAIN toCard : i # 1 => i - 1 \in DOMAIN toCard' /\ toCard'[i - 1] = toCard[i]
  BY TailOf DEF Flow
<1> SUFFICES ASSUME NEW k \in DOMAIN toCard, toCard[k].type = "UP" PROVE Ups' BY DEF Ups
<1>2. k # 1 BY <1>1
<1>3. k - 1 \in DOMAIN toCard' /\ toCard'[k - 1] = toCard[k] BY <1>1, <1>2
<1>4. PICK j \in DOMAIN toCard' : toCard'[j] = toCard[k] BY <1>3
<1> QED BY <1>4 DEF Ups

LEMMA ValuesCall == ASSUME OnuFifoAssumption, EInv, Values, NEW v \in Bit, Call(v) PROVE Values'
<1>0. TypeOK BY DEF EInv, AInv, TInv
<1>1. /\ pc = "idle" /\ pc' = "send" /\ code' = Head(script) /\ n' = 1
      /\ toOnu' = toOnu /\ reg' = reg /\ UNCHANGED <<toCard, db, wanted, spoilt>>
  BY DEF Call, onu
<1>2. code' \in Codes BY <1>0, <1>1, TailOf DEF Call, TypeOK
<1>3. DOMAIN Cmd'.keep = {}
  <2>1. Sound(Program(code', value')) BY <1>2, ProgramSound
  <2>2. DOMAIN Program(code', value')[1].keep = {} BY <2>1 DEF Sound
  <2> QED BY <1>1, <2>2 DEF Cmd
<1>4. Sofar' = {}
  <2>1. Sofar' = 1..(n' - 1)
    <3>1. pc' # "idle" /\ pc' # "store" BY <1>1
    <3> QED BY ONLY <3>1 DEF Sofar
  <2> QED BY <1>1, <2>1
<1>5. ASSUME NEW f \in Fields, NEW w \in Bit, Cares(f, w)' PROVE Holds(f, w)'
  <2>1. ~SetIn(Sofar, f, w)' BY <1>4 DEF SetIn
  <2>2. Cares(f, w) BY <1>1, <1>5, <2>1 DEF Cares, Untouched
  <2>3. Holds(f, w) BY <2>2 DEF Values, Sure
  <2> QED BY <1>1, <2>3, BecomesAgain
<1>6. Sure' BY <1>5 DEF Sure
<1>7. GotTrue' BY <1>3 DEF GotTrue
<1>8. TablesKept' BY <1>1 DEF TablesKept, Values, Ups
<1> QED BY <1>6, <1>7, <1>8 DEF Values

\* A message nobody waits for is on its way, and will be carried out.
LEMMA OnceSent ==
  ASSUME TypeOK, Flow, pc = "send", ~Cmd.wait, toOnu' = Append(toOnu, Request), reg' = reg,
         NEW f \in Fields, NEW w \in Bit, SetIn({n}, f, w)
  PROVE  Holds(f, w)'
<1>1. Cmd \in Message /\ Fits(Cmd) BY CmdIs
<1>2. /\ Request \in Order /\ Request.tag = "once" /\ Request.bits = Bits(Cmd)
      /\ DOMAIN Bits(Cmd) = Writes(Cmd)
  BY <1>1, RequestIs, BitsIs
<1>3. (f \in Cmd.set /\ w = value) \/ (f \in Cmd.one /\ w = 1) BY DEF SetIn, Cmd
<1>4. f \in Writes(Cmd) BY <1>3 DEF Writes
<1>5. Bits(Cmd)[f] = w BY <1>1, <1>3, <1>4 DEF Bits, Fits, Writes
<1>6. Becomes(Append(toOnu, Request), reg, f, w) BY <1>2, <1>4, <1>5, BecomesOnce DEF Flow
<1> QED BY <1>6 DEF Holds

LEMMA ValuesSend == ASSUME EInv, Values, Send PROVE Values'
<1>0. TypeOK /\ Flow BY DEF EInv, AInv, TInv
<1>1. pc = "send" /\ reg' = reg /\ UNCHANGED <<toCard, db>> BY DEF Send, onu
<1>2. Request \in Order BY <1>0, <1>1, RequestIs
<1>3. Ups' = Ups BY <1>1 DEF Ups
<1>4. CASE Cmd.wait
  <2>1. pc' = "wait" /\ UNCHANGED <<code, value, n, got, toOnu, wanted, spoilt>> BY <1>4 DEF Send
  <2>2. Sofar' = Sofar
    <3>1. pc # "idle" /\ pc # "store" /\ pc' # "idle" /\ pc' # "store" BY <1>1, <2>1
    <3>2. n' = n BY <2>1
    <3> QED BY ONLY <3>1, <3>2 DEF Sofar
  <2>3. Sets' = Sets /\ Changes' = Changes /\ Cmd' = Cmd BY <2>1 DEF Sets, Changes, Ones, Others, Cmd
  <2>4. \A f : Untouched(f)' = Untouched(f) BY <1>1, <2>1, <2>3 DEF Untouched
  <2>5. \A f, w : SetIn(Sofar, f, w)' = SetIn(Sofar, f, w) BY <2>1, <2>2 DEF SetIn
  <2>6. \A f, w : Cares(f, w)' = Cares(f, w) BY <2>1, <2>4, <2>5 DEF Cares
  <2>7. \A f, w : Holds(f, w) => Holds(f, w)' BY <1>1, <2>1, BecomesAgain
  <2>8. Sure' BY <2>6, <2>7 DEF Sure, Values
  <2>9. GotTrue' BY <1>1, <2>1, <2>3, <2>4 DEF GotTrue, Values
  <2>10. TablesKept' BY <1>1, <1>3, <2>1, <2>3 DEF TablesKept, Values
  <2> QED BY <2>8, <2>9, <2>10 DEF Values
<1>5. CASE ~Cmd.wait /\ toOnu' = Append(toOnu, Request) /\ Advance
  <2>1. ASSUME NEW f \in Fields, NEW w \in Bit, Cares(f, w) PROVE Holds(f, w)'
    <3>1. Holds(f, w) BY <2>1 DEF Values, Sure
    <3>2. Sends(Request, f, w) BY <1>0, <1>1, <2>1, SendsWanted DEF Values
    <3>3. Becomes(Append(toOnu, Request), reg, f, w) BY <1>0, <1>2, <3>1, <3>2, BecomesAppend DEF Holds, Flow
    <3> QED BY <1>1, <1>5, <3>3 DEF Holds
  <2>2. ASSUME NEW f \in Fields, NEW w \in Bit, Cares(f, w)' PROVE Holds(f, w)'
    <3>1. Later(f, w) BY <1>0, <1>1, <1>5, <2>2, AdvanceCares
    <3>2. CASE Cares(f, w) BY <2>1, <3>2
    <3>3. CASE SetIn({n}, f, w) BY <1>0, <1>1, <1>5, <3>3, OnceSent
    <3> QED BY <1>0, <1>1, <3>1, <3>2, <3>3, LaterIs
  <2>3. Sure' BY <2>2 DEF Sure
  <2>4. TablesKept' BY <1>0, <1>1, <1>3, <1>5, AdvanceTables DEF Values
  <2>5. GotTrue'
    <3>1. CASE pc' = "send"
      <4>1. /\ code' = code /\ value' = value
            /\ Goes(Program(code, value), n) /\ Cmd' = Program(code, value)[n + 1]
            /\ n + 1 \in DOMAIN Program(code, value)
        BY <1>0, <1>1, <1>5, <3>1, AdvanceTo
      <4>2. \A f \in DOMAIN Cmd'.keep : Cmd'.keep[f] # f BY <1>5, <4>1 DEF Goes, Cmd
      <4>3. \A f \in DOMAIN Cmd'.keep : f \in Others BY <1>0, <1>1, <4>1, <4>2, SetsOf
      <4>4. Others' = Others BY <4>1 DEF Others
      <4>5. \A f \in DOMAIN Cmd'.keep : ~Untouched(f)' BY <3>1, <4>3, <4>4 DEF Untouched, Changes
      <4> QED BY <4>5 DEF GotTrue
    <3>2. CASE pc' # "send"
      <4>1. pc' # "wait" BY <1>0, <1>1, <1>5, AdvancePlace
      <4> QED BY <3>2, <4>1 DEF GotTrue
    <3> QED BY <3>1, <3>2
  <2> QED BY <2>3, <2>4, <2>5 DEF Values
<1>6. CASE toOnu' = toOnu /\ Done(FALSE)
  <2>1. ASSUME NEW f \in Fields, NEW w \in Bit, Cares(f, w)' PROVE Holds(f, w)'
    <3>1. Cares(f, w) BY <1>0, <1>1, <1>6, <2>1, FailCares DEF Cares
    <3>2. Holds(f, w) BY <3>1 DEF Values, Sure
    <3> QED BY <1>1, <1>6, <3>2, BecomesAgain
  <2>2. Sure' BY <2>1 DEF Sure
  <2>3. pc' = "idle" BY <1>6 DEF Done
  <2>4. GotTrue' BY <2>3 DEF GotTrue
  <2>5. TablesKept' BY <1>0, <1>1, <1>3, <1>6, TablesDone DEF Values
  <2> QED BY <2>2, <2>4, <2>5 DEF Values
<1>7. ~Cmd.wait => (toOnu' = Append(toOnu, Request) /\ Advance) \/ (UNCHANGED toOnu /\ Done(FALSE))
  BY Zenon DEF Send
<1> QED BY <1>4, <1>5, <1>6, <1>7, Zenon

LEMMA ValuesWrite == ASSUME EInv, Values, WriteFifo PROVE Values'
<1>0. TypeOK /\ Flow BY DEF EInv, AInv, TInv
<1>1. /\ pc = "wait" /\ toOnu' = Append(toOnu, Request) /\ reg' = reg /\ toCard' = toCard
      /\ UNCHANGED <<pc, code, n, value, got, wanted, spoilt, db>>
  BY DEF WriteFifo, onu, history
<1>2. Request \in Order BY <1>0, <1>1, RequestIs
<1>3. ASSUME NEW f \in Fields, NEW w \in Bit, Cares(f, w), Holds(f, w) PROVE Holds(f, w)'
  <2>1. Sends(Request, f, w) BY <1>0, <1>1, <1>3, SendsWanted DEF Values
  <2>2. Becomes(Append(toOnu, Request), reg, f, w) BY <1>0, <1>2, <1>3, <2>1, BecomesAppend DEF Holds, Flow
  <2> QED BY <1>1, <2>2 DEF Holds
<1>4. Ups => Ups' BY <1>1 DEF Ups
<1> QED BY <1>1, <1>3, <1>4, ValuesMove

\* The answer is its own: the message has been carried out.
LEMMA TakenHolds ==
  ASSUME EInv, pc = "wait", AllDone, toOnu' = Old(toOnu), reg' = reg,
         NEW f \in Fields, NEW w \in Bit, SetIn({n}, f, w)
  PROVE  Holds(f, w)'
<1>0. TypeOK /\ Flow BY DEF EInv, AInv, TInv
<1>1. Cmd \in Message /\ Fits(Cmd) BY <1>0, CmdIs
<1>2. Request.bits = Bits(Cmd) BY <1>0, RequestIs
<1>3. (f \in Cmd.set /\ w = value) \/ (f \in Cmd.one /\ w = 1) BY DEF SetIn, Cmd
<1>4. f \in Writes(Cmd) BY <1>3 DEF Writes
<1>5. Bits(Cmd)[f] = w BY <1>1, <1>3, <1>4 DEF Bits, Fits, Writes
<1>6. reg[f] = w BY <1>4, <1>5 DEF AllDone
<1>7. \A i \in DOMAIN toOnu : Sends(toOnu[i], f, w)
  <2>1. \A i \in DOMAIN toOnu : toOnu[i] = Request BY DEF AllDone, EInv, OwnIs
  <2> QED BY <1>2, <1>5, <2>1 DEF Sends
<1>8. Becomes(toOnu, reg, f, w) BY <1>6, <1>7 DEF Becomes
<1>9. Becomes(Old(toOnu), reg, f, w) BY <1>0, <1>8, BecomesOld DEF Flow
<1> QED BY <1>9 DEF Holds

LEMMA ValuesTake == ASSUME EInv, Echo, Values, Take, ~tainted' PROVE Values'
<1>0. TypeOK /\ Flow /\ TInv BY DEF EInv, AInv, TInv
<1>1. /\ pc = "wait" /\ entry # None /\ toOnu' = Old(toOnu) /\ toCard' = Old(toCard)
      /\ IsOwn(entry) /\ reg' = reg /\ db' = db
      /\ IF Cmd.sum = "none" \/ entry.valid THEN Advance
         ELSE IF again THEN Done(FALSE)
         ELSE pc' = "send" /\ again' = TRUE /\ UNCHANGED <<code, value, n, wanted, spoilt>>
      /\ \E v \in Bit :
           got' = [f \in Fields |->
                    IF pc' = "idle" THEN 0
                    ELSE IF entry.tag # "own" /\ f \in Cmd.get THEN v
                    ELSE IF f \in DOMAIN entry.bits /\ entry.tag = "own" THEN entry.bits[f]
                    ELSE got[f]]
  BY DEF Take, IsOwn, onu
<1>2. AllDone BY <1>1 DEF Heard, Echo
<1>3. Ups => Ups' BY <1>0, <1>1, OldUps
<1>4. ASSUME NEW f \in Fields, NEW w \in Bit, Cares(f, w) PROVE Holds(f, w)'
  <2>1. Holds(f, w) BY <1>4 DEF Values, Sure
  <2>2. Becomes(Old(toOnu), reg, f, w) BY <1>0, <2>1, BecomesOld DEF Holds, Flow
  <2> QED BY <1>1, <2>2 DEF Holds
<1>5. CASE Advance
  <2>2. ASSUME NEW f \in Fields, NEW w \in Bit, Cares(f, w)' PROVE Holds(f, w)'
    <3>1. Later(f, w) BY <1>0, <1>1, <1>5, <2>2, AdvanceCares
    <3>2. CASE Cares(f, w) BY <1>4, <3>2
    <3>3. CASE SetIn({n}, f, w) BY <1>1, <1>2, <3>3, TakenHolds
    <3> QED BY <1>0, <1>1, <3>1, <3>2, <3>3, LaterIs
  <2>3. Sure' BY <2>2 DEF Sure
  <2>4. TablesKept' BY <1>0, <1>1, <1>3, <1>5, AdvanceTables DEF Values
  <2>5. GotTrue'
    <3>1. CASE pc' = "send"
      <4>1. /\ code' = code /\ value' = value
            /\ Goes(Program(code, value), n) /\ Cmd' = Program(code, value)[n + 1]
            /\ wanted' = wanted /\ spoilt' = spoilt /\ n + 1 \in DOMAIN Program(code, value)
        BY <1>0, <1>1, <1>5, <3>1, AdvanceTo
      <4> SUFFICES ASSUME NEW f \in DOMAIN Cmd'.keep, Untouched(f)' PROVE got'[Cmd'.keep[f]] = wanted'[f]
        BY DEF GotTrue
      <4>2. Others' = Others /\ Changes' = Changes BY <4>1 DEF Others, Changes, Sets, Ones
      <4>3. Untouched(f) /\ f \notin Others BY <1>1, <3>1, <4>1, <4>2 DEF Untouched, Changes
      <4>4. Cmd'.keep[f] = f BY <1>0, <1>1, <4>1, <4>3, SetsOf
      <4>5. f \in Cmd.get BY <4>1, <4>4 DEF Goes, Cmd
      <4>6. f \in Fields /\ DOMAIN entry.bits = Cmd.get /\ entry.bits[f] = reg[f]
        <5>1. Cmd \in Message BY <1>0, <1>1, CmdIs
        <5>2. f \in Fields BY <4>5, <5>1 DEF Message
        <5>3. DOMAIN entry.bits = Cmd.get BY <1>1 DEF EInv, OwnIs
        <5>4. entry.bits[f] = reg[f] BY <1>1, <1>2, <4>5 DEF AllDone
        <5> QED BY <5>2, <5>3, <5>4
      <4>7. got'[f] = reg[f] BY <1>1, <3>1, <4>5, <4>6 DEF IsOwn
      <4>8. reg[f] = wanted[f]
        <5>1. wanted[f] \in Bit BY <1>0, <4>3, <4>6 DEF Untouched, TypeOK
        <5>2. Holds(f, wanted[f]) BY <4>3, <4>6, <5>1 DEF Values, Sure, Cares
        <5>3. \A i \in DOMAIN toOnu : toOnu[i].tag # "once" BY <1>2 DEF AllDone, IsOwn
        <5> QED BY <5>2, <5>3 DEF Holds, Becomes
      <4> QED BY <4>1, <4>4, <4>7, <4>8
    <3>2. CASE pc' # "send"
      <4>1. pc' # "wait" BY <1>0, <1>1, <1>5, AdvancePlace
      <4> QED BY <3>2, <4>1 DEF GotTrue
    <3> QED BY <3>1, <3>2
  <2> QED BY <2>3, <2>4, <2>5 DEF Values
<1>6. CASE Done(FALSE)
  <2>1. ASSUME NEW f \in Fields, NEW w \in Bit, Cares(f, w)' PROVE Holds(f, w)'
    <3>1. Cares(f, w) BY <1>0, <1>1, <1>6, <2>1, FailCares DEF Cares
    <3> QED BY <1>4, <3>1
  <2>2. Sure' BY <2>1 DEF Sure
  <2>3. pc' = "idle" BY <1>6 DEF Done
  <2>4. GotTrue' BY <2>3 DEF GotTrue
  <2>5. TablesKept' BY <1>0, <1>1, <1>3, <1>6, TablesDone DEF Values
  <2> QED BY <2>2, <2>4, <2>5 DEF Values
<1>7. CASE ~(Cmd.sum = "none" \/ entry.valid) /\ pc' = "send" /\ UNCHANGED <<code, value, n, wanted, spoilt>>
  <2>1. Sofar' = Sofar
    <3>1. pc # "idle" /\ pc # "store" /\ pc' # "idle" /\ pc' # "store" BY <1>1, <1>7
    <3>2. n' = n BY <1>7
    <3> QED BY ONLY <3>1, <3>2 DEF Sofar
  <2>2. Sets' = Sets /\ Changes' = Changes /\ Cmd' = Cmd BY <1>7 DEF Sets, Changes, Ones, Others, Cmd
  <2>3. \A f : Untouched(f)' = Untouched(f) BY <1>1, <1>7, <2>2 DEF Untouched
  <2>4. \A f, w : SetIn(Sofar, f, w)' = SetIn(Sofar, f, w) BY <1>7, <2>1 DEF SetIn
  <2>5. \A f, w : Cares(f, w)' = Cares(f, w) BY <1>7, <2>3, <2>4 DEF Cares
  <2>6. Sure' BY <1>4, <2>5 DEF Sure
  <2>7. Writes(Cmd) = {}
    <3>1. Fits(Cmd) BY <1>0, <1>1, CmdIs
    <3> QED BY <1>7, <3>1 DEF Fits
  <2>8. GotTrue' BY <2>2, <2>7 DEF GotTrue, Writes
  <2>9. TablesKept' BY <1>1, <1>3, <1>7, <2>2 DEF TablesKept, Values
  <2> QED BY <2>6, <2>8, <2>9 DEF Values
<1> QED BY <1>1, <1>5, <1>6, <1>7

LEMMA ValuesTimeout == ASSUME EInv, Values, Timeout PROVE Values'
<1>0. TypeOK /\ Flow /\ TInv BY DEF EInv, AInv, TInv
<1>1. pc = "wait" /\ reg' = reg /\ db' = db BY DEF Timeout, onu
<1>2. CASE tries < MaxRetry - 1
  <2>1. UNCHANGED <<pc, code, n, value, got, wanted, spoilt, toCard, toOnu>> BY <1>2 DEF Timeout
  <2>2. \A f, w : Holds(f, w) => Holds(f, w)' BY <1>1, <2>1, BecomesAgain
  <2>3. Ups => Ups' BY <2>1 DEF Ups
  <2> QED BY <1>1, <2>1, <2>2, <2>3, ValuesMove
<1>3. CASE ~(tries < MaxRetry - 1)
  <2>1. /\ toOnu' = Old(toOnu) /\ toCard' = Old(toCard) /\ (IF Cmd.go THEN Advance ELSE Done(FALSE))
    BY <1>3 DEF Timeout
  <2>2. Ups => Ups' BY <1>0, <2>1, OldUps
  <2>3. ASSUME NEW f \in Fields, NEW w \in Bit, Cares(f, w) PROVE Holds(f, w)'
    <3>1. Holds(f, w) BY <2>3 DEF Values, Sure
    <3>2. Becomes(Old(toOnu), reg, f, w) BY <1>0, <3>1, BecomesOld DEF Holds, Flow
    <3> QED BY <1>1, <2>1, <3>2 DEF Holds
  <2>4. CASE Cmd.go
    <3>1. Advance BY <2>1, <2>4
    <3>2. \A i \in DOMAIN Program(code, value) : Writes(Program(code, value)[i]) = {}
      <4>1. n \in DOMAIN Program(code, value) /\ Sound(Program(code, value)) BY <1>0, <1>1, CmdIs
      <4> QED BY <2>4, <4>1 DEF Sound, Cmd
    <3>3. ASSUME NEW f \in Fields, NEW w \in Bit, Cares(f, w)' PROVE Holds(f, w)'
      <4>1. Later(f, w) BY <1>0, <1>1, <3>1, <3>3, AdvanceCares
      <4>2. n \in DOMAIN Program(code, value) BY <1>0, <1>1, CmdIs
      <4>3. ~SetIn({n}, f, w) BY <3>2, <4>2 DEF SetIn, Writes
      <4>4. Cares(f, w) BY <1>0, <1>1, <4>1, <4>3, LaterIs
      <4> QED BY <2>3, <4>4
    <3>4. Sure' BY <3>3 DEF Sure
    <3>5. TablesKept' BY <1>0, <1>1, <2>2, <3>1, AdvanceTables DEF Values
    <3>6. GotTrue'
      <4>1. CASE pc' = "send"
        <5>1. Cmd' = Program(code, value)[n + 1] /\ n + 1 \in DOMAIN Program(code, value)
          BY <1>0, <1>1, <3>1, <4>1, AdvanceTo
        <5>2. DOMAIN Cmd'.keep = {} BY <3>2, <5>1 DEF Writes
        <5> QED BY <5>2 DEF GotTrue
      <4>2. CASE pc' # "send"
        <5>1. pc' # "wait" BY <1>0, <1>1, <3>1, AdvancePlace
        <5> QED BY <4>2, <5>1 DEF GotTrue
      <4> QED BY <4>1, <4>2
    <3> QED BY <3>4, <3>5, <3>6 DEF Values
  <2>5. CASE ~Cmd.go
    <3>0. Done(FALSE) BY <2>1, <2>5
    <3>1. ASSUME NEW f \in Fields, NEW w \in Bit, Cares(f, w)' PROVE Holds(f, w)'
      <4>1. Cares(f, w) BY <1>0, <1>1, <3>0, <3>1, FailCares DEF Cares
      <4> QED BY <2>3, <4>1
    <3>2. Sure' BY <3>1 DEF Sure
    <3>3. pc' = "idle" BY <3>0 DEF Done
    <3>4. GotTrue' BY <3>3 DEF GotTrue
    <3>5. TablesKept' BY <1>0, <1>1, <2>2, <3>0, TablesDone DEF Values
    <3> QED BY <3>2, <3>4, <3>5 DEF Values
  <2> QED BY <2>4, <2>5
<1> QED BY <1>2, <1>3

LEMMA ValuesStore == ASSUME EInv, Values, NEW ok \in BOOLEAN, Store(ok), ~tainted' PROVE Values'
<1>0. TypeOK BY DEF EInv, AInv, TInv
<1>1. ok
  <2>1. ~ok => tainted' = TRUE BY Zenon DEF Store
  <2> QED BY <2>1
<1>2. /\ pc = "store" /\ db' = [f \in Kept |-> IF f \in Sets THEN value ELSE db[f]] /\ Done(TRUE)
      /\ toOnu' = toOnu /\ toCard' = toCard /\ reg' = reg
  BY <1>1 DEF Store, onu
<1>3. ASSUME NEW f \in Fields, NEW w \in Bit, Cares(f, w)' PROVE Holds(f, w)'
  <2>1. (Untouched(f) /\ w = wanted[f]) \/ SetIn(DOMAIN Program(code, value), f, w) BY <1>0, <1>2, <1>3, DoneCares
  <2>2. Sofar = DOMAIN Program(code, value) BY <1>2 DEF Sofar
  <2>3. Holds(f, w) BY <2>1, <2>2 DEF Cares, Values, Sure
  <2> QED BY <1>2, <2>3, BecomesAgain
<1>4. Sure' BY <1>3 DEF Sure
<1>5. pc' = "idle" BY <1>2 DEF Done
<1>6. GotTrue' BY <1>5 DEF GotTrue
<1>7. Ups' = Ups BY <1>2 DEF Ups
<1>8. TablesKept' BY <1>0, <1>2, <1>7, TablesDone DEF Values
<1> QED BY <1>4, <1>6, <1>8 DEF Values

LEMMA ValuesDeliver == ASSUME EInv, Values, Deliver PROVE Values'
<1>0. Flow BY DEF EInv, AInv, TInv
<1>1. /\ toCard # <<>> /\ Head(toCard).type # "UP" /\ toCard' = Tail(toCard)
      /\ UNCHANGED <<pc, code, n, value, got, wanted, spoilt, db>> /\ toOnu' = toOnu /\ reg' = reg
  BY DEF Deliver, main, onu, history
<1>2. Ups => Ups' BY <1>0, <1>1, FewerUps
<1>3. ASSUME NEW f \in Fields, NEW w \in Bit, Holds(f, w) PROVE Holds(f, w)' BY <1>1, <1>3, BecomesAgain
<1> QED BY <1>1, <1>2, <1>3, ValuesMove

LEMMA ValuesRestore == ASSUME EInv, Values, Restore, ~tainted' PROVE Values'
<1>0. TypeOK /\ Flow /\ TInv BY DEF EInv, AInv, TInv
<1>1. /\ pc = "idle" /\ pc' = pc /\ reg' = reg /\ db' = db /\ spoilt' = spoilt
      /\ wanted' = [f \in Fields |-> IF f \in Kept /\ db[f] # NoRow THEN db[f] ELSE wanted[f]]
  BY DEF Restore, main, onu
<1>2. /\ \A i \in DOMAIN toOnu : i \in DOMAIN toOnu' /\ toOnu'[i] = toOnu[i]
      /\ \A i \in DOMAIN toOnu' :
           \/ i \in DOMAIN toOnu /\ toOnu'[i] = toOnu[i]
           \/ i \notin DOMAIN toOnu /\ i > Len(toOnu) /\ \E f \in Kept : db[f] # NoRow /\ toOnu'[i] = Stored(f)
      /\ \A f \in Kept : db[f] # NoRow =>
           \E i \in DOMAIN toOnu' : i \notin DOMAIN toOnu /\ i > Len(toOnu) /\ toOnu'[i] = Stored(f)
  BY <1>0, RestoreDoes
<1>3. \A f \in Kept : db[f] # NoRow =>
        Stored(f).tag = "once" /\ DOMAIN Stored(f).bits = {f} /\ Stored(f).bits[f] = db[f]
  BY <1>0, StoredIs
<1>4. ASSUME NEW f \in Fields, NEW w \in Bit, Cares(f, w)' PROVE Holds(f, w)'
  <2>0. ~SetIn(Sofar, f, w)' BY <1>1 DEF SetIn, Sofar
  <2>1. f \notin spoilt /\ wanted'[f] # Any /\ w = wanted'[f] BY <1>1, <1>4, <2>0 DEF Cares, Untouched
  <2>2. CASE f \in Kept /\ db[f] # NoRow
    <3>1. w = db[f] BY <1>1, <2>1, <2>2
    <3>2. PICK i \in DOMAIN toOnu' : i \notin DOMAIN toOnu /\ i > Len(toOnu) /\ toOnu'[i] = Stored(f)
      BY <1>2, <2>2
    <3>3. ASSUME NEW j \in DOMAIN toOnu', j >= i PROVE Sends(toOnu'[j], f, w)
      <4>1. j \notin DOMAIN toOnu
        <5>1. Len(toOnu) \in Nat /\ DOMAIN toOnu = 1..Len(toOnu) /\ i \in Nat /\ j \in Nat
          <6>1. toOnu' \in Seq(Order) BY <1>0, RestoreTypes DEF TInv, Flow
          <6> QED BY <1>0, <6>1 DEF Flow
        <5> QED BY <3>2, <3>3, <5>1
      <4>2. PICK g \in Kept : db[g] # NoRow /\ toOnu'[j] = Stored(g) BY <1>2, <4>1
      <4> QED BY <1>3, <3>1, <4>2 DEF Sends
    <3>4. toOnu'[i].tag = "once" /\ f \in DOMAIN toOnu'[i].bits BY <1>3, <2>2, <3>2
    <3> QED BY <3>3, <3>4 DEF Holds, Becomes
  <2>3. CASE ~(f \in Kept /\ db[f] # NoRow)
    <3>1. w = wanted[f] BY <1>1, <2>1, <2>3
    <3>2. Untouched(f) BY <1>1, <2>1, <3>1 DEF Untouched
    <3>3. Holds(f, w) BY <3>1, <3>2 DEF Values, Sure, Cares
    <3>4. \A i \in DOMAIN toOnu' : (i \in DOMAIN toOnu /\ toOnu'[i] = toOnu[i]) \/ Sends(toOnu'[i], f, w)
      BY <1>2, <1>3, <2>3 DEF Sends
    <3> QED BY <1>1, <1>2, <3>3, <3>4 DEF Holds, Becomes
  <2> QED BY <2>2, <2>3
<1>5. Sure' BY <1>4 DEF Sure
<1>6. GotTrue' BY <1>1 DEF GotTrue
<1>7. TablesKept'
  <2>1. \A f \in Kept : db'[f] # NoRow => wanted'[f] = db'[f] BY <1>1 DEF Kept, Fields
  <2> QED BY <1>1, <2>1 DEF TablesKept, Values
<1> QED BY <1>5, <1>6, <1>7 DEF Values

LEMMA ValuesBoot ==
  ASSUME EInv, NEW pending \in BOOLEAN, Boot(pending), UNCHANGED main, ~tainted', ~pending => toOnu' = <<>>
  PROVE  Values'
<1>0. TypeOK /\ Flow BY DEF EInv, AInv, TInv
<1>1. /\ pc = "idle" /\ pc' = pc /\ reg' = Zeros /\ wanted' = Zeros /\ spoilt' = {}
      /\ toCard' = Append(toCard, Up) /\ ~pending
  BY Zenon DEF Boot, main
<1>2. toOnu' = <<>> BY <1>1
<1>3. ASSUME NEW f \in Fields, NEW w \in Bit, Cares(f, w)' PROVE Holds(f, w)'
  <2>1. ~SetIn(Sofar, f, w)' BY <1>1 DEF SetIn, Sofar
  <2>2. w = wanted'[f] BY <1>3, <2>1 DEF Cares
  <2>3. reg'[f] = w BY <1>1, <2>2
  <2> QED BY <1>2, <2>3 DEF Holds, Becomes
<1>4. Sure' BY <1>3 DEF Sure
<1>5. GotTrue' BY <1>1 DEF GotTrue
<1>6. Ups'
  <2>1. Len(toCard) + 1 \in DOMAIN toCard' /\ toCard'[Len(toCard) + 1] = Up
    BY <1>0, <1>1, UpIs, AppendOf DEF Flow
  <2> QED BY <2>1, UpIs DEF Ups
<1>7. TablesKept' BY <1>1, <1>6 DEF TablesKept
<1> QED BY <1>4, <1>5, <1>7 DEF Values

LEMMA ValuesAnswer == ASSUME EInv, Values, Answer PROVE Values'
<1> DEFINE m == Head(toOnu)
<1>0. TypeOK /\ Flow /\ TInv BY DEF EInv, AInv, TInv
<1>1. /\ toOnu # <<>> /\ m \in Order /\ toOnu' = Tail(toOnu)
      /\ reg' = [f \in Fields |-> IF f \in DOMAIN m.bits THEN m.bits[f] ELSE reg[f]]
      /\ \E c \in Nat, v \in BOOLEAN : toCard' = Append(toCard, AnswerOf(m, c, v))
      /\ UNCHANGED <<pc, code, n, value, got, wanted, spoilt, db>>
  BY <1>0, AnswerDoes DEF main, history
<1>2. Ups => Ups'
  <2>1. PICK c \in Nat, v \in BOOLEAN : toCard' = Append(toCard, AnswerOf(m, c, v)) BY <1>1
  <2>2. AnswerOf(m, c, v) \in Reply BY <1>0, <1>1, AnswerIs
  <2>3. \A k \in DOMAIN toCard : k \in DOMAIN toCard' /\ toCard'[k] = toCard[k]
    BY <1>0, <2>1, <2>2, AppendOf DEF Flow
  <2> QED BY <2>3 DEF Ups
<1>3. ASSUME NEW f \in Fields, NEW w \in Bit, Holds(f, w) PROVE Holds(f, w)'
  <2>1. reg'[f] = IF f \in DOMAIN m.bits THEN m.bits[f] ELSE reg[f] BY <1>1
  <2>2. Becomes(Tail(toOnu), reg', f, w) BY <1>0, <1>1, <1>3, <2>1, BecomesDone DEF Holds, Flow
  <2> QED BY <1>1, <2>2 DEF Holds
<1> QED BY <1>1, <1>2, <1>3, ValuesMove

\* A message to the ONU that would be sent again is lost, or nothing is.
LEMMA ValuesFewer ==
  ASSUME EInv, Values, UNCHANGED <<pc, code, n, value, got, wanted, spoilt, db, reg>>,
         toOnu' = toOnu \/ (toOnu # <<>> /\ toOnu' = Tail(toOnu) /\ Head(toOnu).tag # "once"),
         toCard' = toCard \/ (toCard # <<>> /\ toCard' = Tail(toCard) /\ Head(toCard).type # "UP")
  PROVE  Values'
<1>0. Flow BY DEF EInv, AInv, TInv
<1>1. Ups => Ups'
  <2>1. CASE toCard' = toCard BY <2>1 DEF Ups
  <2> QED BY <1>0, <2>1, FewerUps
<1>2. ASSUME NEW f \in Fields, NEW w \in Bit, Holds(f, w) PROVE Holds(f, w)'
  <2>1. CASE toOnu' = toOnu BY <1>2, <2>1, BecomesAgain
  <2>2. CASE toOnu # <<>> /\ toOnu' = Tail(toOnu) /\ Head(toOnu).tag # "once"
    <3>1. Becomes(Tail(toOnu), reg, f, w) BY <1>0, <1>2, <2>2, BecomesTail DEF Holds, Flow
    <3> QED BY <2>2, <3>1 DEF Holds
  <2> QED BY <2>1, <2>2
<1> QED BY <1>1, <1>2, ValuesMove

VInv == EInv /\ (tainted \/ Values)

LEMMA ValuesStep == ASSUME OnuFifoAssumption, VInv, [Next]_vars, ~tainted' PROVE Values'
<1>0. EInv /\ ~tainted /\ Echo /\ Values BY TaintStays DEF VInv
<1>1. ASSUME NEW v \in Bit, Call(v) PROVE Values' BY <1>0, <1>1, ValuesCall
<1>2. CASE Send BY <1>0, <1>2, ValuesSend
<1>3. CASE Take BY <1>0, <1>3, ValuesTake
<1>4. CASE Timeout BY <1>0, <1>4, ValuesTimeout
<1>5. ASSUME NEW ok \in BOOLEAN, Store(ok) PROVE Values' BY <1>0, <1>5, ValuesStore
<1>6. CASE Deliver BY <1>0, <1>6, ValuesDeliver
<1>7. CASE Restore BY <1>0, <1>7, ValuesRestore
<1>8. CASE Answer BY <1>0, <1>8, ValuesAnswer
<1>9. CASE Reset
  <2>1. toOnu' = Tail(toOnu) /\ UNCHANGED main /\ Boot(Tail(toOnu) # <<>> \/ toCard # <<>>) BY <1>9 DEF Reset
  <2>2. PICK pending \in BOOLEAN : pending = (Tail(toOnu) # <<>> \/ toCard # <<>>) OBVIOUS
  <2>3. Boot(pending) BY <2>1, <2>2
  <2>4. ~pending => toOnu' = <<>> BY <2>1, <2>2
  <2>5. UNCHANGED main BY <2>1
  <2> QED BY ONLY <1>0, <2>3, <2>4, <2>5, ~tainted', ValuesBoot
<1>10. CASE SwitchOn
  <2>1. toOnu' = toOnu /\ UNCHANGED main /\ Boot(toOnu # <<>> \/ toCard # <<>>) BY <1>10 DEF SwitchOn
  <2>2. PICK pending \in BOOLEAN : pending = (toOnu # <<>> \/ toCard # <<>>) OBVIOUS
  <2>3. Boot(pending) BY <2>1, <2>2
  <2>4. ~pending => toOnu' = <<>> BY <2>1, <2>2
  <2>5. UNCHANGED main BY <2>1
  <2> QED BY ONLY <1>0, <2>3, <2>4, <2>5, ~tainted', ValuesBoot
<1>11. CASE Unheard
  <2>1. UNCHANGED <<pc, code, n, value, got, wanted, spoilt, db, reg>> /\ toCard' = toCard BY <1>11 DEF Unheard, main, onu
  <2>2. toOnu # <<>> /\ toOnu' = Tail(toOnu) /\ Head(toOnu).tag # "once" BY <1>11 DEF Unheard
  <2> QED BY <1>0, <2>1, <2>2, ValuesFewer
<1>12. CASE Lose
  <2>1. UNCHANGED <<pc, code, n, value, got, wanted, spoilt, db, reg>> BY <1>12 DEF Lose, main, onu
  <2>2. \/ toOnu # <<>> /\ toOnu' = Tail(toOnu) /\ toCard' = toCard /\ Head(toOnu).tag # "once"
        \/ toCard # <<>> /\ toCard' = Tail(toCard) /\ toOnu' = toOnu /\ Head(toCard).type # "UP"
    BY <1>12 DEF Lose
  <2> QED BY <1>0, <2>1, <2>2, ValuesFewer
<1>13. CASE SwitchOff
  <2>1. UNCHANGED <<pc, code, n, value, got, wanted, spoilt, db, reg, toOnu, toCard>> BY <1>13 DEF SwitchOff, main
  <2> QED BY <1>0, <2>1, ValuesFewer
<1>14. ASSUME NEW c \in Counters, Count(c) PROVE Values'
  <2>1. UNCHANGED <<pc, code, n, value, got, wanted, spoilt, db, reg, toOnu, toCard>> BY <1>14 DEF Count, main
  <2> QED BY <1>0, <2>1, ValuesFewer
<1>15. CASE UNCHANGED vars
  <2>1. UNCHANGED <<pc, code, n, value, got, wanted, spoilt, db, reg, toOnu, toCard>>
    BY <1>15 DEF vars, main, onu, history
  <2> QED BY <1>0, <2>1, ValuesFewer
<1>16. CASE WriteFifo BY <1>0, <1>16, ValuesWrite
<1> QED
  BY <1>1, <1>2, <1>3, <1>4, <1>5, <1>6, <1>7, <1>8, <1>9, <1>10, <1>11, <1>12, <1>13, <1>14, <1>15,
     <1>16
  DEF Next, Main, Fifo, Onu

LEMMA InitValues == ASSUME OnuFifoAssumption, Init PROVE VInv
<1>1. EInv BY InitSums DEF SInv
<1>2. pc = "idle" /\ wanted = [f \in Fields |-> Any] /\ spoilt = {} BY Zenon DEF Init
<1>3. \A f \in Fields : wanted[f] = Any BY <1>2, Zenon
<1>4. Sofar = {} BY <1>2 DEF Sofar
<1>5. Sure BY <1>3, <1>4 DEF Sure, Cares, Untouched, SetIn
<1>6. GotTrue BY <1>2 DEF GotTrue
<1>7. TablesKept BY <1>2, <1>3 DEF TablesKept, Kept, Fields
<1> QED BY <1>1, <1>5, <1>6, <1>7 DEF VInv, Values

LEMMA ValuesKept == ASSUME OnuFifoAssumption, VInv, [Next]_vars PROVE VInv'
<1>1. EInv BY DEF VInv
<1>2. TInv' BY <1>1, TypesStep DEF EInv, AInv
<1>3. WaitOK' /\ CleanOwn' BY <1>1, OwnStep DEF EInv
<1>4. OwnIs' /\ (tainted' \/ Echo') BY <1>1, EchoStep
<1>5. tainted' \/ Values' BY ValuesStep
<1> QED BY <1>2, <1>3, <1>4, <1>5 DEF VInv, EInv, AInv

LEMMA QuietValues ==
  ASSUME VInv, Quiet, ~tainted, NEW f \in Fields \ spoilt
  PROVE  wanted[f] \in {reg[f], Any}
<1>1. pc = "idle" /\ DOMAIN toOnu = {} /\ Sure /\ TypeOK BY DEF VInv, Values, Quiet, EInv, AInv, TInv
<1>2. CASE wanted[f] # Any
  <2>1. wanted[f] \in Bit /\ Cares(f, wanted[f]) BY <1>1, <1>2 DEF TypeOK, Cares, Untouched
  <2>2. Holds(f, wanted[f]) BY <1>1, <2>1 DEF Sure
  <2> QED BY <1>1, <2>2 DEF Holds, Becomes
<1> QED BY <1>2

\* The registers of the ONU have what the setONU... requests were last told to
\* set, or what downloadONUCfg has restored since.
THEOREM SettingsKeptHolds == ASSUME OnuFifoAssumption PROVE Spec => []SettingsKept
<1>1. Init => VInv BY InitValues
<1>2. VInv /\ [Next]_vars => VInv' BY ValuesKept
<1>3. VInv => SettingsKept
  <2> SUFFICES ASSUME VInv, Quiet, ~tainted, NEW f \in Fields \ spoilt PROVE wanted[f] \in {reg[f], Any}
    BY Zenon DEF SettingsKept
  <2> QED BY QuietValues
<1> QED BY <1>1, <1>2, <1>3, PTL DEF Spec

\* ONUPort and ONUUART, where updateONUPortCfgInDB and updateONUUARTCfgInDB have
\* written a row, have what the registers have.
THEOREM TablesTrueHolds == ASSUME OnuFifoAssumption PROVE Spec => []TablesTrue
<1>1. Init => VInv BY InitValues
<1>2. VInv /\ [Next]_vars => VInv' BY ValuesKept
<1>3. VInv => TablesTrue
  <2> SUFFICES ASSUME VInv, Quiet, ~tainted, NEW f \in Kept, db[f] # NoRow, wanted[f] # Any
               PROVE  db[f] = reg[f]
    BY DEF TablesTrue
  <2>1. f \in Fields \ spoilt BY DEF VInv, Values, TablesKept, Kept, Fields
  <2>2. wanted[f] = reg[f] BY <2>1, QuietValues
  <2>3. pc = "idle" /\ ~Ups BY DEF Quiet, Ups
  <2>4. wanted[f] = db[f] BY <2>3 DEF VInv, Values, TablesKept
  <2> QED BY <2>2, <2>4
<1> QED BY <1>1, <1>2, <1>3, PTL DEF Spec

=============================================================================
