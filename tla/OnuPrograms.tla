---------------------------- MODULE OnuPrograms ----------------------------
(***************************************************************************)
(* The messages an FSA card sends to an ONU over the fibre for each request *)
(* about it (FSA/fsalib.c), as the main thread of the card sends them one   *)
(* after the other.  OnuFifo carries them out; BusRequests asks how long    *)
(* they take.                                                                *)
(***************************************************************************)
EXTENDS Integers, Sequences

\* Fields of the KS8995 switch in the ONU (two of its ports stand for all), and
\* of its FPGA.
Fields == {"storm", "prio1", "prio2", "threshold", "scheme", "vlanOn", "both", "mirror",
           "vlan", "port", "admin", "name", "uart", "out"}
Codes == {"C_ONU_GET", "C_ONU_GETDATACH", "C_ONU_GETIO", "C_ONU_GETPORTMIRROR", "C_ONU_GETQoS",
          "C_ONU_GETVLAN", "C_SFP_GET", "C_ETHER_GET", "C_ONU_SET", "C_ONU_SETDATACH",
          "C_ONU_SETIO", "C_ONU_SETPORTMIRROR", "C_ONU_SETQoS", "C_ONU_SAVEVLAN", "C_ONU_DELVLAN",
          "C_ETHER_SET", "C_ONU_RESET", "GET_PORT_PERF", "SET_PERF_RESET"}

----------------------------------------------------------------------------
(* Messages to the ONU, as the functions that use them fill them in.         *)
(*   get, set: fields it reads, fields it sets to the value asked for        *)
(*   zero, one: fields it clears and sets whatever is asked for              *)
(*   keep: fields it writes as they, or others, were in the last answer      *)
(*   select: what 0x6E and 0x6F select; sum: where the counter read is added *)
(*   wait: an answer is waited for; go: and not missed                       *)
(*   may: whether it is sent depends on what was read before                 *)

Msg == [type |-> "KSR", get |-> {}, set |-> {}, zero |-> {}, one |-> {},
        keep |-> [f \in {} |-> f], select |-> "none", sum |-> "none",
        wait |-> TRUE, go |-> FALSE, may |-> FALSE]

Same(S)           == [f \in S |-> f]
Ask(type)         == [Msg EXCEPT !.type = type]
Tell(type, S)     == [Msg EXCEPT !.type = type, !.set = S]
Read(S)           == [Msg EXCEPT !.get = S]
Write(S, keep)    == [Msg EXCEPT !.type = "KSW", !.set = S, !.keep = keep]
Select(s)         == [Msg EXCEPT !.type = "KSW", !.select = s]

\* The requests, one after the other in the order of ProcessMsg.
getONUInfo       == << Ask("ADMIN"), Ask("STATE1"), Ask("STATE2"),
                       Read({"storm", "prio1"}), Read({"threshold"}) >>
getONUUartInfo   == << Ask("UART") >>
getONUIO         == << Ask("IO") >>
getONUPortMirror == << Read({"mirror", "scheme", "vlanOn", "both"}) >>
getONUQoS        == << Read({"storm", "prio1", "prio2", "scheme", "vlanOn", "both"}) >>
getONUVLAN       == << [Select("other") EXCEPT !.go = TRUE],
                       Select("other"), Read({}), Select("other"), Read({}),
                       Select("other"), Read({}), Select("other"), Read({}) >>
getSFPInfo       == << Ask("SFP"), [Ask("SFP") EXCEPT !.may = TRUE],
                       [Ask("SFP") EXCEPT !.may = TRUE] >>
getONUFEPort     == << Read({"port"}), [Select("other") EXCEPT !.may = TRUE], Read({}) >>
setONUAdmin      == << Tell("ADMINW", {"admin"}) >>
setONUName       == << Tell("NAMEW", {"name"}) >>
setONUStorm(value) ==   \* which sets the threshold only together with switching on
  << Read({"storm", "prio1", "threshold"}),
     Write({"storm"} \cup (IF value = 1 THEN {"threshold"} ELSE {}),
           [f \in {"prio1", "prio2"} |-> "prio1"]) >>
setONUUart       == << Tell("UARTW", {"uart"}) >>
setONUIO         == << [Tell("IOW", {"out"}) EXCEPT !.wait = FALSE] >>
setONUPortMirror == << [Write({"mirror", "both"}, Same({})) EXCEPT !.zero = {"scheme", "vlanOn"}] >>
setONUQoSBlind   ==   \* that does not read before
  << Write({"prio1", "prio2", "scheme"}, Same({"storm", "vlanOn", "both"})) >>
setONUQoS        == << Read({"storm", "prio1", "prio2", "scheme", "vlanOn", "both"}),
                       Write({"prio1", "prio2", "scheme"}, Same({"storm", "vlanOn", "both"})) >>
saveONUVLAN      == << Read({"scheme", "vlanOn", "both"}),
                       [Write({"vlan"}, Same({"scheme", "both"})) EXCEPT
                         !.one = {"vlanOn"}, !.select = "other"] >>
delONUVLAN       == saveONUVLAN  \* but for the bit that makes the entry valid
setONUFEPort     == << Read({"port"}), [Write({"port"}, Same({})) EXCEPT !.select = "other"] >>
resetONU         == << [Ask("RESET") EXCEPT !.wait = FALSE] >>

\* A counter is selected, then read; reading clears it.
readPerfReg(c, sum) == << Select(c), [Read({}) EXCEPT !.sum = sum] >>
getPortPerfMixed ==   \* that adds what was sent to what was received
  readPerfReg("rxlo", "rx") \o readPerfReg("rxhi", "rx")
  \o readPerfReg("txlo", "rx") \o readPerfReg("txlo", "tx")
getPortPerf == readPerfReg("rxlo", "rx") \o readPerfReg("rxhi", "rx")
               \o readPerfReg("txlo", "tx") \o readPerfReg("txlo", "tx")

\* What is asked for matters to setONUStorm only.
Program(code, value) ==
  CASE code = "C_ONU_GET"           -> getONUInfo
    [] code = "C_ONU_GETDATACH"     -> getONUUartInfo
    [] code = "C_ONU_GETIO"         -> getONUIO
    [] code = "C_ONU_GETPORTMIRROR" -> getONUPortMirror
    [] code = "C_ONU_GETQoS"        -> getONUQoS
    [] code = "C_ONU_GETVLAN"       -> getONUVLAN
    [] code = "C_SFP_GET"           -> getSFPInfo
    [] code = "C_ETHER_GET"         -> getONUFEPort
    [] code = "C_ONU_SET"           -> setONUAdmin \o setONUName \o setONUStorm(value)
    [] code = "C_ONU_SETDATACH"     -> setONUUart
    [] code = "C_ONU_SETIO"         -> setONUIO
    [] code = "C_ONU_SETPORTMIRROR" -> setONUPortMirror
    [] code = "C_ONU_SETQoS"        -> setONUQoS
    [] code = "C_ONU_SAVEVLAN"      -> saveONUVLAN
    [] code = "C_ONU_DELVLAN"       -> delONUVLAN
    [] code = "C_ETHER_SET"         -> setONUFEPort
    [] code = "C_ONU_RESET"         -> resetONU
    [] OTHER                        -> getPortPerf   \* GET_PORT_PERF, SET_PERF_RESET
=============================================================================
