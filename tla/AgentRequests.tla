--------------------------- MODULE AgentRequests ---------------------------
(***************************************************************************)
(* The requests the agent makes to cards on the RS485 bus: one function of  *)
(* EmsAgent/message_proc.c each.  They differ in the code they send, in how  *)
(* long they wait for the answer (ticks of TIMEOUT_485MSG, 20 ms), and in    *)
(* the lengths of the answers they accept; BusRequests has what they have in *)
(* common.                                                                   *)
(***************************************************************************)
EXTENDS Integers

Short  == 1    \* TIMEOUT_485MSG
Long   == 40   \* TIMEOUT_485MSGLONG, 800 ms
Second == 50

\* Packed sizes of what cards answer (common/msg.h).
CARD_INFO           == 41
FSA_CARD_STATE      == 37
FE_PORT_STATE       == 15
SFP_INFO            == 47
ONU_INFO            == 24
ONU_LIST_ENTRY      == 20
PORT_PERF           == 16
PORT_COUNT          == 209
ONU_UART_CONF       == 5
ONU_VLAN_CONF       == 6
ONU_PORTMIRROR_CONF == 18
ONU_QoS_CONF        == 7
ONU_IO              == 3
ONUDSN_LIST         == 384

Nothing    == {0}
List(n)    == {1 + k * n : k \in 0..16}   \* a count, then so many entries
AnyLength  == 0..498

Fsa(code, ticks, lengths)   == [code |-> code, to |-> "fsa", for |-> ticks, accepts |-> lengths]
Other(code, ticks, lengths) == [Fsa(code, ticks, lengths) EXCEPT !.to = "other"]
Channel(ch)                 == IF ch < 2 THEN Short ELSE Second

----------------------------------------------------------------------------
(* To an FSA card.                                                           *)

GetCardInfoGrown    == Fsa("C_CARD_GET", Short, {CARD_INFO + 1})  \* of a newer agent
GetCardInfo         == Fsa("C_CARD_GET", Short, {CARD_INFO})
GetCardFsa          == Fsa("C_FSA_GET", Short, {FSA_CARD_STATE})
GetSfpInfo          == Fsa("C_SFP_GET", Long, {SFP_INFO})
GetOnuList          == Fsa("C_ONU_GETLIST", Long, {k * ONU_LIST_ENTRY : k \in 0..24})
GetOnuInfoShort     == Fsa("C_ONU_GET", Short, {ONU_INFO})  \* that does not wait for the ONU
GetOnuInfo          == Fsa("C_ONU_GET", Long, {ONU_INFO})
GetEtherportInfo    == Fsa("C_ETHER_GET", Long, {FE_PORT_STATE})
GetPerfState        == Fsa("GET_PORT_PERF", Long, {PORT_PERF})
getStatisticCount   == Fsa("C_FSA_GETCOUNT", Long, {PORT_COUNT})
ReseStatisticCount  == Fsa("C_FSA_RESETCOUNT", Long, Nothing)
GetUartInfo         == Fsa("C_ONU_GETDATACH", Long, List(ONU_UART_CONF))
GetONUDSNList       == Fsa("C_ONU_GETDSN_LIST", Long, {ONUDSN_LIST})
GetPortMirror       == Fsa("C_ONU_GETPORTMIRROR", Long, {ONU_PORTMIRROR_CONF})
GetIO               == Fsa("C_ONU_GETIO", Long, {ONU_IO})
GetQoS              == Fsa("C_ONU_GETQoS", Long, {ONU_QoS_CONF})
GetVLAN             == Fsa("C_ONU_GETVLAN", Long, List(ONU_VLAN_CONF))
ResetPerfState      == Fsa("SET_PERF_RESET", Short, Nothing)
SetEtherPort        == Fsa("C_ETHER_SET", Long, Nothing)
SetCard             == Fsa("C_CARD_SET", Short, Nothing)
SetCardFSA          == Fsa("C_FSA_SET", Short, Nothing)
SetOnuUart          == Fsa("C_ONU_SETDATACH", Long, Nothing)
SetOnuIO            == Fsa("C_ONU_SETIO", Long, Nothing)
SetOnuID            == Fsa("C_ONU_SET_ONUID", Long, Nothing)
SetOnuPortMirror    == Fsa("C_ONU_SETPORTMIRROR", Long, Nothing)
SetOnuQoS           == Fsa("C_ONU_SETQoS", Long, Nothing)
SaveONUVLAN         == Fsa("C_ONU_SAVEVLAN", Long, Nothing)
DelONUVLAN          == Fsa("C_ONU_DELVLAN", Long, Nothing)
SetOnu              == Fsa("C_ONU_SET", Long, Nothing)
genericReq(code)    == Fsa(code, Short, Nothing)
genericSetReq(code) == Fsa(code, Short, Nothing)
genericGetReq(code) == Fsa(code, Short, AnyLength)
genericGetReq2(code) == Fsa(code, Short, AnyLength)
check_cardAlarms    == Fsa("GET_ALARMS", Short, AnyLength)
getAlarm            == check_cardAlarms
NoReq               == Fsa("none", 0, {})

----------------------------------------------------------------------------
(* To the other cards: FE8, FSA600, NTT, GE8, encoders, MS4.                 *)

GetCardFE8             == Other("C_FE8_GET", Short, {8 * FE_PORT_STATE})
GetFE8BroadcastStormInfo == Other("C_FE8_BROADCASTSTORM_GET", Short, {4})
SetFE8BroadcastStorm   == Other("C_FE8_BROADCASTSTORM_SET", Short, Nothing)
GetCardFE8Port         == Other("C_FE8_PORT_GET", Short, {FE_PORT_STATE})
GetNttInfo             == GetCardFE8Port
SetCardFE8             == Other("C_FE8_SET", Short, Nothing)
SetCardNTT             == SetCardFE8
GetFsa600Info          == Other("C_FSA600_INFO", Short, {8})
GetFSA600RMT           == Other("C_FSA600_GETRMT", Short, {24})
SetFSA600              == Other("C_FSA600_SET", Short, Nothing)
SetOnu100              == Other("C_FSA600_SETRMT", Short, Nothing)
FSA600resetAndDFT(code) == Other(code, Short, Nothing)
GetNttState            == Other("C_NTT_GETSTATE", Short, {2})
GetVLANge8             == Other("C_GE8_GETVLAN", Long, List(ONU_VLAN_CONF))
SaveGE8VLAN            == Other("C_GE8_SAVEVLAN", Long, Nothing)
DelGE8VLAN             == Other("C_GE8_DELVLAN", Long, Nothing)
GetNetworkStateGe8     == Other("C_GE8_NET_GET", Short, {59})
SetNetworkGE8          == Other("C_GE8_NET_SET", Short, Nothing)
GetGe8PortLink         == Other("C_GE8_PORTMODE", Second, {8 * FE_PORT_STATE})
GetGe8Port             == Other("C_GE8_GETPORT", Second, {FE_PORT_STATE})
SetGe8Port             == Other("C_GE8_SETPORT", Second, Nothing)
GetGe8Statistics       == Other("C_GE8_STATISTICS", Second, {8 * 17})
ClrGe8Statistics       == Other("C_GE8_STATISTICS_CLR", Second, Nothing)
GetGe8IGMP             == Other("C_GE8_GETIGMP", Second, {63})
SetGe8IGMP             == Other("C_GE8_SETIGMP", Second, Nothing)
GetVideoState(ch)      == Other("C_ENCODE_VIDEO_GET", Channel(ch), {29})
GetNetworkState(ch)    == Other("C_ENCODE_NET_GET", Channel(ch), {52})
GetPROTOCOLState(ch)   == Other("C_ENCODE_PROTOCOL_GET", Channel(ch), {31})
GetOSDState(ch)        == Other("C_ENCODE_OSD_GET", Channel(ch), {26})
GetPICTUREState(ch)    == Other("C_ENCODE_PICTURE_GET", Channel(ch), {17})
getPatten(ch)          == Other("C_ENCODE_MODE_GET", Channel(ch), {2})
SetNetwork(ch)         == Other("C_ENCODE_NET_SET", Channel(ch), Nothing)
SetPROTOCOL(ch)        == Other("C_ENCODE_PROTOCOL_SET", IF ch < 2 THEN 30 ELSE 75, Nothing)
SetVIDEO(ch)           == Other("C_ENCODE_VIDEO_SET", Channel(ch), Nothing)
SetOSD(ch)             == Other("C_ENCODE_OSD_SET", Channel(ch), Nothing)
SetPicture(ch)         == Other("C_ENCODE_PICTURE_SET", Channel(ch), Nothing)
SetPatten(ch)          == Other("C_ENCODE_MODE_SET", Channel(ch), Nothing)
GetSysTime             == Other("C_ENCODE_SYSTIME_GET", Short, {20})
SetSysTime             == Other("C_ENCODE_SYSTIME_SET", Short, Nothing)
GetNTP                 == Other("C_ENCODE_NTP_GET", Short, {25})
SetNTP                 == Other("C_ENCODE_NTP_SET", Short, Nothing)
Ms4Switch              == Other("C_MS4_SWITCH", Short, AnyLength)
Ms4Debug               == Other("C_MS4_DEBUG", Short, AnyLength)
=============================================================================
