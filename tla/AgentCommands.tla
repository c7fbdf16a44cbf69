--------------------------- MODULE AgentCommands ---------------------------
(***************************************************************************)
(* The commands the agent carries out for pages: one definition for each    *)
(* case of ProcessMsg (EmsAgent/message_proc.c), with the name of the code.  *)
(* A command has a body the agent accepts or refuses (ERROR_WRONG_ARGS), is  *)
(* carried out by a request to a card or by the agent itself, and, if that   *)
(* succeeds, is answered with a body; if not, with the code of the error.    *)
(* Bodies are told apart by their lengths (common/msg.h, packed).            *)
(*                                                                          *)
(* The commands of MTT cards are left out: they name members that msg.h and  *)
(* MSG_HEAD_CMD do not have (message_proc.c:6030), and are not built.        *)
(***************************************************************************)
EXTENDS AgentRequests

SHELF_INFO                == 12
CARD_SET                  == 18
CARD_SET_FSA              == 50
CARD_SET_485FE            == 16
ETHER_PORT_SET            == 14
FE_PORTINDEX              == 8
GE_PORT_STATE             == 15
FSA600_PORT_485           == 8
FSA600_SET_485            == 7
FSA600_GETRMT             == 24
FSA600_SETRMT             == 24
ONU_SET                   == 21
ONU_SETID                 == 17
GE8_STATISTICS            == 17
GE8_IGMP                  == 63
GE8_NET_STATE             == 59
BROADCASTSTORM_CTRL_FE    == 4
ENCODE_VIDEO_STATE        == 29
ENCODE_NET_STATE          == 52
ENCODE_MODE               == 2
ENCODE_PROTOCOL           == 31
ENCODE_OSD                == 26
ENCODE_PICTURE            == 17
ENCODE_NTP                == 25
ENCODE_SYSTIME            == 20
SW_VLAN                   == 10
SW_L3INTF                 == 36
SW_MC_STATE               == 10
SW_CONFIG                 == 17
SW_PORT_STATE             == 390
SW_PORT_COUNT             == 832
NTT_STATE                 == 2

Command(body, request, answer) == [body |-> body, request |-> request, answer |-> answer]

\* One that reads, and the agent does not look at its body; one that sets; one
\* the agent carries out without asking a card.
Get(request)       == Command(AnyLength, request, request.accepts)
Set(body, request) == Command({body}, request, Nothing)
Own(body, answer)  == Command(body, NoReq, answer)

----------------------------------------------------------------------------
C_SHELF_GET               == Own(AnyLength, {SHELF_INFO})
C_SHELF_SET               == Own({SHELF_INFO}, Nothing)
C_CARD_GET                == Get(GetCardInfo)
C_FSA_GET                 == Get(GetCardFsa)
C_ONU_GET                 == Get(GetOnuInfo)
\* Whatever GetOnuList returns is the number of entries, also if it is the code
\* of an error.
C_ONU_GETLIST             == Command(AnyLength, GetOnuList, {1 + k * ONU_LIST_ENTRY : k \in 0..24})
C_SFP_GET                 == Get(GetSfpInfo)
C_FSA600_INFO             == Get(GetFsa600Info)
C_FSA600_GETRMT           == Get(GetFSA600RMT)
C_ONU_GETDATACH           == Get(GetUartInfo)
C_ONU_GETDSN_LIST         == Get(GetONUDSNList)
C_ONU_GETIO               == Get(GetIO)
C_ONU_GETPORTMIRROR       == Get(GetPortMirror)
C_ONU_GETQoS              == Get(GetQoS)
C_ONU_GETVLAN             == Get(GetVLAN)
C_ENCODE_VIDEO_GET(ch)    == Get(GetVideoState(ch))
C_GE8_NET_GET             == Get(GetNetworkStateGe8)
C_GE8_PORTMODE            == Get(GetGe8PortLink)
C_GE8_NET_SET             == Set(GE8_NET_STATE, SetNetworkGE8)
C_GE8_GETVLAN             == Get(GetVLANge8)
C_GE8_DELVLAN             == Set(ONU_VLAN_CONF, DelGE8VLAN)
C_GE8_SAVEVLAN            == Set(ONU_VLAN_CONF, SaveGE8VLAN)
C_GE8_GETPORT             == Command({GE_PORT_STATE}, GetGe8Port, {GE_PORT_STATE})
C_GE8_SETPORT             == Set(GE_PORT_STATE, SetGe8Port)
C_GE8_STATISTICS          == Command({8 * GE8_STATISTICS}, GetGe8Statistics, {8 * GE8_STATISTICS})
C_GE8_STATISTICS_CLR      == Set(0, ClrGe8Statistics)
C_GE8_GETIGMP             == Command({0}, GetGe8IGMP, {GE8_IGMP})
C_GE8_SETIGMP             == Set(GE8_IGMP, SetGe8IGMP)
C_ENCODE_NET_GET(ch)      == Get(GetNetworkState(ch))
C_ENCODE_PROTOCOL_GET(ch) == Get(GetPROTOCOLState(ch))
C_ENCODE_OSD_GET(ch)      == Get(GetOSDState(ch))
C_ENCODE_PICTURE_GET(ch)  == Get(GetPICTUREState(ch))
C_ENCODE_SYSTIME_GET      == Get(GetSysTime)
C_ENCODE_NTP_GET          == Get(GetNTP)
C_ENCODE_MODE_GET(ch)     == Get(getPatten(ch))
C_ENCODE_SYSTIME_SET      == Set(ENCODE_SYSTIME, SetSysTime)
C_ENCODE_NTP_SET          == Set(ENCODE_NTP, SetNTP)
C_ENCODE_NET_SET(ch)      == Set(ENCODE_NET_STATE, SetNetwork(ch))
C_ENCODE_PROTOCOL_SET(ch) == Set(ENCODE_PROTOCOL, SetPROTOCOL(ch))
C_ENCODE_VIDEO_SET(ch)    == Set(ENCODE_VIDEO_STATE, SetVIDEO(ch))
C_ENCODE_OSD_SET(ch)      == Set(ENCODE_OSD, SetOSD(ch))
C_ENCODE_PICTURE_SET(ch)  == Set(ENCODE_PICTURE, SetPicture(ch))
C_ENCODE_MODE_SET(ch)     == Set(ENCODE_MODE, SetPatten(ch))
C_FE8_GET                 == Get(GetCardFE8)
C_FE8_BROADCASTSTORM_GET  == Get(GetFE8BroadcastStormInfo)
C_FE8_BROADCASTSTORM_SET  == Set(BROADCASTSTORM_CTRL_FE, SetFE8BroadcastStorm)
C_FE8_PORT_GET            == Get(GetCardFE8Port)
C_ETHER_GET               == Command({FE_PORT_STATE}, GetEtherportInfo, {FE_PORT_STATE})
C_CARD_SET                == Set(CARD_SET, SetCard)
C_FSA_SET                 == Set(CARD_SET_FSA, SetCardFSA)
C_FE8_SET                 == Set(CARD_SET_485FE, SetCardFE8)
C_ONU_SET                 == Set(ONU_SET, SetOnu)
C_FSA600_SET              == Set(FSA600_SET_485, SetFSA600)
C_FSA600_SETRMT           == Set(FSA600_SETRMT, SetOnu100)
C_ONU_SETDATACH           == Set(ONU_UART_CONF, SetOnuUart)
C_ONU_SETIO               == Set(ONU_IO, SetOnuIO)
C_ONU_SET_ONUID           == Set(ONU_SETID, SetOnuID)
C_ONU_SETPORTMIRROR       == Set(ONU_PORTMIRROR_CONF, SetOnuPortMirror)
C_ONU_SETQoS              == Set(ONU_QoS_CONF, SetOnuQoS)
C_ONU_SAVEVLAN            == Set(ONU_VLAN_CONF, SaveONUVLAN)
C_ONU_DELVLAN             == Set(ONU_VLAN_CONF, DelONUVLAN)
\* C_FSA600_SETDFT, C_FSA600_RESET, and the same of the remote unit.
C_FSA600_Do(code)         == Get(FSA600resetAndDFT(code))
GET_PORT_PERF             == Get(GetPerfState)
SET_PERF_RESET            == Get(ResetPerfState)
C_ETHER_SET               == Set(ETHER_PORT_SET + FE_PORTINDEX, SetEtherPort)
GET_ALARMS                == Command(AnyLength, getAlarm, {8 * k : k \in 0..60})
REFRESH_CHECK             == Own(AnyLength, Nothing)
C_FSA_GETCOUNT            == Get(getStatisticCount)
C_FSA_RESETCOUNT          == Get(ReseStatisticCount)
C_SW_GETVLAN              == Own(AnyLength, Nothing)
\* Saving and deleting, here and below.
C_SW_VLAN                 == Own({SW_VLAN}, Nothing)
C_SW_L3INTF               == Own({SW_L3INTF}, Nothing)
C_SW_GETALLMC             == Own(AnyLength, {4})
C_SW_MCG                  == Own({SW_MC_STATE}, Nothing)
C_SW_GETPORTSTATE         == Own(AnyLength, {SW_PORT_STATE})
C_SW_GETPARAM             == Own(AnyLength, {SW_CONFIG})
C_SW_SETPARAM             == Own({SW_CONFIG}, Nothing)
C_SW_GETCOUNT             == Own(AnyLength, {SW_PORT_COUNT})
C_SW_RESETCOUNT           == Own(AnyLength, Nothing)
\* C_ENCODE_RESTART, C_CARD_RESET, C_ONU_RESET, C_FSA_LOWSPD_STATRESET.
ResetCard(code)           == Get(genericReq(code))
\* C_FSA_NET_GET, C_FSA_LOWSPD_GET and _STAT, C_EP_GET_OLTSTAT and _OLTVLAN.
ReadCard(code)            == Get(genericGetReq(code))
\* C_FSA_NET_SET, C_FSA_LOWSPD_SET, C_EP_SET_..., C_HDC_SETCMD: whatever the
\* page has sent is passed on.
WriteCard(code)           == Command(AnyLength, genericSetReq(code), Nothing)
\* C_EP_GET_ONU..., C_HDC_GETCMD: the body is passed on too.
QueryCard(code)           == Get(genericGetReq2(code))
C_NTT_INFO                == Get(GetNttInfo)
C_NTT_GETSTATE            == Get(GetNttState)
C_NTT_SET                 == Set(CARD_SET_485FE, SetCardNTT)
C_MS4_SWITCH              == Command({1}, Ms4Switch, Nothing)
C_MS4_DEBUG               == Command(AnyLength \ {0}, Ms4Debug, AnyLength)
\* A code that is not known is answered with an error, whatever its body.
Unknown                   == Own({}, Nothing)
=============================================================================
