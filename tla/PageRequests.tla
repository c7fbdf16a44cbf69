---------------------------- MODULE PageRequests ----------------------------
(***************************************************************************)
(* What the CGI pages (Web/cgi) ask of the agent.                           *)
(*                                                                          *)
(* A page checks its session, asks the agent for one thing after the other   *)
(* (Comm.cpp), each with a body of a certain length, and shows the answers.   *)
(* It ends with the first command that fails, and, unless it does not look,   *)
(* with the first answer of another length than it expects                    *)
(* (ERROR_COMM_PARSE).  Nothing else is in between: another page may ask for   *)
(* something before the next command, and what has been set before one that    *)
(* fails stays set.                                                            *)
(*                                                                          *)
(* Each definition is a set of pages, one for each action or flag of a class   *)
(* that asks the agent for something; what they show is left out, and pages    *)
(* for MTT cards (see AgentCommands).  There is an FSA card, the "fsa", and     *)
(* other cards.                                                                *)
(***************************************************************************)
EXTENDS AgentCommands, Sequences

EPN_CARD_STATE     == 2
EPN_OLT_VLAN       == 5
EPONU_UPPATH       == 34
EPONU_ONU_REQ      == 2
EPONU_INFO         == 42
EPONU_NAME         == 34
EPONU_NETWORK      == 50
EPONU_UART         == 6
EPONU_BW           == 7
EPONU_IO           == 26
EPONU_IOCTRL       == 4
FSA_NETWORK        == 48
FSA_LOWSPD_CONFIG  == 72
FSA_LOWSPD_STATE   == 84
HDEC_CFG           == 46

\* A command, to which card, with a body of what length, the lengths the page
\* takes for an answer, and whether the page ends if it fails.
Show(command, body, takes) ==
  [command |-> command, to |-> command.request.to, body |-> body, takes |-> takes, must |-> TRUE]
\* A page that does not look at the length of the answer.
Do(command, body) == Show(command, body, command.answer)
On(card, ask)       == [ask EXCEPT !.to = card]
OnOther(pages)      == {[i \in DOMAIN p |-> On("other", p[i])] : p \in pages}
Times(n, ask)       == [i \in 1..n |-> ask]
One(asks)           == {<<a>> : a \in asks}

----------------------------------------------------------------------------
(* Cards (CGetCard, CCardChg).  A page about a card first asks for the card,  *)
(* whose type says what the flag means.                                       *)

Card       == Show(C_CARD_GET, 0, {CARD_INFO})
Then(asks) == {<<Card>> \o a : a \in asks}

CGetCard == {<<Card>>}
CGetCard_Ctrl ==
  Then(One({Show(C_SW_GETPORTSTATE, 0, {SW_PORT_STATE}), Show(C_SW_GETPARAM, 0, {SW_CONFIG})}))
CGetCard_Epn ==
  Then(One({Show(ReadCard("C_EP_GET_OLTSTAT"), 0, {EPN_CARD_STATE}),
            Show(ReadCard("C_EP_GET_OLTVLAN"), 0, {EPN_OLT_VLAN})}))
CGetCard_Fe8 ==
  Then(One({Show(C_FE8_PORT_GET, FE_PORT_STATE, {FE_PORT_STATE}), Card,
            Show(C_FE8_BROADCASTSTORM_GET, 0, {BROADCASTSTORM_CTRL_FE})}))
CGetCard_Fsa600 ==
  Then(One({Show(C_FSA600_GETRMT, 0, {FSA600_GETRMT}), Show(C_FSA600_INFO, 0, {FSA600_PORT_485})}))
CGetCard_EncodeChannel(ch) ==
  Then(One({Show(C_ENCODE_PROTOCOL_GET(ch), 0, {ENCODE_PROTOCOL}),
            Show(C_ENCODE_OSD_GET(ch), 0, {ENCODE_OSD}),
            Show(C_ENCODE_PICTURE_GET(ch), 0, {ENCODE_PICTURE}),
            Show(C_ENCODE_MODE_GET(ch), 0, {ENCODE_MODE})}))
CGetCard_EncodeBox(ch) ==
  Then(One({Show(C_ENCODE_NET_GET(ch), 0, {ENCODE_NET_STATE}),
            Show(C_ENCODE_SYSTIME_GET, 0, {ENCODE_SYSTIME}),
            Show(C_ENCODE_NTP_GET, 0, {ENCODE_NTP}),
            Show(C_ENCODE_VIDEO_GET(ch), 0, {ENCODE_VIDEO_STATE}), Card}))
CGetCard_Decode(ch) ==
  Then(One({Show(C_ENCODE_PROTOCOL_GET(ch), 0, {ENCODE_PROTOCOL}),
            Show(C_ENCODE_MODE_GET(ch), 0, {ENCODE_MODE}),
            Show(C_ENCODE_NET_GET(ch), 0, {ENCODE_NET_STATE}),
            Show(C_ENCODE_SYSTIME_GET, 0, {ENCODE_SYSTIME}),
            Show(C_ENCODE_NTP_GET, 0, {ENCODE_NTP}),
            Card}))
NttPorts == Times(8, Show(C_NTT_INFO, FE_PORT_STATE, {FE_PORT_STATE}))
CGetCard_NttState == Then({<<Show(C_NTT_GETSTATE, 0, {NTT_STATE})>> \o NttPorts})
\* The length of the body is still that of the ports.
CGetCard_NttConfig ==
  Then({NttPorts \o <<Show(C_FE8_BROADCASTSTORM_GET, FE_PORT_STATE, {BROADCASTSTORM_CTRL_FE})>>,
        <<Show(C_NTT_GETSTATE, 0, {NTT_STATE})>>})

\* Changes.  What type the card has is read from the table of cards.
SetCardPage  == Do(C_CARD_SET, CARD_SET)
SetStorm     == Do(C_FE8_BROADCASTSTORM_SET, BROADCASTSTORM_CTRL_FE)
CCardChg_Ctrl == One({Do(C_SW_SETPARAM, SW_CONFIG), SetCardPage})
CCardChg_Fsa ==
  One({Do(ResetCard("C_CARD_RESET"), 0), SetCardPage,
       Do(WriteCard("C_EP_SET_OLT_UPPATH"), EPONU_UPPATH),
       Do(WriteCard("C_EP_SET_OLTVLAN"), EPN_OLT_VLAN)})
CCardChg_Ntt ==
  {<<SetCardPage>>, <<SetStorm>> \o Times(8, Do(C_NTT_SET, CARD_SET_485FE))}
CCardChg_Fe8 == One({SetCardPage, SetStorm, Do(C_FE8_SET, CARD_SET_485FE)})
\* An action that is not known sends no code.
CCardChg_Fsa600 ==
  One({Do(C_FSA600_Do(code), 0) : code \in
         {"C_FSA600_RESET", "C_FSA600_SETDFT", "C_FSA600_RESETRMT", "C_FSA600_SETDFTRMT"}}
      \cup {SetCardPage, Do(C_FSA600_SET, FSA600_SET_485), Do(C_FSA600_SETRMT, FSA600_SETRMT),
            Do(Unknown, 0)})
CCardChg_EncodeChannel(ch) ==
  One({Do(C_ENCODE_PROTOCOL_SET(ch), ENCODE_PROTOCOL),
       Do(C_ENCODE_VIDEO_SET(ch), ENCODE_VIDEO_STATE), Do(C_ENCODE_OSD_SET(ch), ENCODE_OSD),
       Do(C_ENCODE_PICTURE_SET(ch), ENCODE_PICTURE), Do(C_ENCODE_MODE_SET(ch), ENCODE_MODE)})
CCardChg_EncodeBox(ch) ==
  One({Do(C_ENCODE_NET_SET(ch), ENCODE_NET_STATE), Do(C_ENCODE_NTP_SET, ENCODE_NTP),
       Do(C_ENCODE_SYSTIME_SET, ENCODE_SYSTIME), Do(ResetCard("C_ENCODE_RESTART"), 0),
       Show(C_ENCODE_SYSTIME_GET, 0, {ENCODE_SYSTIME})})
CCardChg_Ge8 ==
  One({Do(C_GE8_NET_SET, GE8_NET_STATE), Do(C_GE8_SETPORT, GE_PORT_STATE),
       Do(C_GE8_STATISTICS_CLR, 0), Do(C_GE8_SETIGMP, GE8_IGMP)})
CCardChg_Ms4 == One({Do(C_MS4_SWITCH, 1)} \cup {Do(C_MS4_DEBUG, n) : n \in {1, 64}})

----------------------------------------------------------------------------
(* GE8 cards (CGetGe8) and what they have in common with ONUs.                *)

CGetGe8_Network ==
  One({Show(C_GE8_NET_GET, 0, {GE8_NET_STATE}), Show(C_GE8_PORTMODE, 0, {8 * GE_PORT_STATE})})
CGetGe8_Vlan ==
  One({Show(C_GE8_GETVLAN, 0, List(ONU_VLAN_CONF)), Do(C_GE8_DELVLAN, ONU_VLAN_CONF),
       Do(C_GE8_SAVEVLAN, ONU_VLAN_CONF)})
CGetGe8_Port ==
  One({Do(C_GE8_GETPORT, GE_PORT_STATE), Do(C_GE8_STATISTICS, 8 * GE8_STATISTICS)})
CGetGe8_Igmp == One({Show(C_GE8_GETIGMP, 0, {GE8_IGMP})})

----------------------------------------------------------------------------
(* ONUs (CGetOnu, COnuChg, CONUIDmgmt).                                       *)

CGetOnu_Base ==
  One({Show(C_ONU_GET, 0, {ONU_INFO}), Show(C_ONU_GETDATACH, 0, List(ONU_UART_CONF))})
CGetOnu_Settings ==
  One({Show(C_ONU_GETIO, 0, {ONU_IO}), Show(C_ONU_GETPORTMIRROR, 0, {ONU_PORTMIRROR_CONF}),
       Show(C_ONU_GETQoS, 0, {ONU_QoS_CONF})})
CGetOnu_Ports ==
  One({Show(C_ONU_GETVLAN, 0, List(ONU_VLAN_CONF)),
       Show(C_ETHER_GET, FE_PORT_STATE, {FE_PORT_STATE})})
COnuChg ==
  One({Do(ResetCard("C_ONU_RESET"), 0), Do(C_ONU_SET, ONU_SET),
       Do(C_ETHER_SET, ETHER_PORT_SET + FE_PORTINDEX), Do(C_ONU_SETDATACH, ONU_UART_CONF),
       Do(C_ONU_SETIO, ONU_IO)})
COnuChg_Mirror ==
  One({Do(C_ONU_SETPORTMIRROR, ONU_PORTMIRROR_CONF), Do(C_ONU_SETQoS, ONU_QoS_CONF)})
COnuChg_Vlan == One({Do(C_ONU_SAVEVLAN, ONU_VLAN_CONF), Do(C_ONU_DELVLAN, ONU_VLAN_CONF)})
CONUIDmgmt ==
  One({Do(C_ONU_GETDSN_LIST, 0), Do(C_ONU_SET_ONUID, ONU_SETID), Do(ResetCard("C_ONU_RESET"), 0)})

----------------------------------------------------------------------------
(* The FSA card itself (CFsaCard, CHDCard, CCount, CGetSfp, CPerf).           *)

CFsaCard_Base == One({Show(C_FSA_GET, 0, {FSA_CARD_STATE}), Do(C_FSA_SET, CARD_SET_FSA)})
CFsaCard_Net ==
  One({Show(ReadCard("C_FSA_NET_GET"), 0, {FSA_NETWORK}),
       Do(WriteCard("C_FSA_NET_SET"), FSA_NETWORK),
       Show(ReadCard("C_FSA_LOWSPD_GET"), 0, {FSA_LOWSPD_CONFIG}),
       Do(WriteCard("C_FSA_LOWSPD_SET"), FSA_LOWSPD_CONFIG)})
\* The state of the card, then of one ONU after the other: one that cannot be
\* had is not shown.
LowSpeed == Show(ReadCard("C_FSA_LOWSPD_STAT"), 0, {FSA_LOWSPD_STATE})
CFsaCard_Stat(onus) ==
  {<<LowSpeed>> \o Times(onus, [LowSpeed EXCEPT !.must = FALSE]),
   <<Do(ResetCard("C_FSA_LOWSPD_STATRESET"), 0)>>}
\* A configuration, or a command to switch pictures, as text.
CHDCard ==
  One({Show(QueryCard("C_HDC_GETCMD"), 3, {HDEC_CFG})}
      \cup {Do(WriteCard("C_HDC_SETCMD"), n) : n \in {HDEC_CFG + 3, 26}})
CCount ==
  One({Do(C_FSA_RESETCOUNT, 0), Show(C_SW_GETCOUNT, 0, {SW_PORT_COUNT}), Do(C_SW_RESETCOUNT, 0),
       Show(C_FSA_GETCOUNT, 0, {PORT_COUNT})})
CGetSfp == One({Show(C_SFP_GET, SFP_INFO, {SFP_INFO})})
PortPerf  == Show(GET_PORT_PERF, FE_PORTINDEX, {PORT_PERF})
PortReset == Do(SET_PERF_RESET, FE_PORTINDEX)
CPerf == One({PortPerf, PortReset})
CNttPerfView == {Times(8, PortPerf), Times(8, PortReset)}

----------------------------------------------------------------------------
(* The switch (CVlan, CL3Config, CMulticast) and the shelf (CFrameView).      *)

CVlan      == One({Do(C_SW_GETVLAN, 0), Do(C_SW_VLAN, SW_VLAN)})
CL3Config  == One({Do(C_SW_L3INTF, SW_L3INTF)})
CMulticast == One({Do(C_SW_GETALLMC, 0), Do(C_SW_MCG, SW_MC_STATE)})
CFrameView == One({Do(C_SHELF_SET, SHELF_INFO), Show(C_SHELF_GET, 0, {SHELF_INFO})})

----------------------------------------------------------------------------
(* EPON cards and their ONUs (CGetEPOnu, CEPOnuChg, CEpnView).                *)

CGetEPOnu ==
  One({Show(QueryCard(q[1]), EPONU_ONU_REQ, {q[2]}) : q \in
         {<<"C_EP_GET_ONUSTAT", EPONU_INFO>>, <<"C_EP_GET_ONUUART", EPONU_UART>>,
          <<"C_EP_GET_ONUNETWORK", EPONU_NETWORK>>, <<"C_EP_GET_ONUBW", EPONU_BW>>,
          <<"C_EP_GET_ONUIO", EPONU_IO>>}})
CEPOnuChg ==
  One({Do(WriteCard(w[1]), w[2]) : w \in
         {<<"C_EP_RESET_ONU", EPONU_ONU_REQ>>, <<"C_EP_SET_ONUNAME", EPONU_NAME>>,
          <<"C_EP_SET_ONUNETWORK", EPONU_NETWORK>>, <<"C_EP_SET_ONUUART", EPONU_UART>>,
          <<"C_EP_SET_ONUBW", EPONU_BW>>, <<"C_EP_SET_ONUIO", EPONU_IO>>,
          <<"C_EP_SET_ONU_UPPATH", EPONU_UPPATH>>, <<"C_EP_SET_ONUIOCTRL", EPONU_IOCTRL>>}})
CEpnView == One({Do(WriteCard("C_EP_DELONU_OFFLINE"), EPONU_ONU_REQ)})

----------------------------------------------------------------------------
(* All of them, for an FSA card and for other cards.                          *)

FsaPages(onus) ==
  CGetCard \cup CGetOnu_Base \cup CGetOnu_Settings \cup CGetOnu_Ports
  \cup COnuChg \cup COnuChg_Mirror \cup COnuChg_Vlan \cup CONUIDmgmt
  \cup CFsaCard_Base \cup CFsaCard_Net \cup CFsaCard_Stat(onus)
  \cup CCount \cup CGetSfp \cup CPerf \cup CVlan \cup CL3Config \cup CMulticast
  \cup CFrameView \cup {<<SetCardPage>>}

EncoderPages(ch) ==
  CGetCard_EncodeChannel(ch) \cup CGetCard_EncodeBox(ch) \cup CGetCard_Decode(ch)
  \cup CCardChg_EncodeChannel(ch) \cup CCardChg_EncodeBox(ch)
OtherPages ==
  OnOther(
    CGetCard_Ctrl \cup CGetCard_Epn \cup CGetCard_Fe8 \cup CGetCard_Fsa600
    \cup CGetCard_NttState \cup CGetCard_NttConfig
    \cup CCardChg_Ctrl \cup CCardChg_Fsa \cup CCardChg_Ntt \cup CCardChg_Fe8
    \cup CCardChg_Fsa600 \cup CCardChg_Ge8 \cup CCardChg_Ms4
    \cup CGetGe8_Network \cup CGetGe8_Vlan \cup CGetGe8_Port \cup CGetGe8_Igmp
    \cup CHDCard \cup CNttPerfView \cup CGetEPOnu \cup CEPOnuChg \cup CEpnView
    \cup UNION {EncoderPages(ch) : ch \in 1..2})
=============================================================================
