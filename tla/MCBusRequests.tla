--------------------------- MODULE MCBusRequests ---------------------------
(* Small instances of BusRequests for TLC: every page by itself, and pages     *)
(* that ask long things of the FSA card at the same time as others.            *)
EXTENDS BusRequests

Long1     == One({Show(C_ONU_GET, 0, {ONU_INFO}), Show(C_ONU_GETVLAN, 0, List(ONU_VLAN_CONF)),
                  Do(C_ONU_SET, ONU_SET), PortReset})
Other1    == OnOther(One({Show(C_ENCODE_SYSTIME_GET, 0, {ENCODE_SYSTIME})}))
             \cup One({Do(C_FSA_SET, CARD_SET_FSA), Do(C_ONU_SETQoS, ONU_QoS_CONF)})
MCScripts == {<<p>> : p \in FsaPages(2) \cup OtherPages} \cup Long1 \X Other1
Doubts    == {<<<<PortReset>>, p>> : p \in OnOther(One({Do(C_ENCODE_SYSTIME_SET, ENCODE_SYSTIME)}))}
             \cup {<<p>> : p \in CGetOnu_Ports}
=============================================================================
