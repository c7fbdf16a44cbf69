----------------------------- MODULE MCOnuFifo -----------------------------
(* Small instances of OnuFifo for TLC: every request is made, before and     *)
(* after those that use the same registers, tables and types of answers.     *)
EXTENDS OnuFifo

MCScripts ==
  { <<"C_ETHER_SET", "C_ONU_RESET", "C_ETHER_SET">>, <<"C_ONU_SETDATACH", "C_ONU_RESET">>,
    <<"C_ONU_SETQoS", "C_ONU_SAVEVLAN">>, <<"C_ONU_SAVEVLAN", "C_ONU_SETQoS">>,
    <<"C_ONU_SET", "C_ONU_SET", "C_ONU_SETQoS">>, <<"C_ONU_SETQoS", "C_ONU_SET">>,
    <<"C_ONU_SAVEVLAN", "C_ONU_SETPORTMIRROR">>, <<"C_ONU_SETPORTMIRROR", "C_ONU_DELVLAN">>,
    <<"C_ONU_GETVLAN", "C_ETHER_SET">>, <<"C_SFP_GET", "C_ONU_SETIO">>,
    <<"C_ONU_GET", "C_ETHER_GET">>, <<"C_ONU_GETQoS", "C_ONU_GETDATACH">>,
    <<"C_ONU_GETPORTMIRROR", "C_ONU_GETIO">>, <<"GET_PORT_PERF">>, <<"SET_PERF_RESET">> }

Perf == { <<"GET_PORT_PERF", "GET_PORT_PERF">> }
=============================================================================
