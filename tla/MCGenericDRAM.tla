----------------------------- MODULE MCGenericDRAM -----------------------------
(* A small instance of GenericDRAM under an environment that sends tokens, *)
(* direct requests and a refresh in any order and at any time, and offers  *)
(* a refused request again or gives it up.                                 *)
EXTENDS GenericDRAM, EsefExpansion, HBM3Timing

MCTiming ==
    [nBL |-> 1, nCL |-> 1, nRCDRD |-> 2, nRCDWR |-> 1, nRP |-> 1, nRAS |-> 2, nRC |-> 3,
     nWR |-> 1, nRTPS |-> 1, nRTPL |-> 1, nCWL |-> 1, nCCDS |-> 1, nCCDL |-> 2, nRRDS |-> 1,
     nRRDL |-> 1, nWTRS |-> 1, nWTRL |-> 1, nFAW |-> 4, nRFC |-> 2, nRREFD |-> 1]

MCCommands == SparePimCommands \cup {"REFab"}
MCScope == HBM3Scope(MCCommands)
MCGap == HBM3Gap(MCCommands)
MCSpmFollowers == HBM3SpmFollowers(MCCommands)

MCCfg ==
    [enable_esdm |-> FALSE, enable_qk_act_pre |-> FALSE, enable_act_spm_pre |-> TRUE,
     bgmu_read_as_delay |-> TRUE, esdm_columns_per_row |-> 0,
     kt_row_offset |-> 0, kt_col_start |-> 0, v_row_offset |-> 1, v_col_start |-> 0,
     mac_commands_per_token |-> 1, acc_commands_per_token |-> 0,
     spm_fixed_cycles |-> 1, spm_cycles_per_voc |-> 1]

Req(type, channel, max) ==
    [type |-> type, channel |-> channel, path |-> <<0, 0, 0>>, row |-> 0, col |-> 0,
     vocs |-> <<>>, max_voc |-> max, total_voc |-> max, mac |-> 0, acc |-> 0]

(* send() refuses the refresh; priority_send() takes it.                   *)
MCRequest == <<
    Req("spare-pim", 0, 1), Req("spare-pim", 1, 0), Req("all-bank-refresh", 0, 0),
    Req("read", 0, 0), Req("mac", 1, 0)>>

MCReqs == 1..5
MCAccepted == {r \in MCReqs : MCRequest[r].type # "all-bank-refresh"}
MCChannelOf == [r \in MCReqs |-> MCRequest[r].channel]
MCProgram == [r \in MCReqs |-> Expand(r, MCRequest[r])]
MCStats == [r \in MCReqs |-> StatsOf(MCRequest[r])]

MCSpmLatencies == 1..16
MCZero == 0..0
MCOne == 0..1
=============================================================================
