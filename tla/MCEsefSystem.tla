------------------------------ MODULE MCEsefSystem ------------------------------
(* Small instances of EsefSystem: one channel with two banks and rows of   *)
(* three columns, or two channels with one bank each.                      *)
EXTENDS EsefSystem, HBM3Timing

MCTiming ==
    [nBL |-> 1, nCL |-> 2, nRCDRD |-> 2, nRCDWR |-> 2, nRP |-> 2, nRAS |-> 4, nRC |-> 6,
     nWR |-> 2, nRTPS |-> 1, nRTPL |-> 2, nCWL |-> 1, nCCDS |-> 1, nCCDL |-> 2, nRRDS |-> 2,
     nRRDL |-> 3, nWTRS |-> 1, nWTRL |-> 2, nFAW |-> 20, nRFC |-> 8, nRREFD |-> 2]

MCScope == HBM3Scope(SparePimCommands)
MCGap == HBM3Gap(SparePimCommands)
MCSpmFollowers == HBM3SpmFollowers(SparePimCommands)

MCCfg ==
    [enable_esdm |-> TRUE, enable_qk_act_pre |-> TRUE, enable_act_spm_pre |-> TRUE,
     bgmu_read_as_delay |-> TRUE, esdm_columns_per_row |-> 3,
     kt_row_offset |-> 0, kt_col_start |-> 0, v_row_offset |-> 2, v_col_start |-> 1,
     mac_commands_per_token |-> 4, acc_commands_per_token |-> 1,
     spm_fixed_cycles |-> 1, spm_cycles_per_voc |-> 2]

Token(channel, row, vocs, max, mac, acc) ==
    [type |-> "spare-pim", channel |-> channel, path |-> <<0, 0, 0>>, row |-> row, col |-> 0,
     vocs |-> vocs, max_voc |-> max, total_voc |-> max, mac |-> mac, acc |-> acc]

(* Tokens with a VOC list, with a compact VOC, with no valid output, and   *)
(* with runs that do and do not cross the end of a row.                    *)
MCRequest == <<
    Token(0, 0, <<2, 1>>, 2, 0, 2),
    Token(0, 1, <<0, -1>>, 0, 2, 1),
    Token(0, 3, <<>>, 3, 1, 0),
    Token(0, 2, <<1, 4>>, 4, 3, 3)>>

(* Tokens of two channels whose VOCs, and so whose SPM latencies, differ.  *)
MCTwoRequest == <<
    Token(0, 0, <<2, 1>>, 2, 1, 1),
    Token(1, 1, <<>>, 4, 2, 1),
    Token(0, 2, <<>>, 0, 2, 1),
    Token(1, 3, <<1, 3>>, 3, 1, 2)>>

MCReqs == 1..4
MCChannelOf == [r \in MCReqs |-> Request[r].channel]
MCShortTraces == {t \in [1..3 -> MCReqs] : \A i, j \in 1..3 : t[i] = t[j] => i = j}
MCLongTraces == {t \in [1..4 -> MCReqs] : \A i, j \in 1..4 : t[i] = t[j] => i = j}

MCSpmLatencies == 1..16
MCZero == 0..0
MCOne == 0..1
MCRows == 0..3
MCCols == 0..2
=============================================================================
