------------------------------ MODULE MCEsefTokens ------------------------------
(* What a trace line expands to, and what the functional data path computes  *)
(* for the tokens: two parts of the SPARE-PIM controller that meet in        *)
(* expand_sparepim_token and share no state.  The expansion has banks of     *)
(* four rows and three columns, and runs of up to seven columns.             *)
EXTENDS EsefTokens, EsdmFunctional

MCConfigs ==
    [enable_esdm : BOOLEAN, enable_qk_act_pre : BOOLEAN, enable_act_spm_pre : BOOLEAN,
     bgmu_read_as_delay : {TRUE}, esdm_columns_per_row : {-1, 1, 2, 4},
     kt_row_offset : {0}, kt_col_start : {-1, 0, 1}, v_row_offset : {1, 3}, v_col_start : {0, 2},
     mac_commands_per_token : {2}, acc_commands_per_token : {1},
     spm_fixed_cycles : {1}, spm_cycles_per_voc : {2}]

MCFrontends ==
    [validate_voc_count : BOOLEAN, expected_voc_count : {-1}, max_voc_per_bpu : {-1},
     fsu_width : {4}, d_head : {25}, mac_commands_per_token : {-1, 0},
     acc_commands_per_token : {1}]

Line(form, vocs, numbers) == [form |-> form, vocs |-> vocs, numbers |-> numbers]

(* Lists that fill the four banks of a pseudo channel, lists that do not,  *)
(* values beyond the limits, and lines that lack fields.                   *)
MCLines == {
    Line("VOC", <<0, 0, -2, 0>>, <<>>),
    Line("VOC", <<1, 4, 2, 4>>, <<0, 1, 2>>),
    Line("VOC", <<2, 2, 3>>, <<>>),
    Line("VOC", <<1, 5, 0, 0>>, <<>>),
    Line("TOKEN list", <<3, 1, 0, 2, 4>>, <<7>>),
    Line("TOKEN", <<>>, <<-1, 0>>),
    Line("TOKEN", <<>>, <<4, 0, 0, 1>>),
    Line("TOKEN", <<>>, <<4, 3>>),
    Line("TOKEN", <<>>, <<2>>),
    Line("bare", <<>>, <<3, 9, 0, 3, 1>>),
    Line("bare", <<>>, <<1, 17>>),
    Line("VOC alone", <<>>, <<>>),
    Line("fixed", <<>>, <<3, -1>>),
    Line("fixed", <<>>, <<2, 0>>)}

MCPlace == [path |-> <<0, 0, 0>>, row |-> 2, col |-> 0]

-----------------------------------------------------------------------------
(* Three positions of three dimensions in columns of two values: six         *)
(* columns each for K and V, in banks of eight rows of which the storage's   *)
(* key tells six apart.                                                      *)
MCLayouts ==
    [enable_esdm : BOOLEAN, esdm_columns_per_row : {-1, 2, 4},
     kt_row_offset : {0, 2, 5}, v_row_offset : {0, 2, 3, 4}, kt_col_start : {0, 1}, v_col_start : {0, 3},
     seq_len : {3}, d_head : {3}, num_heads : {2}, num_kv_heads : {1}]

(* Values of both signs, no two columns alike.                               *)
MCQ(h, sq, d) == (h + 1) * (sq - 1) + 2 * d - 1
MCK(h, sk, d) == 3 * sk - 4 * d + (sk * d) + 5 * h
MCV(h, sk, d) == 10 * sk + d - 7 + 3 * h
MCWe(h, sq) == sq + 2

VARIABLE part

(* One part moves, the other rests in its first state.                       *)
MCInit ==
    \/ /\ part = "expansion" /\ Init
       /\ layout = CHOOSE l \in MCLayouts : TRUE
       /\ loaded = 0 /\ storage = <<>> /\ tokens = 0 /\ m_current_sq = 0
       /\ m_hw_output = <<>> /\ verdict = "none"
    \/ /\ part = "functional" /\ PathInit
       /\ front = (CHOOSE f \in FrontendConfigs : TRUE) /\ cfg = (CHOOSE c \in Configs : TRUE)
       /\ line = (CHOOSE l \in Lines : TRUE)
       /\ stage = "read" /\ trace = NoTrace

MCNext ==
    /\ UNCHANGED part
    /\ \/ part = "expansion" /\ Next /\ UNCHANGED pathVars
       \/ part = "functional" /\ PathNext /\ UNCHANGED vars

MCSpec == MCInit /\ [][MCNext]_<<part, vars, pathVars>>
=============================================================================
