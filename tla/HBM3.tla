------------------------------- MODULE HBM3 -------------------------------
(***************************************************************************)
(* The DRAM device as SPAREPIMController sees it: the node tree            *)
(* instantiated by src/dram/impl/HBM3.cpp, its row states and the latency  *)
(* of SPM, which the controllers rewrite while the device runs.            *)
(***************************************************************************)
EXTENDS DramTree

CONSTANTS
    SpmFollowers,   \* level -> the commands that wait nSPM after an SPM
    InitialSpm,     \* nSPM after set_timing_vals()
    SpmLatencies    \* the values the controllers pass to notify()

ASSUME DeviceAssumption ==
    /\ SpmFollowers \in [Levels -> SUBSET Commands]
    /\ InitialSpm \in Nat \ {0} /\ SpmLatencies \subseteq Nat

VARIABLES
    open,   \* channel -> bank -> the rows its m_row_state marks as opened
    nSPM    \* the latency every later SPM of every channel gets

deviceVars == <<open, wait, acts, nSPM>>

DeviceTypeOK ==
    /\ open \in [Channels -> [Banks -> SUBSET Rows]]
    /\ wait \in [Channels -> [Nodes -> [Commands -> Nat]]]
    /\ acts \in [Channels -> [Nodes -> [1..FawDepth -> 0..Faw]]]
    /\ nSPM \in Nat \ {0}

DeviceInit ==
    /\ open = [ch \in Channels |-> [b \in Banks |-> {}]]
    /\ TreeInit
    /\ nSPM = InitialSpm

(* The delay of the table, or that of the SPM constraint with its current  *)
(* value.                                                                  *)
Delays(ch, n, cmd, d) ==
    Larger(TableDelay(ch, n, cmd, d),
           IF cmd = "SPM" /\ d \in SpmFollowers[Len(n)] THEN nSPM ELSE 0)

(* update_states(): the actions set_actions() installs.                    *)
RowsAfter(rows, onPath, cmd, row) ==
    CASE cmd = "ACT" /\ onPath                  -> rows \cup {row}
      [] cmd \in {"PRE", "RDA", "WRA"} /\ onPath -> {}
      [] cmd = "PREA"                           -> {}
      [] OTHER                                  -> rows

(* Mutant: the latest command sets the ready clocks, earlier ones or not.  *)
IssueCommandOverwriting(ch, cmd, addr) ==
    /\ wait' = [wait EXCEPT ![ch] = [n \in Nodes |->
                  IF OnPath(n, addr.path) THEN [d \in Commands |-> Delays(ch, n, cmd, d)]
                  ELSE wait[ch][n]]]
    /\ acts' = [acts EXCEPT ![ch] = [n \in Nodes |->
                  IF OnPath(n, addr.path) THEN Recorded(ch, n, cmd) ELSE acts[ch][n]]]
    /\ open' = [open EXCEPT ![ch] = [b \in Banks |->
                  RowsAfter(open[ch][b], OnPath(b, addr.path), cmd, addr.row)]]
    /\ UNCHANGED nSPM

(* issue_command(): update_timing() visits every node on the path, then    *)
(* update_states() moves the row state.                                    *)
IssueCommand(ch, cmd, addr) ==
    /\ wait' = [wait EXCEPT ![ch] = [n \in Nodes |->
                  IF OnPath(n, addr.path)
                  THEN [d \in Commands |-> Larger(wait[ch][n][d], Delays(ch, n, cmd, d))]
                  ELSE wait[ch][n]]]
    /\ acts' = [acts EXCEPT ![ch] = [n \in Nodes |->
                  IF OnPath(n, addr.path) THEN Recorded(ch, n, cmd) ELSE acts[ch][n]]]
    /\ open' = [open EXCEPT ![ch] = [b \in Banks |->
                  RowsAfter(open[ch][b], OnPath(b, addr.path), cmd, addr.row)]]
    /\ UNCHANGED nSPM

(* Mutant: the table only ever grows.                                      *)
NotifyRaising(value) ==
    /\ nSPM' = Larger(nSPM, value)
    /\ UNCHANGED <<open, wait, acts>>

(* notify("sparepim_spm_latency", value): one table serves all channels.   *)
Notify(value) ==
    /\ nSPM' = IF value > 0 THEN value ELSE 1
    /\ UNCHANGED <<open, wait, acts>>

(* Mutant: a command is ready only after its ready clock.                  *)
DeviceTickLate ==
    /\ wait' = [ch \in Channels |-> [n \in Nodes |-> [c \in Commands |->
                  IF wait[ch][n][c] <= 1 THEN wait[ch][n][c] ELSE wait[ch][n][c] - 1]]]
    /\ UNCHANGED <<open, acts, nSPM>>

(* tick(): one more cycle.                                                 *)
DeviceTick ==
    /\ TreeTick
    /\ UNCHANGED <<open, nSPM>>

(* Everything a memory controller may do to the device.                    *)
DeviceNext ==
    \/ \E ch \in Channels, cmd \in Commands, addr \in Addrs :
          CheckReady(ch, cmd, addr) /\ IssueCommand(ch, cmd, addr)
    \/ \E value \in SpmLatencies : Notify(value)
    \/ DeviceTick

DeviceSpec == DeviceInit /\ [][DeviceNext]_deviceVars
=============================================================================
