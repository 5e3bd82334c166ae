------------------------- MODULE MCGenericController -------------------------
(* Small instances of GenericController: buffers of two and four requests  *)
(* that hit, conflict or meet at one address.                              *)
EXTENDS GenericController, DdrDevices

MCTiming ==
    [nBL |-> 1, nCL |-> 2, nRCD |-> 2, nRP |-> 1, nRAS |-> 2, nRC |-> 3, nWR |-> 1,
     nRTP |-> 1, nCWL |-> 1, nCCDS |-> 1, nCCDL |-> 1, nRRDS |-> 1, nRRDL |-> 1,
     nWTRS |-> 1, nWTRL |-> 1, nFAW |-> 4, nRFC |-> 3, nCS |-> 1]

MCScope == DDR4Scope(DDR4Commands)
MCGap == DDR4Gap(MCTiming, DDR4Commands)
MCSiblingGap == DDR4SiblingGap(MCTiming, DDR4Commands)
MCFaw == MCTiming.nFAW
MCReadLatency == DDR4ReadLatency(MCTiming)

MCRequests == 1..4
MCFinal == <<"WR", "RD", "RD", "WR">>
Place(rank, bank, row) == [path |-> <<rank, 0, bank>>, row |-> row, col |-> 0]

(* A write and a read of one place, a read in the other rank, and a write  *)
(* that meets the first two or conflicts with them.                        *)
MCAddrs ==
    <<{Place(0, 0, 0)}, {Place(0, 0, 0)}, {Place(1, 1, 0)}, {Place(0, 0, 0), Place(0, 0, 1)}>>

(* The same in one rank, with the second read in the other bank.           *)
MCAddrsOneRank ==
    <<{Place(0, 0, 0)}, {Place(0, 0, 0)}, {Place(0, 1, 0)}, {Place(0, 0, 1)}>>

MCZero == 0..0
MCOne == 0..1

(* The refresh periods of the DDR4 presets are long enough for refreshes    *)
(* to keep up, with the buffers of the code and up to four ranks.          *)
MCRest(gap, sibling, faw) ==
    [c \in DDR4Commands |->
        Max({gap[l][c][d] : l \in Levels, d \in DDR4Commands}
            \cup {sibling[l][c][d] : l \in Levels, d \in DDR4Commands}
            \cup {IF c = "ACT" THEN faw ELSE 0})]

CodeBufferSize == 32

ASSUME PresetsSuffice ==
    \A org \in Ddr4Orgs, speed \in Ddr4Speeds :
        LET d    == Ddr4(org, speed)
            rest == MCRest(d.gap, d.sibling, d.t.nFAW)
            longest == Max({rest[c] : c \in DDR4Commands})
        IN  /\ RestsWithin(d.gap, d.sibling, d.t.nFAW, rest, longest)
            /\ RefreshLoad(rest, longest, CodeBufferSize, 4) <= d.t.nREFI
=============================================================================
