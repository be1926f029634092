---------------------------- MODULE MCEpochTips ----------------------------
(* An instance of EpochTips for TLC.  Trees: two vote accounts and up to    *)
(* three stake accounts, two of which have the same staker; tips that do    *)
(* not divide evenly.  Claims: the validator's node, a delegation of its    *)
(* identity and one of another staker, of which a batch takes one.          *)
EXTENDS EpochTips

MCNode(v) == 30 + v
Stake(s, by, l, v, a) == [stake |-> s, staker |-> by, lamports |-> l, voter |-> v, active |-> a]

MCStakes ==
    {{Stake(11, 21, 1, 1, TRUE), Stake(12, 21, 2, 1, TRUE), Stake(13, 22, 5, 2, TRUE)},
     {Stake(11, 21, 3, 1, TRUE), Stake(12, 22, 4, 1, TRUE), Stake(13, 22, 1, 1, TRUE)},
     {Stake(11, 21, 3, 1, TRUE), Stake(12, 22, 4, 1, FALSE), Stake(13, 22, 1, 2, FALSE)}}

Absent == [state |-> "absent", lamports |-> 0, bps |-> 0]
Funded == [state |-> "funded", lamports |-> 4, bps |-> 0]
Initialized(l, b) == [state |-> "initialized", lamports |-> l, bps |-> b]

Bank(stakes, t1, t2, rec, c) ==
    [stakes |-> stakes, tda |-> [v \in {1, 2} |-> IF v = 1 THEN t1 ELSE t2],
     tip_receiver |-> rec, excess |-> 5, bb_commission_pct |-> 30, config |-> c]
MCBanks ==
    {Bank(s, t1, t2, r, TRUE) : s \in MCStakes, t1 \in {Funded, Initialized(13, 3), Initialized(13, 10)},
                                t2 \in {Absent, Initialized(2, 3), Initialized(13, 0)}, r \in {1, 2, 9}}
    \cup {Bank(CHOOSE s \in MCStakes : TRUE, Absent, Absent, 9, FALSE),
          Bank(CHOOSE s \in MCStakes : TRUE, Initialized(1, 3), Absent, 9, TRUE)}

MCItems == {<<1>>, <<2>>}

Node(t, c, by, a) == [tda |-> t, claimant |-> c, staker |-> by, amount |-> a]
MCNodes == {Node(1, "v", "v", 1), Node(1, "a", "v", 1), Node(1, "b", "x", 1)}
=============================================================================
