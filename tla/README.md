# Verification of the Jito Tip Router

The Tip Router is a Solana program (an NCN, node consensus network, of the
restaking protocol) with an off-chain keeper and operator client.  Each epoch,
operators compute a Merkle root of the validators' tips, vote on it weighted by
the stake delegated to them, and the router uploads the winning root and splits
its fee among DAO, operators and vaults.  This directory has TLA+ models of the
program's core logic, TLC runs that check them on small instances, and TLAPS
proofs for all instances.

A handler of the program is one atomic transaction: an error reverts all of it.
So an action of a model is a whole handler, its guard the conjunction of all the
checks on the path, and a call that fails is no step.  What interleaves are the
transactions, which nearly always anybody may send, the slots, the admins'
parameter changes and the programs the router reads from.

## Inventory

| Component | State | Operations | What is hard, and what makes it correct |
|---|---|---|---|
| Ballot box (`core/src/ballot_box.rs`) | votes by operator, tallies by ballot, consensus slot, winner | `cast_vote`, `admin_set_tie_breaker`, `set_merkle_root` | changed votes, wiped and reused tally slots, arrays at their limit, rounding of two thirds, votes after consensus: tallies are exact, a decision is sound and final |
| Base reward router (`base_reward_router.rs`) | reward pool, processed rewards, fee groups, routes, saved position | `route_base_rewards`, `distribute_base_rewards`, `distribute_base_ncn_reward_route` | a pass is cut into transactions: ledgers balance, slicing changes nothing, nothing gets stuck |
| NCN reward routers (`ncn_reward_router.rs`) | one per operator and NCN fee group: pool, operator rewards, vault routes | `route_ncn_rewards`, `distribute_ncn_operator_rewards`, `distribute_ncn_vault_rewards` | the same |
| Epoch state and marker (`epoch_state.rs`, `epoch_marker.rs`, `account_payer.rs`) | status of each account of the epoch, progress, decision, closing flag | `initialize_epoch_state`, `realloc_*`, updates by every handler, `close_epoch_account` | written by two dozen handlers, accounts grow by pieces, closing interleaves with everything: the state tells the truth, nothing is reopened or left behind |
| Weight table (`weight_table.rs`) | weight of each mint | `initialize_`, `realloc_weight_table`, `admin_set_weight`, `switchboard_set_weight` | final before the snapshot is taken |
| Snapshots (`epoch_snapshot.rs`) | operators, delegations, stake weights, fees of the epoch | `initialize_epoch_snapshot`, `initialize_`, `realloc_operator_snapshot`, `snapshot_vault_operator_delegation` | repeated cranks, operators that join meanwhile: counted once, complete before a vote |
| Fee config (`fees.rs`) | two fee buffers, wallets, block engine fee | `admin_set_config_fees`, epoch boundary | updates take effect together at the boundary |
| Config and admins (`config.rs`) | parameters, admin keys | `admin_initialize_config`, `admin_set_parameters`, `admin_set_new_admin` | parameters change while an epoch is under way |
| Vault registry (`vault_registry.rs`) | vaults and mints of the NCN | `register_vault`, `admin_register_st_mint`, `admin_set_st_mint` | edited at any time, copied per epoch into the weight table some transactions after it was compared: the table covers the NCN's vaults |
| Instruction interface (`instruction.rs`, `program/src/lib.rs`, generated client) | three tables kept by different tools | decode, dispatch, account checks | only positions and flags tie them together: an instruction is understood as it was meant |
| Keeper (`cli/src/keeper`, `cli/src/instructions.rs`) | cached state of the epoch it works on, rest of the running crank | loop over epochs and stages; cranks for creating, weighing, snapshots, routing, closing | every call may fail or land unreported, others crank too, the cache grows old: every epoch finishes |
| Operator client (`tip-router-operator-cli`) | files, main loop, submitting, claiming and backup tasks | replay, trees, vote, upload, claim, backup | tasks share files without locks, kills, failing calls: it votes for what it computed, and claims everything |
| Stake metas and Merkle trees (`meta_merkle_tree`, `stake_meta_generator.rs`) | trees and proofs | build, prove, verify | all operators get one root, claims are funded and provable |

The snapshot copies weights, registry and fees; the ballot box reads snapshot
weights; routing reads the winner's tally and the votes; the epoch state is
written by all of them; closing reads the epoch state only.

Off chain, the keeper reads the epoch state to choose its crank and sends the
same instructions anybody may send; the operator client reads the config's fees,
writes trees to disk, votes with them, uploads the winner's roots and claims the
tips into the base reward receiver, where routing begins.

## Modules

| Module | Models |
|---|---|
| `BallotBox` | the ballot box with the voting fields of the epoch state, the parameters and the slot |
| `RewardRouting` | base router, operators' routers, their receivers and the distribution progress |
| `VotingAndRouting` | composition of the two: routing that reads votes which may still move |
| `KeeperRewards` | `RewardRouting` under the keeper's distribution and closing cranks |
| `EpochLifecycle` | the accounts of an epoch from creation to the marker |
| `KeeperCrank` | `EpochLifecycle` under the keeper's cranks, transaction by transaction |
| `KeeperLoop` | `run_keeper`: which epoch it is at, what it has cached, when it moves on |
| `FeeSchedule` | what the fee buffers promise: an abstract specification |
| `FeeConfig` | the two buffers, updates, the boundary, the snapshot's copy, the operators' read |
| `VaultRegistry` | the registry and the weight table of an epoch |
| `StakeSnapshot` | epoch and operator snapshots over vaults that move stake |
| `EpochStake` | the two stages one after the other |
| `OperatorClient` | main loop, submitting task and their files, with kills |
| `SnapshotBackup` | the backup monitor and the replay it feeds |
| `OperatorNode` | the two parts of a node |
| `MerkleTree` | tree, proof and verification over symbolic hashes |
| `TipTrees` | bank, stake metas, claim trees, meta tree, for several operators |
| `TipClaims` | the claiming task, the RPC node and the other claimants |
| `EpochTips` | the two stages one after the other |
| `TipRouterProgram`, `ClientInstructions` | the program's and the client's side of the instructions |
| `InstructionInterface` | an instruction on its way from the one to the other |
| `Sums` | sums of natural numbers, as cardinalities |
| `SumTheorems` | what the proofs need of sums |
| `*Proofs` | theorems about the module they are named after; `BallotBoxProofs` also on `VotingAndRouting` |
| `MC*` | values of the constants for TLC |

Names are the source's where TLA+ allows it.  A definition with a suffix after
an underscore (`Withdraw_KeepWeight`, `RouteShare_Ceil`) is a faulty variant of
the definition that follows it; replacing the latter by it must break the
property that is about it, which shows that the property can fail.

**BallotBox.**  `operator_votes` and `ballot_tallies` are the two arrays, with
positions from 1 and 0 for the sentinel `u16::MAX`; -1 is the sentinel slot.  A
`StakeWeights` is a function from components (`stake_weight` and the fee groups)
to numbers.  The operators' weights are a constant: the epoch's snapshot is final
before anybody votes (`WeightsAddUp`).  `RecordVote` is `BallotBox::cast_vote` and
`TallyVotes` is `tally_votes`; PreciseNumber's quotients are divisions scaled by
`Precision` that round down.  The weight of a set of operators is written as the
cardinality of a set of units, a sum without recursion that the provers can
handle; TLC checks that it equals the sum.  `SetMerkleRoot` takes the verified
proof as given (`MerkleTree` is about proofs).

**RewardRouting, KeeperRewards.**  Amounts are lamports above rent.  `RouteSlice`
is one call of `route_ncn_fee_group_rewards` and `RouteVaultSlice` one of
`NcnRewardRouter::route_reward_pool`; a slice is described by the set of
recipients it reaches and not by its loop.  `plan` is a history variable: what an
uncut pass would lead to, computed when the pass begins.  `KeeperRewards` adds
`crank_distribute` as the list of payments it has decided on, from a copy of the
base router older than the routing it has just sent, and the closing of routers,
which sweeps what their receivers still hold.  Sums are those of `Sums`, so that
runs and proofs are about the same definitions.

**VotingAndRouting.**  Every slice reads the votes and the winning tally again.
The properties exclude behaviours in which the admin raised
`valid_slots_after_consensus` (the history variable `raised`): see Observations.

**EpochLifecycle, KeeperCrank.**  An account is its kind and seeds, its length
counts reallocs, and `ready` holds the accounts with a discriminator.
`initialize_weight_table`, `initialize_ballot_box` and
`initialize_base_reward_router` have the same shape and are one action with a
parameter.  A vote may or may not decide the epoch.  `AddOperator` is the
restaking program.  `KeeperCrank` has the transactions of each crank as a list
`todo`; each is refused by the program, lands, is lost, or lands and is reported
as an error, up to `MaxFailures` times.

**KeeperLoop.**  The loop's sections are the values of `pc`; `state` is the
`KeeperState` it keeps between turns, with the epoch each part was read for.  The
chain is a stage for each epoch, moved on by the keeper's cranks, by others and
by the passing of time.  "torn" is an epoch whose weight table a close crank
closed and whose epoch state it did not: `update_current_state` fails for it in
every later turn.

**FeeConfig.**  `ProcessEpoch` is the operator's read of
`adjusted_total_fees_bps`; `in_force` is a history variable with the fees each
epoch began with.

**VaultRegistry, StakeSnapshot.**  Lists are sequences of the entries in use.
`required` remembers the vaults the NCN had when the table was allocated.  In the
snapshots the vault program is part of the model: delegation, cooldown, the
vault's update at an epoch boundary, opt-outs; `taken` remembers what each entry
counted and when.

**OperatorClient, SnapshotBackup.**  A file is missing, torn or holds a root.  The
main loop writes the collection and the tree, each in two steps; the task's
calls fail at will; a kill is possible at each step.  `scope` bounds a behaviour:
TLC explores behaviours with one ballot box and behaviours of more epochs of the
main loop without one.  In `SnapshotBackup` a snapshot is its end slot, a copy
takes two steps, and `fragile` says whether copies may be cut short.

**TipTrees, TipClaims.**  Each operator orders stake accounts as its hash map
does, which is a choice, and then sorts; fees, commissions, shares and rounding
are computed as in the code on small numbers.  `TipClaims` follows a run of the
task from its reads over the shuffled batch to signature statuses and expired
blockhashes.  A tree node of `TipClaims` has a claimant and, for a delegation,
the staker from whom the client derives the claim status it looks up; that staker
may be the claimant of another node (`TakenForClaimed`, see Findings).  A tree of
no tips is skipped through the amounts of its nodes, which are all 0.

**InstructionInterface.**  The tables are data: per instruction the client's
fields with their flags, the enum's fields, and per handler the order of its
accounts, the privileges its loaders insist on and the accounts it writes.  The
actions are building, merging of privileges, decoding, destructuring, loading and
writing; a field may be left unset.  Two accounts that need the same privileges
and that the handler does not tell apart could change places unnoticed: the
properties compare positions by what is required of them.

**Merge markers.**  Nine instruction files of the client hold unresolved merge
markers; the side modelled is the one with `epoch_marker`, which the program and
the CLI use.  So do `main.rs` (lines 1, 11, 27, 84) and `cli.rs` (6, 58) of the
operator client; modelled is the lower side, whose tasks and arguments the other
files of the crate are written for.  The upper side starts the VRF services, which
are not modelled.

**Unions.**  In five runs a behaviour is one of two kinds, chosen at the start,
with the variables of the other kind at rest.  In `EpochStake` and `EpochTips` the
kinds are stages of which the second reads only a final result of the first (a
finalized table, finished trees).  In `OperatorNode` the parts meet only in that a
replay may fail, which the main loop's model allows at any time.  In `KeeperCrank`
and `KeeperRewards` either the keeper is alone, and its list of transactions is
followed, or anybody sends anything, which includes all the keeper sends.

## Runs

| Run | Config | Instance | Shows |
|---|---|---|---|
| `ballot_box` | `BallotBox.cfg` | 4 operators for 3 vote and tally positions, 4 roots (symmetric), stakes 3, 1, 2, 0, slots to 4, two values of each parameter; 94 k states | exact tallies, sound and final decisions, agreement of the two copies, uploads of one root |
| `voting_and_routing` | `VotingAndRouting.cfg` | 3 operators with a third each, 2 roots, 2 NCN groups, a deposit of 17, slices of 2, windows of 0 and 1 slots; 188 k states | routed votes are final, no pass sticks, slices equal a whole pass |
| `reward_flow` | `RewardFlow.cfg` | 2 operators, 2 vaults and an empty entry, two deposits of 13, slices of 1 and 2, one failed transaction; 68 k states | ledgers balance, lamports are conserved through closing, slices agree, the keeper pays |
| `epoch_lifecycle` | `EpochLifecycle.cfg` | 2 operators (the second may join late), 2 vaults, accounts of up to 2 reallocs, 2 parameter sets, 2 failures; 150 k states | true statuses, nothing reopened, nothing orphaned, complete registrations, the epoch finishes |
| `epoch_stuck` | `EpochStuck.cfg` | 1 operator | expected violation, see Findings |
| `fee_config` | `FeeConfig.cfg` | 2 base groups, 1 NCN group, fees at and above the cap, 3 epochs; 34 k states | refinement of the schedule, updates add up, timely snapshots |
| `fee_reads` | `FeeReads.cfg` | 2 groups, 2 block engine fees | expected violation, see Findings |
| `epoch_stake` | `EpochStake.cfg` | 2 mints with a vault each and a feed; then 2 operators and a vault of 2 tokens over 3 epochs; 243 k states | the table covers the NCN and is frozen, sums are exact, tokens count once, both stages end |
| `keeper_loop` | `KeeperLoop.cfg` | 2 epochs, failures of every section but `fetch`; 11 k states | cranks what it read, every epoch completes unless one is torn |
| `operator_node` | `OperatorNode.cfg` | 1 ballot box and 2 roots, or 3 epochs; one kill; 2 slots an epoch and one backup each; 60 k states | votes are computed, trees are voted for, no gap, snapshots are kept |
| `epoch_tips` | `EpochTips.cfg` | 2 operators, 2 vote accounts, 3 stake accounts, 83 banks, fees below and above the whole, epochs before and at the change of claimants; trees of up to 9 leaves; 3 nodes, of which 2 claimants exist, with batches of 1; 92 k states | equal roots, funded and provable claims, complete reports, all claims made |
| `interface` | `Interface.cfg` | every instruction, one field left out; 5.5 k states | instructions arrive as meant, no write to a read-only account |

Bounds.  Three array positions let both arrays fill up, a slot be wiped and taken
again by a third ballot, and one operator be left without a place.  Stakes of 3,
1 and 2 put two operators exactly at two thirds, where rounding matters; with a
third each, two decide and the third can vote late.  Deposits of 13 and 17 leave
remainders in both layers of division, and a deposit can arrive between any two
slices; slices of 2 cut a group of three votes and cross from one NCN group to the
next.  Accounts of two units can be met half allocated at closing.  Three epochs
are what it takes for both fee buffers to be written and one to be written again,
and for stake to cool down and be delegated again.  Nine leaves give odd levels at
several heights of a tree.  The three nodes to claim are a validator's, a
delegation of its identity and one of another staker, any two of them at a time
(`MaxClaimants`): a claim that another is taken for, and one that stays on the list
and crowds another, both occur.  Two keeper epochs are enough for the cache to be of
the other epoch.  Deadlock is checked where parameters may always be set again or
the loop is endless (`ballot_box`, `voting_and_routing`, `keeper_loop`,
`interface`); the other systems really may stop: all rewards paid, the epoch
closed, the last epoch reached.

Fairness.  The keeper's loop and the clients' tasks never end, so their steps are
weakly fair; so are the slots, and the cranks that anybody may send and the keeper
repeats (`EpochLifecycle`, `EpochStake`).  A call that is retried in every turn
does not fail every time: strong fairness of the succeeding call, per epoch
(`KeeperLoop`, `OperatorNode`) or for any node (`EpochTips`).  A shuffle does not
for ever put claims in front that cannot be made: strong fairness of a batch with
one that can (`CanBeMade`).  Outages of the RPC
node end (`<>[][~ Fault]`), and blockhashes expire.

## Findings

* `epoch_stuck`.  `close_epoch_account` ("Crank Closes all accounts associated
  with an epoch") sets `is_closing` with its first call; then
  `initialize_base_reward_router` is refused, while `are_all_closed` accepts a
  base reward router only as `Closed`.  An epoch decided without one can never be
  closed entirely.  `EpochsFinish` shows that having allocated it is enough.
* `fee_reads`.  `fees.rs` says that updates take place in a future epoch "so all
  operators calculate the same Merkle root regardless of when fee changes take
  place".  That holds of base and NCN fees (`fee_config`), but
  `block_engine_fee_bps` changes at once and enters the total each operator reads.
* In `epoch_tips`, as an exception of two properties.  `claim.rs` (349-357) says of
  `build_mev_claim_transactions` that it "Returns a list of claim transactions for
  valid, unclaimed MEV tips".  It looks a delegation's claim status up by the
  staker (`generated_merkle_tree.rs:277`, `claim.rs:432`), while claims create it by
  the claimant, the stake account (`claim.rs:437`).  So claimed delegations are
  listed and sent again, in vain; and where the staker is itself a claimant of the
  tree, as a validator is that stakes to itself with its identity, the claim of its
  own node makes the client skip the delegation for good and report that nothing is
  left.  The instance has such a delegation ("a", staker "v"): without the exception
  `TakenForClaimed`, TLC refutes `FinishedIsComplete` in six steps (the validator's
  node is claimed, the task reads and finishes) and `ClaimsAreMade` by a task that
  wakes and finishes for ever.  With it both hold: no other node is forgotten.

## Observations

Where the code does less than a reader might expect, without a comment or test
that says otherwise, the property is stated with the exception the code needs:

* Raising `valid_slots_after_consensus` reopens voting after routing began; a new
  vote for the winner then changes the weights under a half done pass, which may
  stick.  With the exception `raised` removed, all three properties of
  `voting_and_routing` fail.
* A failed `fetch` of the keeper leaves the addresses of the new epoch beside the
  epoch of the old state; the next turn may skip the fetch.  With `fetch` in
  `Faulty`, both properties of `keeper_loop` fail.
* A close crank whose last transaction is lost leaves a torn epoch, which the
  keeper itself never finishes.
* Tips claimed after the base router was closed stay in its receiver (`late`), and
  closing the router sweeps what was not yet paid to the DAO wallet.
* A snapshot backfilled for an old epoch copies fees of a later one.  With no
  stake at all, votes are errors, no tie breaker has a candidate, and the epoch is
  never decided.
* `get_node`, the balance request and the unwrap of a tda that was not returned
  panic in spawned tasks whose handles are dropped; the liveness properties except a dead task.
* A backup whose copy was cut short passes for a backup afterwards; only epochs
  two before the current one are purged, so files of an epoch the monitor did not
  see two epochs later stay.
* With `submit_as_memo` the root goes into a memo and the ballot box gets no vote:
  in `OperatorClient` the task then only takes `NoVote`.  The safety theorems hold
  for either value; `VoteFollowsTree` promises a vote without it, and the run sets
  it to `FALSE`.
* `VotesAreComputed` says that a tree has its collection beside it; the collection
  may be torn, if a later turn was killed while it wrote the file again.
* `admin_set_parameters` asks for a writable signer the client does not declare:
  it works as long as the admin also pays the fee.

## Proofs

What follows holds for every value of the constants that the named assumptions
allow (TLC evaluates them on every run).  Each safety proof has the same shape:
the initial states satisfy an inductive invariant, each action preserves it, the
property follows; TLC checked every invariant on the instance of its run, or a
larger one, before it was proved.

`BallotBoxProofs`, for all sets of operators and roots, weights, array lengths
and parameters:

* `BallotBoxInvariant`: the inductive invariant.  That a decision is final does
  not follow from the guards alone: one needs that the winner keeps its tally and
  its two thirds, for that that tallies are exactly the votes pointing at them,
  and for that that votes and tallies are well formed.  The invariant is the
  conjunction of the parts of the properties TLC checks.
* `VotesAreAlwaysTallied`, `ConsensusAlwaysHolds`, `DecisionsAreFinal`,
  `DecisionIsCopied` and `UploadsAgree` state all five properties of the run
  `ballot_box`; `VotesAreFrozen` and the theorems on single parts follow too.  That
  two ballots cannot both hold two thirds rests on `Precision > 4` and on the
  disjointness of their voters.
* `RoutingOnlyReads`: `VotingAndRouting` implements `BallotBox`, so the above holds
  while rewards are routed.  `VotesAreFinalWhenRouted` is its `RoutedVotesAreFinal`:
  rewards that were routed mean that the window was over, and a window that is over
  stays so unless it is raised (`RoutedInv`).
* `CombinedInvariant`, and from it `PassesNeverStick` and `PassesUseOneTally`
  (`PassNeverSticks`, `OneTallyPerPass`).  Here the votes are no constant but what
  the ballot box holds, and every slice reads them afresh.  The lemmas of
  `KeeperRewardsProofs` say what an instruction does to sound votes, and are used
  for these (`K`), with the keeper taking no part.  The votes are sound because the
  winner has a tally, so that no empty vote counts as one for it (`VotesAreSound`);
  and they stay during a pass because a pass stops half way only after it has
  routed something (`RoutingHasTotal`), which the invariant has to remember: then
  `RoutedInv` says that voting is over.  Between passes the votes may change, and
  neither the ledgers nor the plan depend on them (`VotesAreOnlyRead`).

`KeeperRewardsProofs`, for all fees, operators, votes, delegations, slice sizes,
deposits and numbers of failures:

* `RewardsInvariant`: the inductive invariant `IInv`, one part each for the base
  router, the operators' routers, the receivers, the lamports, the progress and
  the keeper.  That the ledgers balance is not inductive: the next slice of a pass
  takes shares out of what earlier slices left.  What has to be known half way is
  `PassFits`: the shares of all recipients still pending fit into what each group
  has left.  It holds when a pass begins, since shares that round down add up to
  no more than the whole (`SharesFit`), and a slice keeps it, since it takes the
  shares of the first pending recipients and the saved position makes the others
  exactly what is pending next (`SavedPassFits`).  The operators' routers have the
  same with delegations for recipients (`NcnSound`).
* `NoLamportIsLost` is `LamportsConserved` and `LedgersAlwaysBalance` is
  `LedgersBalance`, the two invariants of `reward_flow`.  They cover the keeper
  working alone, with failures and closing, and anybody sending anything.
* `PlansAreKept`, and from it `SlicesAlwaysAgree` (`SlicesAgree`).  The property
  compares the end of a pass with the reference computed when it began, and says
  nothing of the states between.  `PlanInv` does: the plan is what visiting all that
  is still pending at once would lead to (`WholePass`, `WholeNcnPass`).  It holds at
  the start, where the reference sums by operator and the pass by recipient
  (`FreshPlan`, `FreshNcnPlan`); a slice keeps it, because what it routes and what
  the rest routes add up to the whole, group by group and for the DAO too, for the
  saved position also saves the rewards that shares are computed from
  (`RestSplits`, `SliceKeepsWhole`, `VaultSliceKeepsWhole`).

`SumTheorems` has what these need of sums: monotony, splitting, change of one
value, scaling, sums by kind.  `SumOf(f)` (`Sums`) is the cardinality of a set with
`f[x]` elements for each `x`, and TLC checks on small functions that it is the sum
(`SumOfIsSum`).  Where an induction is needed it runs over the subsets of a finite
set, as the closure of a set of "good" subsets (`SubsetInduction`), which the
provers can instantiate.

`EpochStakeProofs`, for all vaults, mints, weights, operators and deposits:

* `WeightsInvariant`, and from it `TablesCoverTheNcn` and `FinalizedTablesAreFrozen`
  (`TableCoversNcn`, `FinalizedTableIsFrozen`).  `initialize_weight_table` compares
  the number of the NCN's vaults with the number of registered ones.  That equal
  counts mean equal sets needs that the registry has no vault twice and only the
  NCN's (`RegistryInv`); and the copy is made in a later transaction, when the
  registry may have grown, so the table is compared with the vaults required at
  the first one (`TableInv`).
* `StakeInvariant`, and from it `StakeAddsUp` and `StakeIsCountedOnce`
  (`WeightsAddUp`, `StakeCountedOnce`).  Sums over entries and over final operators
  are inductive as they stand, with the counts: an operator snapshot with as many
  entries as the table has vaults, none twice, has them all, and so for operators
  (`SnapshotsInv`).  That no token counts for two operators is not: one needs that
  what an entry of the present epoch counted is still with its operator, which
  holds because stake moves only in an up to date vault and is freed only by the
  update, and that a vault's tokens add up to its deposits (`TokensInv`).

`EpochLifecycleProofs`, for all operators, vaults, sizes and configurations:

* `EpochAccountsInvariant`, and from it `StatusesAgree`, `NothingIsOrphaned`,
  `RegistrationsAreCounted` and `ClosedStaysClosed`: four properties of
  `epoch_lifecycle`.  `are_all_closed` accepts an operator snapshot that the epoch
  state calls `DNE`, which a half allocated one is: that nothing is orphaned rests
  on the counters.  Closing needs a decision, a decision a vote, a vote a complete
  epoch snapshot, and that every operator of it is finished (`CountInv`), so that
  no snapshot is half allocated by then.
* `KeeperImplementsLifecycle`: each step of `KeeperCrank` is a step of
  `EpochLifecycle` or leaves its accounts alone, so all of it holds under the
  keeper's cranks, which is the specification of the run.

`KeeperLoopProofs`: `KeeperCranksWhatItRead` is `CranksWhatItRead` for all numbers
of epochs, under the hypothesis that `fetch` is not among the failing sections.
The code needs it, see Observations.

`OperatorNodeProofs`, for all epochs, roots, kills and directories:
`VotesAreAlwaysComputed`, `LoopSkipsNoEpoch` and `NewestSnapshotIsKept`.  The first
needs what the root stands for that the main loop and the task carry between a
read and its use (`FilesInv`, `VoteInv`); the second that the cluster is at most
two epochs past the loop's last target unless a turn was slow (`WalkInv`); the third
that what the monitor has noted belongs to its target epochs, and that the only
partial file is the one being copied (`MonitorInv`, `CopyInv`, `BestInv`).

`FeeConfigProofs`, for all groups, fees, caps and numbers of epochs:

* `FeeBuffersInvariant`, `SnapshotsAreTimely`, `UpdatesDoAccumulate`, and
  `BuffersImplementSchedule`, the refinement.  The strengthening is
  `TiedBuffersAreEqual`: with equal activation epochs `set_fees_to_current` copies
  `fee_1` onto itself and `fee_2` stays in force, so tied buffers must be equal;
  and that both the present and the coming fees passed `check_fees_okay`.

Only model-checked:

* liveness under fairness (`EpochsFinish`, `ClaimsArePaid`, `EveryEpochCompletes`,
  `VoteFollowsTree`, `LateSnapshotsAreBackedUp`, `StakeIsSettled`,
  `FinishedIsComplete`, `ClaimsAreMade`), which is out of the prover's reach;
* `TornOnlyByFailure`, which rests on the program not refusing the keeper's last
  transaction: `Refused` is stated with `ENABLED`;
* trees and proofs (`TipTrees`, `MerkleTree`), whose definitions are recursive;
* `InstructionInterface`, whose tables are finite data: there TLC's check is
  complete.

## Not modelled

* Signer and address checks beyond what `InstructionInterface` compares (each is
  one comparison, with no state); lamports for rent; formatting, logging, metrics.
* Creation of the config and the change of admin roles, and the CLI's commands for
  them: single transactions.  The CLI's getters, arguments and test helpers, and
  the commands that end in `todo!()`.
* The replay of the ledger and the bank it yields: the validator's code.  Of
  `ledger_utils.rs` the choice of the snapshot and the end of the replay are
  modelled.
* Hash functions, which are symbolic; the JSON files' layout.
* The generated account and error types, the JavaScript client, the bindings of
  other programs, `shank_cli`: no control of their own.
* The VRF monitor and prover of the operator client: `lib.rs` does not declare
  them, the crates they use are not in the repository, and they share no state with
  the tip router.

## Plan

All safety invariants and action properties of the runs that the provers can reach
are proved.  What is worth adding next is model, not proof: fetches that fail half
way through a change of epoch, tasks of the operator client that panic, snapshots
backfilled for old epochs, and epochs without stake, each of which Observations
describes and no property covers.
