---------------------------- MODULE RewardRouting ----------------------------
(***************************************************************************)
(* The flow of one epoch's rewards after voting: the BaseRewardRouter      *)
(* splits what reaches its receiver among the base fee groups and, per NCN *)
(* fee group, among the operators that voted for the winning ballot; the   *)
(* NcnRewardRouter of an operator and group splits its part between the    *)
(* operator and the vaults delegated to it.  Routing may take several      *)
(* transactions: each handles at most max_iterations recipients and saves  *)
(* where it stopped.  Receivers count lamports above their rent.           *)
(***************************************************************************)
EXTENDS Integers, Sequences, FiniteSets, Sums

CONSTANTS
    BaseGroups,      \* base fee groups
    Dao,             \* BaseFeeGroup::dao()
    GroupCount,      \* NCN fee groups are 1 .. GroupCount, in routing order
    BaseFee,         \* base_fee_bps of the epoch snapshot's fees, by base group
    NcnFee,          \* ncn_fee_bps of the same, by NCN group
    Operators,       \* operators with an operator snapshot for this epoch
    FinalVotes,      \* the votes when voting is over: [operator, wins, weight]
    OperatorFee,     \* OperatorFee[o]: operator_fee_bps of o's snapshot
    MaxBps,          \* MAX_BPS, what the operator fee is a share of
    Delegations,     \* Delegations[o]: o's [vault, weight] entries, in array order
    BaseIterations,  \* values of max_iterations callers give route_base_rewards
    NcnIterations,   \* the same for route_ncn_rewards
    Deposits,        \* amounts that may reach the base receiver at once
    MaxRewards       \* bound on the sum of the deposits

Groups == 1 .. GroupCount
Routers == Operators \X Groups
Vaults == UNION {{Delegations[o][i].vault : i \in DOMAIN Delegations[o]} : o \in Operators}

\* The weight of o's snapshot, a sum the snapshot model shows to be exact.
OperatorWeight(o, g) == SumOver(LAMBDA i : Delegations[o][i].weight[g], DOMAIN Delegations[o])

ASSUME RoutingAssumption ==
    /\ IsFiniteSet(BaseGroups) /\ Dao \in BaseGroups /\ BaseFee \in [BaseGroups -> Nat]
    /\ GroupCount \in Nat /\ NcnFee \in [Groups -> Nat]
    /\ IsFiniteSet(Operators) /\ MaxBps \in Nat /\ OperatorFee \in [Operators -> 0 .. MaxBps]
    /\ FinalVotes \in Seq([operator : Operators, wins : BOOLEAN, weight : [Groups -> Nat]])
    /\ \A o \in Operators : Delegations[o] \in Seq([vault : Vaults, weight : [Groups -> Nat]])
    /\ BaseIterations \subseteq Nat /\ NcnIterations \subseteq Nat
    /\ Deposits \subseteq Nat \ {0} /\ MaxRewards \in Nat

VARIABLES
    Votes,         \* operator_votes of the ballot box, which routing only reads
    receiver,      \* lamports above rent in the base reward receiver
    base,          \* the BaseRewardRouter account
    ncn_receiver,  \* the same for the receiver of each NcnRewardRouter
    ncn,           \* the NcnRewardRouter accounts
    paid,          \* lamports paid to base wallets, operators and vaults
    deposited,     \* lamports ever sent to the base receiver
    progress,      \* distribution progress of the EpochState account
    plan           \* history: how the routing pass in progress has to end

vars == <<Votes, receiver, base, ncn_receiver, ncn, paid, deposited, progress, plan>>

WinningVotes == {v \in DOMAIN Votes : Votes[v].wins}

\* The weight of the winning tally in NCN group g, a sum the voting model shows
\* to be exact.
WinningWeight(g) == SumOver(LAMBDA v : Votes[v].weight[g], WinningVotes)

NoLast == <<>>
RoutersInit ==
    /\ receiver = 0
    /\ base = [total |-> 0, pool |-> 0, processed |-> 0,
               base_rewards |-> [b \in BaseGroups |-> 0],
               group_rewards |-> [g \in Groups |-> 0],
               routes |-> [r \in Routers |-> 0], last |-> NoLast]
    /\ ncn_receiver = [r \in Routers |-> 0]
    /\ ncn = [r \in Routers |-> [total |-> 0, pool |-> 0, processed |-> 0, operator_rewards |-> 0,
                                 vault_routes |-> [v \in Vaults |-> 0], last |-> NoLast]]
    /\ paid = [p \in BaseGroups \cup Operators \cup Vaults |-> 0]
    /\ deposited = 0
    /\ progress = [total |-> [tally |-> 0, total |-> 0], base |-> [tally |-> 0, total |-> 0],
                   ncn |-> [r \in Routers |-> [tally |-> 0, total |-> 0]]]
    /\ plan = [base |-> base, ncn |-> ncn]

Init == Votes = FinalVotes /\ RoutersInit

still_routing(router) == router.last # NoLast

\* floor(rewards * part / whole), and nothing for a part of zero.
Share_Ceil(rewards, part, whole) ==
    IF part = 0 THEN 0 ELSE (rewards * part + whole - 1) \div whole
Share(rewards, part, whole) == IF part = 0 THEN 0 ELSE (rewards * part) \div whole

-----------------------------------------------------------------------------
(* BaseRewardRouter                                                        *)

\* route_incoming_rewards: what the receiver holds and the router does not
\* know of enters the reward pool.
BaseIncoming(b) == LET incoming == receiver - (b.pool + b.processed)
                   IN  [b EXCEPT !.total = @ + incoming, !.pool = @ + incoming]

\* route_reward_pool: the pool is split by the fees, the DAO gets the rest.
TotalFee == SumOf(BaseFee) + SumOf(NcnFee)
Parts(fee, rewards) == [g \in DOMAIN fee |-> Share(rewards, fee[g], TotalFee)]
Plus(f, h) == [x \in DOMAIN f |-> f[x] + h[x]]

SplitPool_KeepRemainder(b) ==
    [b EXCEPT !.pool = 0, !.processed = @ + b.pool,
              !.base_rewards = Plus(@, Parts(BaseFee, b.pool)),
              !.group_rewards = Plus(@, Parts(NcnFee, b.pool))]
SplitPool(b) ==
    LET to_base == Parts(BaseFee, b.pool)
        to_ncn == Parts(NcnFee, b.pool)
        rest == b.pool - (SumOf(to_base) + SumOf(to_ncn))
    IN  [b EXCEPT !.pool = 0, !.processed = @ + b.pool,
                  !.base_rewards = Plus([b.base_rewards EXCEPT ![Dao] = @ + rest], to_base),
                  !.group_rewards = Plus(@, to_ncn)]

\* The rewards a pass splits in group g: what it had when the pass reached it.
RewardsToProcess_Remaining(b, g) == b.group_rewards[g]
RewardsToProcess(b, g) == IF still_routing(b) /\ b.last.group = g THEN b.last.rewards
                                                                  ELSE b.group_rewards[g]

\* The recipients a pass still has to visit, in order: winning votes of each
\* group with rewards, from the saved position on.
Before(p, q) == p[1] < q[1] \/ (p[1] = q[1] /\ p[2] < q[2])
Pending(b) == {p \in Groups \X WinningVotes :
                 /\ RewardsToProcess(b, p[1]) > 0
                 /\ still_routing(b) => ~ Before(p, <<b.last.group, b.last.vote>>)}

RouteShare_Ceil(b, p) ==
    Share_Ceil(RewardsToProcess(b, p[1]), Votes[p[2]].weight[p[1]], WinningWeight(p[1]))
RouteShare(b, p) ==
    Share(RewardsToProcess(b, p[1]), Votes[p[2]].weight[p[1]], WinningWeight(p[1]))

Routed(b, visited, g) == SumOver(LAMBDA p : RouteShare(b, p), {p \in visited : p[1] = g})

\* Pay the recipients in visited; finished groups give their rest to the DAO.
Visit(b, visited, finished) ==
    LET rest(g) == b.group_rewards[g] - Routed(b, visited, g)
    IN  [b EXCEPT
          !.routes = [r \in Routers |-> @[r] + SumOver(LAMBDA p : RouteShare(b, p),
                        {p \in visited : r = <<Votes[p[2]].operator, p[1]>>})],
          !.group_rewards = [g \in Groups |-> IF g \in finished THEN 0 ELSE rest(g)],
          !.base_rewards[Dao] = @ + SumOver(rest, finished)]

\* route_ncn_fee_group_rewards: up to k recipients, then save the position.
FirstOf(S, k) == {p \in S : Cardinality({q \in S : Before(q, p)}) < k}

SavePosition(b, p) == [group |-> p[1], vote |-> p[2], rewards |-> RewardsToProcess(b, p[1])]

RouteSlice(b, k) ==
    LET visited == FirstOf(Pending(b), k)
        left == Pending(b) \ visited
        stop == CHOOSE p \in left : \A q \in left : p = q \/ Before(p, q)
    IN  IF left = {}
        THEN [Visit(b, visited, Groups) EXCEPT !.last = NoLast]
        ELSE [Visit(b, visited, 1 .. stop[1] - 1) EXCEPT !.last = SavePosition(b, stop)]

\* Reference for a whole pass, whatever slices it is cut into: the share of
\* each winning operator of each group's rewards, and the rest to the DAO.
BasePlan(b) ==
    LET due(o, g) == SumOver(LAMBDA v : Share(b.group_rewards[g], Votes[v].weight[g], WinningWeight(g)),
                             {v \in WinningVotes : Votes[v].operator = o})
    IN  [b EXCEPT !.routes = [r \in Routers |-> @[r] + due(r[1], r[2])],
                  !.group_rewards = [g \in Groups |-> 0],
                  !.base_rewards[Dao] = @ + SumOver(LAMBDA g : b.group_rewards[g]
                                             - SumOver(LAMBDA o : due(o, g), Operators), Groups)]

StartBasePass(b) == IF still_routing(b) THEN b ELSE SplitPool(BaseIncoming(b))

\* Taking more from a ledger than it has is an error (ArithmeticUnderflowError):
\* from the pool in SplitPool, and from a group's rewards in RouteSlice.
PoolFits(b) == SumOf(Parts(BaseFee, b.pool)) + SumOf(Parts(NcnFee, b.pool)) <= b.pool
SliceFits(b, k) ==
    \A g \in Groups : Routed(b, FirstOf(Pending(b), k), g) <= b.group_rewards[g]

\* max_iterations counts as at least one.
AtLeastOne(k) == IF k = 0 THEN 1 ELSE k

\* process_route_base_rewards, after the end of voting.
RouteBaseRewards(k) ==
    LET started == StartBasePass(base)
        routed == RouteSlice(started, AtLeastOne(k))
    IN  /\ UNCHANGED <<Votes, receiver, ncn_receiver, ncn, paid, deposited>>
        /\ receiver >= base.pool + base.processed
        /\ still_routing(base) \/ PoolFits(BaseIncoming(base))
        /\ SliceFits(started, AtLeastOne(k))
        /\ base' = routed
        /\ progress' = [progress EXCEPT !.total.total = routed.total, !.base.total = routed.total]
        /\ plan' = IF still_routing(base) THEN plan ELSE [plan EXCEPT !.base = BasePlan(started)]

DistributeAllowed(router) == ~ still_routing(router)

\* process_distribute_base_rewards: the stake pool mints for the group's wallet.
DistributeBaseRewards(b) ==
    LET rewards == base.base_rewards[b]
    IN  /\ DistributeAllowed(base)
        /\ rewards <= base.processed /\ rewards <= receiver
        /\ base' = [base EXCEPT !.base_rewards[b] = 0, !.processed = @ - rewards]
        /\ receiver' = receiver - rewards
        /\ paid' = [paid EXCEPT ![b] = @ + rewards]
        /\ progress' = [progress EXCEPT !.total.tally = @ + rewards, !.base.tally = @ + rewards]
        /\ UNCHANGED <<Votes, ncn_receiver, ncn, deposited, plan>>

\* process_distribute_base_ncn_reward_route: from the base receiver to the
\* receiver of the operator's router.
DistributeBaseNcnRewardRoute(r) ==
    LET rewards == base.routes[r]
    IN  /\ DistributeAllowed(base)
        /\ rewards <= base.processed /\ rewards <= receiver
        /\ base' = [base EXCEPT !.routes[r] = 0, !.processed = @ - rewards]
        /\ receiver' = receiver - rewards
        /\ ncn_receiver' = [ncn_receiver EXCEPT ![r] = @ + rewards]
        /\ progress' = [progress EXCEPT !.base.tally = @ + rewards]
        /\ UNCHANGED <<Votes, ncn, paid, deposited, plan>>

-----------------------------------------------------------------------------
(* NcnRewardRouter                                                         *)

\* route_incoming_rewards and route_operator_rewards of the router of r.
StartNcnPass(n, r) ==
    LET incoming == ncn_receiver[r] - (n.pool + n.processed)
        fee == Share(n.pool + incoming, OperatorFee[r[1]], MaxBps)
    IN  IF still_routing(n) THEN n
        ELSE [n EXCEPT !.total = @ + incoming, !.pool = @ + incoming - fee,
                       !.processed = @ + fee, !.operator_rewards = @ + fee]

VaultShare(r, rewards, i) ==
    IF OperatorWeight(r[1], r[2]) = 0 THEN 0
    ELSE (rewards * Delegations[r[1]][i].weight[r[2]]) \div OperatorWeight(r[1], r[2])

\* Pay the delegations in visited their share of the rewards of the pass.
VisitVaults(n, r, rewards, visited) ==
    LET routed(v) == SumOver(LAMBDA i : VaultShare(r, rewards, i),
                             {i \in visited : Delegations[r[1]][i].vault = v})
        sum == SumOver(LAMBDA i : VaultShare(r, rewards, i), visited)
    IN  [n EXCEPT !.pool = @ - sum, !.processed = @ + sum,
                  !.vault_routes = [v \in Vaults |-> @[v] + routed(v)]]

\* The operator gets what the shares leave in the pool.
OperatorRemainder(n) == [n EXCEPT !.operator_rewards = @ + n.pool, !.processed = @ + n.pool,
                                  !.pool = 0, !.last = NoLast]

\* The rewards a pass splits: what the pool held when the pass began.
NcnRewardsToProcess_Remaining(n) == n.pool
NcnRewardsToProcess(n) == IF still_routing(n) THEN n.last.rewards ELSE n.pool

\* route_reward_pool: k delegations, every entry of the snapshot's array counts.
StartIndex(n) == IF still_routing(n) THEN n.last.index ELSE 1
Todo(n, r) == {i \in DOMAIN Delegations[r[1]] : i >= StartIndex(n)}
VaultSlice(n, r, k) == {i \in Todo(n, r) : i < StartIndex(n) + k}

VaultSliceFits(n, r, k) ==
    SumOver(LAMBDA i : VaultShare(r, NcnRewardsToProcess(n), i), VaultSlice(n, r, k)) <= n.pool

RouteVaultSlice(n, r, k) ==
    LET rewards == NcnRewardsToProcess(n)
        visited == VaultSlice(n, r, k)
    IN  IF rewards = 0 THEN n
        ELSE IF visited = Todo(n, r) THEN OperatorRemainder(VisitVaults(n, r, rewards, visited))
        ELSE [VisitVaults(n, r, rewards, visited) EXCEPT
                !.last = [rewards |-> rewards, index |-> StartIndex(n) + k]]

\* Reference for a whole pass of the router of r.
NcnPlan(n, r) ==
    LET due == SumOver(LAMBDA i : VaultShare(r, n.pool, i), DOMAIN Delegations[r[1]])
    IN  [n EXCEPT !.pool = 0, !.processed = @ + n.pool, !.operator_rewards = @ + n.pool - due,
                  !.vault_routes = [v \in Vaults |-> @[v] + SumOver(LAMBDA i : VaultShare(r, n.pool, i),
                        {i \in DOMAIN Delegations[r[1]] : Delegations[r[1]][i].vault = v})]]

\* process_route_ncn_rewards
RouteNcnRewards(r, k) ==
    LET started == StartNcnPass(ncn[r], r)
        routed == RouteVaultSlice(started, r, AtLeastOne(k))
    IN  /\ UNCHANGED <<Votes, receiver, base, ncn_receiver, paid, deposited>>
        /\ ncn_receiver[r] >= ncn[r].pool + ncn[r].processed
        /\ VaultSliceFits(started, r, AtLeastOne(k))
        /\ ncn' = [ncn EXCEPT ![r] = routed]
        /\ progress' = [progress EXCEPT !.ncn[r].total = routed.total]
        /\ plan' = IF still_routing(ncn[r]) THEN plan
                   ELSE [plan EXCEPT !.ncn[r] = NcnPlan(started, r)]

\* A payment of rewards to payee out of router r: the end of both handlers.
PayFrom(r, payee, rewards) ==
    /\ rewards <= ncn[r].processed /\ rewards <= ncn_receiver[r]
    /\ ncn_receiver' = [ncn_receiver EXCEPT ![r] = @ - rewards]
    /\ paid' = [paid EXCEPT ![payee] = @ + rewards]
    /\ progress' = [progress EXCEPT !.total.tally = @ + rewards, !.ncn[r].tally = @ + rewards]
    /\ UNCHANGED <<Votes, receiver, base, deposited, plan>>

\* process_distribute_ncn_operator_rewards
DistributeNcnOperatorRewards(r) ==
    LET rewards == ncn[r].operator_rewards
    IN  /\ DistributeAllowed(ncn[r])
        /\ PayFrom(r, r[1], rewards)
        /\ ncn' = [ncn EXCEPT ![r].operator_rewards = 0, ![r].processed = @ - rewards]

\* process_distribute_ncn_vault_rewards
DistributeNcnVaultRewards(r, v) ==
    LET rewards == ncn[r].vault_routes[v]
    IN  /\ DistributeAllowed(ncn[r])
        /\ PayFrom(r, v, rewards)
        /\ ncn' = [ncn EXCEPT ![r].vault_routes[v] = 0, ![r].processed = @ - rewards]

-----------------------------------------------------------------------------
\* Tips claimed for the epoch reach the base receiver at any time.
Deposit(n) ==
    /\ deposited + n <= MaxRewards
    /\ receiver' = receiver + n
    /\ deposited' = deposited + n
    /\ UNCHANGED <<Votes, base, ncn_receiver, ncn, paid, progress, plan>>

Next ==
    \/ \E n \in Deposits : Deposit(n)
    \/ \E k \in BaseIterations : RouteBaseRewards(k)
    \/ \E b \in BaseGroups : DistributeBaseRewards(b)
    \/ \E r \in Routers : DistributeBaseNcnRewardRoute(r)
    \/ \E r \in Routers, k \in NcnIterations : RouteNcnRewards(r, k)
    \/ \E r \in Routers : DistributeNcnOperatorRewards(r)
    \/ \E r \in Routers, v \in Vaults : DistributeNcnVaultRewards(r, v)

Spec == Init /\ [][Next]_vars

-----------------------------------------------------------------------------
(* Properties                                                              *)

\* The type invariant: in particular no ledger entry is ever negative.
TypeOK ==
    /\ receiver \in Nat /\ deposited \in 0 .. MaxRewards
    /\ base.total \in Nat /\ base.pool \in Nat /\ base.processed \in Nat
    /\ base.base_rewards \in [BaseGroups -> Nat] /\ base.group_rewards \in [Groups -> Nat]
    /\ base.routes \in [Routers -> Nat]
    /\ base.last = NoLast \/ base.last \in [group : Groups, vote : WinningVotes, rewards : Nat]
    /\ ncn_receiver \in [Routers -> Nat]
    /\ paid \in [BaseGroups \cup Operators \cup Vaults -> Nat]
    /\ \A r \in Routers :
          /\ ncn[r].total \in Nat /\ ncn[r].pool \in Nat /\ ncn[r].processed \in Nat
          /\ ncn[r].operator_rewards \in Nat /\ ncn[r].vault_routes \in [Vaults -> Nat]

\* BaseRewardRouter: rewards_processed is exactly what the fee groups and the
\* operators' routes hold, also half way through a sliced pass, the receiver has
\* the lamports for all of it, and a pass that ends leaves nothing unassigned.
BaseLedgerBalances ==
    /\ base.processed = SumOf(base.base_rewards) + SumOf(base.group_rewards) + SumOf(base.routes)
    /\ ~ still_routing(base) => base.pool = 0 /\ SumOf(base.group_rewards) = 0
    /\ receiver >= base.pool + base.processed

\* NcnRewardRouter: the same for each operator's router and receiver.
NcnLedgersBalance ==
    \A r \in Routers :
        /\ ncn[r].processed = ncn[r].operator_rewards + SumOf(ncn[r].vault_routes)
        /\ ~ still_routing(ncn[r]) => ncn[r].pool = 0
        /\ ncn_receiver[r] >= ncn[r].pool + ncn[r].processed

\* A pass of route_base_rewards that is cut into slices of any sizes, with
\* deposits arriving between them, pays exactly what one undisturbed pass pays,
\* and so does a pass of route_ncn_rewards.
SlicesAgree ==
    [][/\ still_routing(base) /\ ~ still_routing(base') => base' = plan.base
       /\ \A r \in Routers :
             still_routing(ncn[r]) /\ ~ still_routing(ncn'[r]) => ncn'[r] = plan.ncn[r]]_vars

\* A router never gets stuck half way: the next slice of a started pass never
\* fails with ArithmeticUnderflowError.
SlicesNeverFail ==
    /\ still_routing(base) => \A k \in BaseIterations : SliceFits(base, AtLeastOne(k))
    /\ \A r \in Routers : still_routing(ncn[r]) =>
          \A k \in NcnIterations : VaultSliceFits(ncn[r], r, AtLeastOne(k))

\* The epoch state's progress accounts for every routed lamport: what the base
\* router passed on, and what reached a wallet in the end.
ProgressAccounts ==
    /\ progress.base.total = base.total /\ progress.total.total = base.total
    /\ progress.base.tally + base.pool + base.processed = base.total
    /\ progress.total.tally + base.pool + base.processed + SumOf(ncn_receiver) = base.total
    /\ \A r \in Routers :
          progress.ncn[r].tally + ncn[r].pool + ncn[r].processed = progress.ncn[r].total
=============================================================================
