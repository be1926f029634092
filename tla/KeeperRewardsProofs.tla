------------------------ MODULE KeeperRewardsProofs ------------------------
(***************************************************************************)
(* Proofs about KeeperRewards and the routers of RewardRouting.            *)
(***************************************************************************)
EXTENDS KeeperRewards, SumTheorems

Payees == BaseGroups \cup Operators \cup Vaults
Positions == [group : Groups, vote : WinningVotes, rewards : Nat]
BaseRecords ==
    [total : Nat, pool : Nat, processed : Nat, base_rewards : [BaseGroups -> Nat],
     group_rewards : [Groups -> Nat], routes : [Routers -> Nat], last : {NoLast} \cup Positions]
NcnRecords ==
    [total : Nat, pool : Nat, processed : Nat, operator_rewards : Nat,
     vault_routes : [Vaults -> Nat], last : {NoLast} \cup [rewards : Nat, index : Nat]]
Count == [tally : Nat, total : Nat]

\* The ledger of the base router, and what the rest of its pass may still take
\* from each group.
Assigned(b) == SumOf(b.base_rewards) + SumOf(b.group_rewards) + SumOf(b.routes)
PassFits(b) == \A g \in Groups : Routed(b, Pending(b), g) <= b.group_rewards[g]
BaseSound(b) ==
    /\ b \in BaseRecords
    /\ b.processed = Assigned(b)
    /\ IF still_routing(b) THEN PassFits(b) ELSE \A g \in Groups : b.group_rewards[g] = 0
BaseInv == BaseSound(base) /\ base.pool = 0

\* The same for the router of r.
VaultsDue(n, r, S) == SumOver(LAMBDA i : VaultShare(r, NcnRewardsToProcess(n), i), S)
NcnSound(n, r) ==
    /\ n \in NcnRecords
    /\ n.processed = n.operator_rewards + SumOf(n.vault_routes)
    /\ IF still_routing(n) THEN VaultsDue(n, r, Todo(n, r)) <= n.pool ELSE n.pool = 0
NcnInv == ncn \in [Routers -> NcnRecords] /\ \A r \in Routers : NcnSound(ncn[r], r)

\* The receivers have the lamports that their routers assigned; closing takes them.
FundsInv ==
    /\ receiver \in Nat /\ ncn_receiver \in [Routers -> Nat] /\ late \in Nat
    /\ IF BaseRouter \in closed THEN receiver = late ELSE receiver >= base.processed /\ late = 0
    /\ \A r \in Routers : IF r \in closed THEN ncn_receiver[r] = 0
                          ELSE ncn_receiver[r] >= ncn[r].pool + ncn[r].processed

LamportsInv ==
    /\ deposited \in 0 .. MaxRewards /\ paid \in [Payees -> Nat] /\ swept \in Nat
    /\ deposited = receiver + SumOf(ncn_receiver) + SumOf(paid) + swept

Progresses == [total : Count, base : Count, ncn : [Routers -> Count]]
ProgressInv ==
    /\ progress \in Progresses
    /\ progress.base.total = base.total /\ progress.total.total = base.total
    /\ progress.base.tally + base.processed = base.total
    /\ closed = {} => progress.total.tally + base.processed + SumOf(ncn_receiver) = base.total
    /\ \A r \in Routers :
          /\ progress.ncn[r].total = ncn[r].total
          /\ progress.ncn[r].tally + ncn[r].pool + ncn[r].processed = ncn[r].total

ControlInv ==
    /\ Votes = FinalVotes /\ alone \in BOOLEAN
    /\ closed \subseteq Routers \cup {BaseRouter}
    /\ ~ alone => todo = <<>> /\ closed = {}

IInv == ControlInv /\ BaseInv /\ NcnInv /\ FundsInv /\ LamportsInv /\ ProgressInv

-----------------------------------------------------------------------------
(* The constants                                                           *)

LEMMA FiniteSets ==
    /\ IsFiniteSet(Groups) /\ Groups \subseteq Nat /\ IsFiniteSet(BaseGroups) /\ IsFiniteSet(Operators)
    /\ IsFiniteSet(Routers) /\ IsFiniteSet(Vaults) /\ IsFiniteSet(Payees)
    /\ \A o \in Operators : IsFiniteSet(DOMAIN Delegations[o])
<1>1. IsFiniteSet(Groups) /\ Groups \subseteq Nat
  <2>1. \A a, b \in Int : IsFiniteSet(a .. b)
    BY FS_Interval
  <2> QED  BY <2>1, RoutingAssumption DEF Groups
<1>2. IsFiniteSet(Routers) /\ IsFiniteSet(BaseGroups) /\ IsFiniteSet(Operators)
  BY <1>1, RoutingAssumption, FS_Product DEF Routers
<1>3. ASSUME NEW o \in Operators  PROVE IsFiniteSet(DOMAIN Delegations[o])
  <2>1. PICK n \in Nat : DOMAIN Delegations[o] = 1 .. n
    BY RoutingAssumption
  <2>2. \A a, b \in Int : IsFiniteSet(a .. b)
    BY FS_Interval
  <2> QED  BY <2>1, <2>2
<1> DEFINE of(o) == {Delegations[o][i].vault : i \in DOMAIN Delegations[o]}
           sets == {of(o) : o \in Operators}
<1>4. ASSUME NEW o \in Operators  PROVE IsFiniteSet(of(o))
  <2> DEFINE D == DOMAIN Delegations[o]
             f == [i \in D |-> Delegations[o][i].vault]
  <2>1. f \in Surjection(D, of(o))
    BY DEF Surjection
  <2>2. IsFiniteSet(D)
    BY <1>3
  <2> HIDE DEF f, of, D
  <2> QED  BY <2>1, <2>2, FS_Surjection
<1>5. IsFiniteSet(sets)
  <2> DEFINE f == [o \in Operators |-> of(o)]
  <2>1. f \in Surjection(Operators, sets)
    BY DEF Surjection
  <2> HIDE DEF f, of, sets
  <2> QED  BY <1>2, <2>1, FS_Surjection
<1>6. IsFiniteSet(UNION sets)
  <2>1. \A t \in sets : IsFiniteSet(t)
    BY <1>4
  <2> HIDE DEF sets
  <2> QED  BY <1>5, <2>1, FS_UNION
<1>7. IsFiniteSet(Vaults)
  BY <1>6 DEF Vaults
<1>8. IsFiniteSet(Payees)
  BY <1>2, <1>7, FS_Union DEF Payees
<1> QED  BY <1>1, <1>2, <1>3, <1>7, <1>8

LEMMA BaseRouterIsNone == BaseRouter \notin Routers
BY DEF BaseRouter, Routers

LEMMA Delegated ==
    ASSUME NEW o \in Operators, NEW g \in Groups
    PROVE  /\ [i \in DOMAIN Delegations[o] |-> Delegations[o][i].weight[g]]
                \in [DOMAIN Delegations[o] -> Nat]
           /\ \A i \in DOMAIN Delegations[o] : i \in Nat /\ Delegations[o][i].vault \in Vaults
           /\ OperatorWeight(o, g) = SumOf([i \in DOMAIN Delegations[o] |-> Delegations[o][i].weight[g]])
           /\ OperatorWeight(o, g) \in Nat
<1> DEFINE D == DOMAIN Delegations[o]
           w == [i \in D |-> Delegations[o][i].weight[g]]
<1>1. \A i \in D : i \in Nat /\ Delegations[o][i] \in [vault : Vaults, weight : [Groups -> Nat]]
  <2> DEFINE E == [vault : Vaults, weight : [Groups -> Nat]]
  <2>1. Delegations[o] \in Seq(E)
    BY RoutingAssumption
  <2> HIDE DEF E
  <2>2. \A i \in D : i \in Nat /\ Delegations[o][i] \in E
    BY <2>1
  <2> QED  BY <2>2 DEF E
<1>2. w \in [D -> Nat] /\ \A i \in D : i \in Nat /\ Delegations[o][i].vault \in Vaults
  BY <1>1
<1>3. OperatorWeight(o, g) = SumOf(w)
  BY DEF OperatorWeight, SumOver
<1>4. SumOf(w) \in Nat
  <2>1. IsFiniteSet(D)
    BY FiniteSets
  <2> HIDE DEF w, D
  <2> QED  BY <1>2, <2>1, SumType
<1> QED  BY <1>2, <1>3, <1>4

-----------------------------------------------------------------------------
(* The shares of the winning votes                                         *)

\* What routing needs to know of the votes it reads.
VotesSound ==
    /\ IsFiniteSet(WinningVotes) /\ WinningVotes \subseteq Nat
    /\ \A v \in WinningVotes : Votes[v].operator \in Operators /\ Votes[v].weight \in [Groups -> Nat]

LEMMA FinalVotesAreSound ==
    ASSUME Votes = FinalVotes
    PROVE  VotesSound
<1>1. PICK n \in Nat : DOMAIN Votes = 1 .. n
  BY RoutingAssumption
<1>2. IsFiniteSet(DOMAIN Votes)
  <2>1. \A a, b \in Int : IsFiniteSet(a .. b)
    BY FS_Interval
  <2> QED  BY <1>1, <2>1
<1>3. IsFiniteSet(WinningVotes) /\ WinningVotes \subseteq Nat
  <2>1. WinningVotes \subseteq DOMAIN Votes
    BY DEF WinningVotes
  <2> QED  BY <1>1, <1>2, <2>1, FS_Subset
<1>4. \A v \in DOMAIN Votes : Votes[v] \in [operator : Operators, wins : BOOLEAN, weight : [Groups -> Nat]]
  <2> DEFINE E == [operator : Operators, wins : BOOLEAN, weight : [Groups -> Nat]]
  <2>1. Votes \in Seq(E)
    BY RoutingAssumption
  <2> HIDE DEF E
  <2>2. \A v \in DOMAIN Votes : Votes[v] \in E
    BY <2>1
  <2> QED  BY <2>2 DEF E
<1>5. \A v \in WinningVotes : Votes[v].operator \in Operators /\ Votes[v].weight \in [Groups -> Nat]
  BY <1>4 DEF WinningVotes
<1> QED  BY <1>3, <1>5 DEF VotesSound

LEMMA ShareType ==
    ASSUME NEW a \in Nat, NEW p \in Nat, NEW w \in Nat, p <= w
    PROVE  Share(a, p, w) \in Nat /\ Share(a, p, w) <= a
<1>1. CASE p = 0
  BY <1>1 DEF Share
<1>2. CASE p # 0
  <2>1. a * p \in Nat /\ w \in Nat \ {0}
    BY <1>2
  <2>2. (a * p) \div w \in Nat /\ w * ((a * p) \div w) <= a * p
    BY <2>1, DivBounds
  <2>3. a * p <= w * a
    OBVIOUS
  <2>4. ASSUME NEW d \in Nat, w * d <= w * a  PROVE d <= a
    <3>1. ASSUME d > a  PROVE FALSE
      <4>1. w * (a + 1) <= w * d
        BY <3>1
      <4>2. w * (a + 1) = w * a + w /\ w * a \in Nat /\ w * d \in Nat
        OBVIOUS
      <4> QED  BY <2>1, <2>4, <4>1, <4>2
    <3> QED  BY <3>1
  <2>5. w * ((a * p) \div w) <= w * a
    BY <2>2, <2>3
  <2>6. (a * p) \div w <= a
    BY <2>2, <2>4, <2>5
  <2> QED  BY <1>2, <2>2, <2>6 DEF Share
<1> QED  BY <1>1, <1>2

Recipients == Groups \X WinningVotes
Shares(b) == [p \in Recipients |-> RouteShare(b, p)]
WeightIn(g) == [v \in WinningVotes |-> Votes[v].weight[g]]

LEMMA WinningWeights ==
    ASSUME VotesSound, NEW g \in Groups
    PROVE  /\ WeightIn(g) \in [WinningVotes -> Nat]
           /\ WinningWeight(g) = SumOf(WeightIn(g)) /\ WinningWeight(g) \in Nat
           /\ \A v \in WinningVotes : Votes[v].weight[g] \in Nat /\ Votes[v].weight[g] <= WinningWeight(g)
<1>1. WeightIn(g) \in [WinningVotes -> Nat]
  BY DEF WeightIn, VotesSound
<1>2. WinningWeight(g) = SumOf(WeightIn(g))
  BY DEF WinningWeight, SumOver, WeightIn
<1>3. IsFiniteSet(WinningVotes)
  BY DEF VotesSound
<1>4. WinningWeight(g) \in Nat
  BY <1>1, <1>2, <1>3, SumType
<1>5. \A v \in WinningVotes : WeightIn(g)[v] \in Nat /\ WeightIn(g)[v] <= SumOf(WeightIn(g))
  BY <1>1, <1>3, SumTake
<1>6. \A v \in WinningVotes : WeightIn(g)[v] = Votes[v].weight[g]
  BY DEF WeightIn
<1> QED  BY <1>1, <1>2, <1>4, <1>5, <1>6

LEMMA RewardsType ==
    ASSUME NEW b \in BaseRecords, NEW g \in Groups
    PROVE  RewardsToProcess(b, g) \in Nat
<1>1. CASE b.last = NoLast
  BY <1>1 DEF BaseRecords, RewardsToProcess, still_routing
<1>2. CASE b.last # NoLast
  BY <1>2 DEF BaseRecords, RewardsToProcess, still_routing, Positions
<1> QED  BY <1>1, <1>2

LEMMA SharesType ==
    ASSUME VotesSound, NEW b \in BaseRecords
    PROVE  Shares(b) \in [Recipients -> Nat] /\ IsFiniteSet(Recipients)
<1>1. ASSUME NEW p \in Recipients  PROVE RouteShare(b, p) \in Nat
  <2>1. p[1] \in Groups /\ p[2] \in WinningVotes
    BY DEF Recipients
  <2>2. RewardsToProcess(b, p[1]) \in Nat
    BY <2>1, RewardsType
  <2>3. /\ Votes[p[2]].weight[p[1]] \in Nat /\ Votes[p[2]].weight[p[1]] <= WinningWeight(p[1])
        /\ WinningWeight(p[1]) \in Nat
    BY <2>1, WinningWeights
  <2> QED  BY <2>2, <2>3, ShareType DEF RouteShare
<1>2. IsFiniteSet(Recipients)
  BY FiniteSets, FS_Product DEF Recipients, VotesSound
<1> QED  BY <1>1, <1>2 DEF Shares

LEMMA RoutedIsSum ==
    ASSUME VotesSound, NEW b \in BaseRecords, NEW V \in SUBSET Recipients, NEW g \in Groups
    PROVE  /\ Routed(b, V, g) = SumOf(On(Shares(b), {p \in V : p[1] = g}))
           /\ Routed(b, V, g) \in Nat
<1> DEFINE T == {p \in V : p[1] = g}
<1>1. On(Shares(b), T) = [p \in T |-> RouteShare(b, p)]
  BY DEF On, Shares
<1>2. Routed(b, V, g) = SumOf(On(Shares(b), T))
  BY <1>1 DEF Routed, SumOver
<1>3. SumOf(On(Shares(b), T)) \in Nat
  <2>1. T \in SUBSET Recipients
    OBVIOUS
  <2> HIDE DEF T
  <2> QED  BY <2>1, SharesType, SumSplit
<1> QED  BY <1>2, <1>3

\* A pass that starts: the shares of a group are at most its rewards.
LEMMA GroupSharesFit ==
    ASSUME VotesSound, NEW b \in BaseRecords, NEW V \in SUBSET Recipients, NEW g \in Groups
    PROVE  Routed(b, V, g) <= RewardsToProcess(b, g)
<1> DEFINE S == {p \in Recipients : p[1] = g}
           w == [p \in S |-> Votes[p[2]].weight[g]]
           a == RewardsToProcess(b, g)
           total == WinningWeight(g)
           f == [p \in S |-> IF w[p] = 0 THEN 0 ELSE (a * w[p]) \div total]
           T == {p \in V : p[1] = g}
<1>1. IsFiniteSet(S) /\ IsFiniteSet(WinningVotes)
  <2>1. S \in SUBSET Recipients
    OBVIOUS
  <2> QED  BY <2>1, SharesType, FS_Subset DEF VotesSound
<1>2. w \in [S -> Nat]
  BY WinningWeights DEF Recipients
<1>3. a \in Nat /\ total \in Nat
  BY RewardsType, WinningWeights
<1>4. SumOf(w) = total
  <2> DEFINE k == [p \in S |-> p[2]]
             q == [v \in WinningVotes |-> SumOf(On(w, {p \in S : k[p] = v}))]
  <2>1. k \in [S -> WinningVotes]
    BY DEF Recipients
  <2>2. ASSUME NEW v \in WinningVotes
        PROVE  SumOf(On(w, {p \in S : k[p] = v})) = WeightIn(g)[v]
    <3> DEFINE x == <<g, v>>
    <3>1. {p \in S : k[p] = v} = {x}
      BY DEF Recipients
    <3>2. On(w, {x}) \in [{x} -> Nat] /\ On(w, {x})[x] = WeightIn(g)[v]
      <4>1. x \in S /\ x[2] = v
        BY DEF Recipients
      <4>2. w[x] = Votes[v].weight[g] /\ w[x] \in Nat
        BY <1>2, <4>1
      <4> QED  BY <4>2 DEF On, WeightIn
    <3> HIDE DEF w, x
    <3>3. SumOf(On(w, {x})) = On(w, {x})[x]
      BY <3>2, SumSingle
    <3> QED  BY <3>1, <3>2, <3>3
  <2>3. q = WeightIn(g)
    BY <2>2 DEF WeightIn
  <2>4. SumOf(q) = SumOf(w)
    <3> HIDE DEF w, S, k
    <3> QED  BY <1>1, <1>2, <2>1, SumByKind
  <2> QED  BY <2>3, <2>4, WinningWeights
<1>5. f \in [S -> Nat] /\ SumOf(f) <= a
  <2> HIDE DEF S, w, a, total
  <2>1. SumOf(w) <= total
    BY <1>3, <1>4
  <2> QED  BY <1>1, <1>2, <1>3, <2>1, SharesFit
<1>6. T \in SUBSET S
  OBVIOUS
<1>7. On(Shares(b), T) = On(f, T)
  <2>1. ASSUME NEW p \in T  PROVE Shares(b)[p] = f[p]
    BY DEF Shares, RouteShare, Share
  <2> QED  BY <2>1 DEF On
<1>8. SumOf(On(f, T)) <= SumOf(f) /\ SumOf(On(f, T)) \in Nat /\ SumOf(f) \in Nat
  <2> HIDE DEF f, T, S
  <2> QED  BY <1>1, <1>5, <1>6, SumSplit, SumType
<1>9. Routed(b, V, g) = SumOf(On(f, T))
  BY <1>7, RoutedIsSum
<1> HIDE DEF f, T, a
<1> QED  BY <1>3, <1>5, <1>8, <1>9 DEF a

-----------------------------------------------------------------------------
(* A slice of a pass of the base router                                    *)

\* A payment that is added to the ledger of Dao.
LEMMA DaoGets ==
    ASSUME NEW f \in [BaseGroups -> Nat], NEW n \in Nat
    PROVE  /\ [f EXCEPT ![Dao] = @ + n] \in [BaseGroups -> Nat]
           /\ SumOf([f EXCEPT ![Dao] = @ + n]) = SumOf(f) + n /\ SumOf(f) \in Nat
<1> DEFINE v == f[Dao] + n
<1>1. IsFiniteSet(BaseGroups) /\ Dao \in BaseGroups /\ v \in Nat
  BY RoutingAssumption
<1> HIDE DEF v
<1>2. /\ Put(f, Dao, v) \in [BaseGroups -> Nat]
      /\ SumOf(Put(f, Dao, v)) = SumOf(f) - f[Dao] + v
      /\ SumOf(f) \in Nat /\ f[Dao] \in Nat
  BY <1>1, SumPut
<1>3. Put(f, Dao, v) = [f EXCEPT ![Dao] = @ + n]
  BY DEF Put, v
<1>4. SumOf(f) - f[Dao] + v = SumOf(f) + n
  BY <1>2 DEF v
<1> QED  BY <1>2, <1>3, <1>4

LEMMA BaseIsRecord ==
    ASSUME NEW b \in BaseRecords
    PROVE  b = [total |-> b.total, pool |-> b.pool, processed |-> b.processed,
                base_rewards |-> b.base_rewards, group_rewards |-> b.group_rewards,
                routes |-> b.routes, last |-> b.last]
BY DEF BaseRecords

\* What the recipients in V get, by router, and what the groups keep.
DueTo(b, V) ==
    [r \in Routers |-> SumOf(On(Shares(b), {p \in V : r = <<Votes[p[2]].operator, p[1]>>}))]
RoutedIn(b, V) == [g \in Groups |-> Routed(b, V, g)]
Rest(b, V) == [g \in Groups |-> b.group_rewards[g] - Routed(b, V, g)]
Unfinished(b, V, F) == [g \in Groups |-> IF g \in F THEN 0 ELSE Rest(b, V)[g]]

LEMMA VisitIs ==
    ASSUME VotesSound, NEW b \in BaseRecords, NEW V \in SUBSET Recipients, NEW F \in SUBSET Groups
    PROVE  Visit(b, V, F) =
              [total |-> b.total, pool |-> b.pool, processed |-> b.processed,
               base_rewards |-> [b.base_rewards EXCEPT ![Dao] = @ + SumOf(On(Rest(b, V), F))],
               group_rewards |-> Unfinished(b, V, F),
               routes |-> [r \in Routers |-> b.routes[r] + DueTo(b, V)[r]],
               last |-> b.last]
<1> DEFINE rest(g) == b.group_rewards[g] - Routed(b, V, g)
<1>1. ASSUME NEW r \in Routers
      PROVE  SumOver(LAMBDA p : RouteShare(b, p), {p \in V : r = <<Votes[p[2]].operator, p[1]>>})
                = DueTo(b, V)[r]
  <2> DEFINE T == {p \in V : r = <<Votes[p[2]].operator, p[1]>>}
  <2>1. On(Shares(b), T) = [p \in T |-> RouteShare(b, p)]
    BY DEF On, Shares
  <2> QED  BY <2>1 DEF DueTo, SumOver
<1>2. SumOver(rest, F) = SumOf(On(Rest(b, V), F))
  <2>1. On(Rest(b, V), F) = [g \in F |-> rest(g)]
    BY DEF On, Rest
  <2> QED  BY <2>1 DEF SumOver
<1>3. [g \in Groups |-> IF g \in F THEN 0 ELSE rest(g)] = Unfinished(b, V, F)
  BY DEF Unfinished, Rest
<1>4. [r \in Routers |-> b.routes[r] + SumOver(LAMBDA p : RouteShare(b, p),
                            {p \in V : r = <<Votes[p[2]].operator, p[1]>>})]
        = [r \in Routers |-> b.routes[r] + DueTo(b, V)[r]]
  BY <1>1
<1>5. Visit(b, V, F) = [b EXCEPT !.routes = [r \in Routers |-> b.routes[r] + DueTo(b, V)[r]],
                                 !.group_rewards = Unfinished(b, V, F),
                                 !.base_rewards[Dao] = @ + SumOf(On(Rest(b, V), F))]
  BY <1>2, <1>3, <1>4 DEF Visit
<1>6. b = [total |-> b.total, pool |-> b.pool, processed |-> b.processed,
           base_rewards |-> b.base_rewards, group_rewards |-> b.group_rewards,
           routes |-> b.routes, last |-> b.last]
  BY BaseIsRecord
<1> QED  BY <1>5, <1>6

LEMMA VisitBalances ==
    ASSUME VotesSound, NEW b \in BaseRecords, NEW V \in SUBSET Recipients, NEW F \in SUBSET Groups,
           \A g \in Groups : Routed(b, V, g) <= b.group_rewards[g],
           NEW c, c = Visit(b, V, F)
    PROVE  /\ c \in BaseRecords /\ c.last = b.last
           /\ c.total = b.total /\ c.pool = b.pool /\ c.processed = b.processed
           /\ c.group_rewards = Unfinished(b, V, F)
           /\ Assigned(c) = Assigned(b)
<1> DEFINE due == DueTo(b, V)
           rest == Rest(b, V)
           kept == Unfinished(b, V, F)
           n == SumOf(On(rest, F))
           br == [b.base_rewards EXCEPT ![Dao] = @ + n]
           rt == [r \in Routers |-> b.routes[r] + due[r]]
           paidNow == SumOf(On(Shares(b), V))
<1>1. /\ b.base_rewards \in [BaseGroups -> Nat] /\ b.group_rewards \in [Groups -> Nat]
      /\ b.routes \in [Routers -> Nat]
  BY DEF BaseRecords
<1>2. Shares(b) \in [Recipients -> Nat] /\ IsFiniteSet(Recipients)
  BY SharesType
<1>3. /\ IsFiniteSet(V) /\ On(Shares(b), V) \in [V -> Nat]
      /\ \A T \in SUBSET V : On(On(Shares(b), V), T) = On(Shares(b), T)
  BY <1>2, FS_Subset DEF On
<1>4. paidNow \in Nat
  BY <1>3, SumType
<1>5. SumOf(due) = paidNow /\ due \in [Routers -> Nat]
  <2> DEFINE k == [p \in V |-> <<Votes[p[2]].operator, p[1]>>]
             f == On(Shares(b), V)
             q == [r \in Routers |-> SumOf(On(f, {p \in V : k[p] = r}))]
  <2>1. k \in [V -> Routers]
    BY DEF VotesSound, Recipients, Routers
  <2>2. ASSUME NEW r \in Routers  PROVE q[r] = due[r]
    <3>1. {p \in V : k[p] = r} = {p \in V : r = <<Votes[p[2]].operator, p[1]>>}
      OBVIOUS
    <3> QED  BY <1>3, <3>1 DEF DueTo
  <2>3. q = due
    BY <2>2 DEF DueTo
  <2>4. f \in [V -> Nat] /\ IsFiniteSet(V) /\ IsFiniteSet(Routers)
    BY <1>3, FiniteSets
  <2>5. SumOf(q) = SumOf(f) /\ q \in [Routers -> Nat]
    <3> HIDE DEF f, k
    <3> QED  BY <2>1, <2>4, SumByKind
  <2> QED  BY <2>3, <2>5
<1>6. SumOf(RoutedIn(b, V)) = paidNow /\ RoutedIn(b, V) \in [Groups -> Nat]
  <2> DEFINE k == [p \in V |-> p[1]]
             f == On(Shares(b), V)
             q == [g \in Groups |-> SumOf(On(f, {p \in V : k[p] = g}))]
  <2>1. k \in [V -> Groups]
    BY DEF Recipients
  <2>2. ASSUME NEW g \in Groups  PROVE q[g] = Routed(b, V, g)
    <3>1. {p \in V : k[p] = g} = {p \in V : p[1] = g}
      OBVIOUS
    <3>2. q[g] = SumOf(On(f, {p \in V : p[1] = g}))
      BY <3>1
    <3>3. On(f, {p \in V : p[1] = g}) = On(Shares(b), {p \in V : p[1] = g})
      BY <1>3 DEF On
    <3>4. Routed(b, V, g) = SumOf(On(Shares(b), {p \in V : p[1] = g}))
      BY RoutedIsSum
    <3> HIDE DEF q
    <3> QED  BY <3>2, <3>3, <3>4, Zenon
  <2>3. q = RoutedIn(b, V)
    BY <2>2 DEF RoutedIn
  <2>4. f \in [V -> Nat] /\ IsFiniteSet(V) /\ IsFiniteSet(Groups)
    BY <1>3, FiniteSets
  <2>5. SumOf(q) = SumOf(f) /\ q \in [Groups -> Nat]
    <3> HIDE DEF f, k
    <3> QED  BY <2>1, <2>4, SumByKind
  <2> QED  BY <2>3, <2>5
<1>7. rest \in [Groups -> Nat] /\ SumOf(b.group_rewards) = SumOf(rest) + paidNow
  <2> DEFINE h == RoutedIn(b, V)
             q == [g \in Groups |-> rest[g] + h[g]]
  <2>1. rest \in [Groups -> Nat]
    <3>1. \A g \in Groups : Routed(b, V, g) \in Nat /\ Routed(b, V, g) <= b.group_rewards[g]
      BY RoutedIsSum
    <3> QED  BY <1>1, <3>1 DEF Rest
  <2>2. q = b.group_rewards
    <3>1. ASSUME NEW g \in Groups  PROVE rest[g] + h[g] = b.group_rewards[g]
      BY <1>1, <1>6, RoutedIsSum DEF Rest, RoutedIn
    <3> QED  BY <1>1, <3>1
  <2>3. SumOf(q) = SumOf(rest) + SumOf(h)
    <3>1. h \in [Groups -> Nat] /\ IsFiniteSet(Groups)
      BY <1>6, FiniteSets
    <3> HIDE DEF rest, h
    <3> QED  BY <2>1, <3>1, SumPlus
  <2> QED  BY <1>6, <2>1, <2>2, <2>3
<1>8. kept \in [Groups -> Nat] /\ SumOf(rest) = n + SumOf(kept) /\ n \in Nat /\ SumOf(kept) \in Nat
  <2>1. kept \in [Groups -> Nat] /\ IsFiniteSet(Groups)
    BY <1>7, FiniteSets DEF Unfinished
  <2>2. SumOf(rest) = SumOf(On(rest, F)) + SumOf(On(rest, Groups \ F)) /\ SumOf(On(rest, F)) \in Nat
    <3> HIDE DEF rest
    <3> QED  BY <1>7, <2>1, SumSplit
  <2>3. /\ SumOf(kept) = SumOf(On(kept, F)) + SumOf(On(kept, Groups \ F))
        /\ SumOf(On(kept, Groups \ F)) \in Nat
    <3> HIDE DEF kept
    <3> QED  BY <2>1, SumSplit
  <2>4. On(kept, Groups \ F) = On(rest, Groups \ F)
    BY DEF On, Unfinished
  <2>5. SumOf(On(kept, F)) = 0
    <3>1. On(kept, F) = [g \in F |-> On(kept, F)[g]] /\ \A g \in F : On(kept, F)[g] = 0
      BY DEF On, Unfinished
    <3> QED  BY <3>1, SumZero
  <2> QED  BY <2>1, <2>2, <2>3, <2>4, <2>5
<1>9. br \in [BaseGroups -> Nat] /\ SumOf(br) = SumOf(b.base_rewards) + n /\ SumOf(b.base_rewards) \in Nat
  <2> HIDE DEF n
  <2> QED  BY <1>1, <1>8, DaoGets
<1>10. rt \in [Routers -> Nat] /\ SumOf(rt) = SumOf(b.routes) + SumOf(due) /\ SumOf(b.routes) \in Nat
  <2> HIDE DEF due
  <2> QED  BY <1>1, <1>5, FiniteSets, SumPlus, SumType
<1>11. c = [total |-> b.total, pool |-> b.pool, processed |-> b.processed, base_rewards |-> br,
            group_rewards |-> kept, routes |-> rt, last |-> b.last]
  BY VisitIs
<1>12. Assigned(c) = Assigned(b)
  <2>1. c.base_rewards = br /\ c.group_rewards = kept /\ c.routes = rt
    BY <1>11
  <2>2. SumOf(b.group_rewards) \in Nat
    BY <1>1, FiniteSets, SumType
  <2> HIDE DEF br, kept, rt, n, due, rest, paidNow
  <2> QED  BY <1>4, <1>5, <1>7, <1>8, <1>9, <1>10, <2>1, <2>2 DEF Assigned
<1>13. c \in BaseRecords
  <2> HIDE DEF br, kept, rt
  <2> QED  BY <1>8, <1>9, <1>10, <1>11 DEF BaseRecords
<1> QED  BY <1>11, <1>12, <1>13

\* The next recipient of a pass.
LEMMA NextRecipient ==
    ASSUME VotesSound, NEW L \in SUBSET Recipients, L # {}
    PROVE  \E p \in L : \A q \in L : p = q \/ Before(p, q)
<1>1. \A p \in L : p = <<p[1], p[2]>> /\ p[1] \in Nat /\ p[2] \in Nat
  <2>1. \A p \in L : p = <<p[1], p[2]>> /\ p[1] \in Groups /\ p[2] \in WinningVotes
    BY DEF Recipients
  <2>2. Groups \subseteq Nat /\ WinningVotes \subseteq Nat
    BY FiniteSets DEF VotesSound
  <2> QED  BY <2>1, <2>2
<1>2. PICK g \in {p[1] : p \in L} : \A h \in {p[1] : p \in L} : g <= h
  <2>1. {p[1] : p \in L} \subseteq Nat /\ {p[1] : p \in L} # {}
    BY <1>1
  <2> QED  BY <2>1, LeastNat
<1> DEFINE M == {p \in L : p[1] = g}
<1>3. PICK v \in {p[2] : p \in M} : \A u \in {p[2] : p \in M} : v <= u
  <2>1. {p[2] : p \in M} \subseteq Nat /\ {p[2] : p \in M} # {}
    BY <1>1, <1>2
  <2> HIDE DEF M
  <2> QED  BY <2>1, LeastNat
<1>4. PICK p \in M : p[2] = v
  BY <1>3
<1>5. ASSUME NEW q \in L  PROVE p = q \/ Before(p, q)
  <2>1. p[1] = g /\ p[2] = v /\ p = <<p[1], p[2]>> /\ q = <<q[1], q[2]>>
    BY <1>1, <1>4
  <2>2. g <= q[1] /\ g \in Nat /\ v \in Nat /\ q[1] \in Nat /\ q[2] \in Nat
    BY <1>1, <1>2, <1>4
  <2>3. q[1] = g => v <= q[2]
    BY <1>3
  <2> QED  BY <2>1, <2>2, <2>3 DEF Before
<1> QED  BY <1>4, <1>5

\* visited is an initial part of the recipients that are left.
LEMMA FirstOfIsInitial ==
    ASSUME VotesSound, NEW L \in SUBSET Recipients, NEW k \in Nat,
           NEW p \in FirstOf(L, k), NEW q \in L, Before(q, p)
    PROVE  q \in FirstOf(L, k)
<1> DEFINE A == {x \in L : Before(x, q)}
           B == {x \in L : Before(x, p)}
<1>1. \A x \in L : x[1] \in Nat /\ x[2] \in Nat
  BY FiniteSets DEF Recipients, VotesSound
<1>2. A \subseteq B
  BY <1>1 DEF Before, FirstOf
<1>3. IsFiniteSet(B)
  <2>1. IsFiniteSet(Recipients)
    BY FiniteSets, FS_Product DEF Recipients, VotesSound
  <2>2. B \subseteq Recipients
    OBVIOUS
  <2> HIDE DEF B
  <2> QED  BY <2>1, <2>2, FS_Subset
<1>4. Cardinality(B) < k
  BY DEF FirstOf
<1>5. Cardinality(A) <= Cardinality(B) /\ Cardinality(A) \in Nat /\ Cardinality(B) \in Nat
  <2> HIDE DEF A, B
  <2> QED  BY <1>2, <1>3, FS_Subset, FS_CardinalityType
<1>6. Cardinality(A) < k
  <2> HIDE DEF A, B
  <2> QED  BY <1>4, <1>5
<1> QED  BY <1>6 DEF FirstOf

LEMMA PendingType ==
    ASSUME NEW b, NEW k
    PROVE  Pending(b) \in SUBSET Recipients /\ FirstOf(Pending(b), k) \in SUBSET Recipients
BY DEF Pending, Recipients, FirstOf

\* What is routed of a group is routed once.
LEMMA RoutedParts ==
    ASSUME VotesSound, NEW b \in BaseRecords, NEW V \in SUBSET Recipients, NEW A \in SUBSET V,
           NEW g \in Groups
    PROVE  /\ Routed(b, V, g) = Routed(b, A, g) + Routed(b, V \ A, g)
           /\ Routed(b, A, g) \in Nat /\ Routed(b, V \ A, g) \in Nat /\ Routed(b, V, g) \in Nat
           /\ Routed(b, A, g) <= Routed(b, V, g)
<1> DEFINE In(X) == {p \in X : p[1] = g}
           f == Shares(b)
<1>1. f \in [Recipients -> Nat] /\ IsFiniteSet(Recipients)
  BY SharesType
<1>2. In(V) \in SUBSET Recipients /\ In(A) \in SUBSET In(V) /\ In(V \ A) = In(V) \ In(A)
  OBVIOUS
<1>3. /\ Routed(b, V, g) = SumOf(On(f, In(V))) /\ Routed(b, A, g) = SumOf(On(f, In(A)))
      /\ Routed(b, V \ A, g) = SumOf(On(f, In(V \ A)))
  BY RoutedIsSum
<1> HIDE DEF In, f
<1>4. /\ SumOf(On(f, In(V))) = SumOf(On(f, In(A))) + SumOf(On(f, In(V) \ In(A)))
      /\ SumOf(On(f, In(A))) \in Nat /\ SumOf(On(f, In(V) \ In(A))) \in Nat
      /\ SumOf(On(f, In(V))) \in Nat /\ SumOf(On(f, In(A))) <= SumOf(On(f, In(V)))
  BY <1>1, <1>2, SumParts
<1> QED  BY <1>2, <1>3, <1>4

LEMMA RoutedPartsAll ==
    ASSUME VotesSound, NEW b \in BaseRecords, NEW g \in Groups
    PROVE  \A V \in SUBSET Recipients : \A A \in SUBSET V :
              /\ Routed(b, V, g) = Routed(b, A, g) + Routed(b, V \ A, g)
              /\ Routed(b, A, g) \in Nat /\ Routed(b, V \ A, g) \in Nat
BY RoutedParts

\* A pass may be continued from the saved position: what is left of a group is
\* enough for the recipients that are left.
LEMMA SavedPassFits ==
    ASSUME VotesSound, NEW b \in BaseRecords, NEW k \in Nat, PassFits(b),
           NEW V, V = FirstOf(Pending(b), k),
           NEW stop, stop \in Pending(b) \ V, \A q \in Pending(b) \ V : stop = q \/ Before(stop, q),
           NEW c \in BaseRecords, c.last = SavePosition(b, stop),
           c.group_rewards = Unfinished(b, V, 1 .. stop[1] - 1)
    PROVE  PassFits(c)
<1>1. /\ stop \in Recipients /\ stop[1] \in Groups /\ stop[2] \in WinningVotes
      /\ stop = <<stop[1], stop[2]>> /\ stop[1] \in Nat /\ stop[2] \in Nat
  <2>1. /\ stop \in Recipients /\ stop[1] \in Groups /\ stop[2] \in WinningVotes
        /\ stop = <<stop[1], stop[2]>>
    BY DEF Pending, Recipients
  <2>2. Groups \subseteq Nat /\ WinningVotes \subseteq Nat
    BY FiniteSets DEF VotesSound
  <2> QED  BY <2>1, <2>2
<1>2. /\ still_routing(c) /\ c.last.group = stop[1] /\ c.last.vote = stop[2]
      /\ c.last.rewards = RewardsToProcess(b, stop[1])
  BY DEF SavePosition, still_routing, NoLast
<1>3. Pending(c) \in SUBSET Recipients /\ Pending(b) \in SUBSET Recipients /\ V \in SUBSET Pending(b)
  BY PendingType DEF FirstOf
<1> SUFFICES ASSUME NEW g \in Groups
             PROVE  Routed(c, Pending(c), g) <= c.group_rewards[g]
  BY DEF PassFits
<1>4. CASE g # stop[1]
  <2>1. RewardsToProcess(c, g) = c.group_rewards[g]
    BY <1>2, <1>4 DEF RewardsToProcess
  <2> QED  BY <1>3, <2>1, GroupSharesFit
<1>5. CASE g = stop[1]
  <2>1. RewardsToProcess(c, g) = RewardsToProcess(b, g)
    BY <1>2, <1>5 DEF RewardsToProcess
  <2> DEFINE P == {p \in Pending(c) : p[1] = g}
             left == Pending(b) \ V
  <2>2. P \in SUBSET left
    <3> SUFFICES ASSUME NEW p \in P  PROVE p \in Pending(b) /\ p \notin V
      OBVIOUS
    <3>1. /\ p \in Recipients /\ p[1] = g /\ p[2] \in Nat /\ p = <<p[1], p[2]>>
          /\ RewardsToProcess(b, g) > 0 /\ ~ Before(p, <<c.last.group, c.last.vote>>)
      <4>1. p \in Recipients /\ p[1] = g /\ p = <<p[1], p[2]>> /\ p[2] \in WinningVotes
        BY <1>3 DEF Recipients
      <4>2. RewardsToProcess(c, p[1]) > 0 /\ ~ Before(p, <<c.last.group, c.last.vote>>)
        BY <1>2 DEF Pending
      <4> QED  BY <2>1, <4>1, <4>2 DEF VotesSound
    <3>2. stop[2] <= p[2]
      BY <1>1, <1>2, <1>5, <3>1 DEF Before
    <3>3. still_routing(b) => ~ Before(p, <<b.last.group, b.last.vote>>)
      <4>1. SUFFICES ASSUME still_routing(b)  PROVE ~ Before(p, <<b.last.group, b.last.vote>>)
        OBVIOUS
      <4>2. b.last.group \in Nat /\ b.last.vote \in Nat
        <5>1. b.last \in Positions
          BY <4>1 DEF BaseRecords, still_routing
        <5> QED  BY <5>1, FiniteSets DEF Positions, VotesSound
      <4>3. ~ Before(stop, <<b.last.group, b.last.vote>>)
        BY <4>1 DEF Pending
      <4> QED  BY <1>1, <1>5, <3>1, <3>2, <4>2, <4>3 DEF Before
    <3>4. p \in Pending(b)
      BY <3>1, <3>3 DEF Pending, Recipients
    <3>5. ASSUME p \in V  PROVE FALSE
      <4>1. p = stop \/ Before(stop, p)
        BY <1>1, <1>5, <3>1, <3>2 DEF Before
      <4>2. p # stop
        BY <3>5
      <4>3. stop \in V
        BY <1>3, <3>5, <4>1, <4>2, FirstOfIsInitial
      <4> QED  BY <4>3
    <3> QED  BY <3>4, <3>5
  <2>3. Routed(c, Pending(c), g) = Routed(b, P, g)
    <3>1. {p \in P : p[1] = g} = P
      OBVIOUS
    <3>2. On(Shares(c), P) = On(Shares(b), P)
      <4>1. ASSUME NEW p \in P  PROVE Shares(c)[p] = Shares(b)[p]
        BY <1>3, <2>1 DEF Shares, RouteShare
      <4> QED  BY <4>1 DEF On
    <3>3. P \in SUBSET Recipients
      BY <1>3
    <3>4. Routed(b, P, g) = SumOf(On(Shares(b), P))
      <4> HIDE DEF P
      <4> QED  BY <3>1, <3>3, RoutedIsSum
    <3>5. Routed(c, Pending(c), g) = SumOf(On(Shares(c), P))
      BY <1>3, RoutedIsSum
    <3> QED  BY <3>2, <3>4, <3>5
  <2>4. left \in SUBSET Recipients
    BY <1>3
  <2>5. Routed(b, P, g) <= Routed(b, left, g) /\ Routed(b, P, g) \in Nat
    <3> HIDE DEF P, left
    <3> QED  BY <2>2, <2>4, RoutedParts
  <2>6. /\ Routed(b, Pending(b), g) = Routed(b, V, g) + Routed(b, left, g)
        /\ Routed(b, V, g) \in Nat /\ Routed(b, left, g) \in Nat
    <3>1. Pending(b) \in SUBSET Recipients /\ V \in SUBSET Pending(b)
      BY <1>3
    <3>2. \A X \in SUBSET Recipients : \A A \in SUBSET X :
             /\ Routed(b, X, g) = Routed(b, A, g) + Routed(b, X \ A, g)
             /\ Routed(b, A, g) \in Nat /\ Routed(b, X \ A, g) \in Nat
      BY RoutedPartsAll
    <3> QED  BY <3>1, <3>2, Zenon
  <2>7. Routed(b, Pending(b), g) <= b.group_rewards[g] /\ b.group_rewards[g] \in Nat
    BY DEF PassFits, BaseRecords
  <2>8. c.group_rewards[g] = b.group_rewards[g] - Routed(b, V, g)
    BY <1>1, <1>5 DEF Unfinished, Rest
  <2> QED  BY <2>3, <2>5, <2>6, <2>7, <2>8
<1> QED  BY <1>4, <1>5

\* route_ncn_fee_group_rewards, in one slice or half way through a pass.
LEMMA RouteSliceSound ==
    ASSUME VotesSound, NEW b \in BaseRecords, NEW k \in Nat, b.processed = Assigned(b), PassFits(b),
           NEW c, c = RouteSlice(b, k)
    PROVE  /\ BaseSound(c) /\ c.total = b.total /\ c.pool = b.pool /\ c.processed = b.processed
           /\ still_routing(c) => Pending(b) # {}
<1> DEFINE V == FirstOf(Pending(b), k)
           left == Pending(b) \ V
           stop == CHOOSE p \in left : \A q \in left : p = q \/ Before(p, q)
<1>1. V \in SUBSET Recipients /\ V \in SUBSET Pending(b) /\ Pending(b) \in SUBSET Recipients
  BY PendingType DEF FirstOf
<1>2. \A g \in Groups : Routed(b, V, g) <= b.group_rewards[g]
  <2> SUFFICES ASSUME NEW g \in Groups  PROVE Routed(b, V, g) <= b.group_rewards[g]
    OBVIOUS
  <2>1. /\ Routed(b, V, g) <= Routed(b, Pending(b), g)
        /\ Routed(b, V, g) \in Nat /\ Routed(b, Pending(b), g) \in Nat
    <3> HIDE DEF V
    <3> QED  BY <1>1, RoutedParts
  <2>2. Routed(b, Pending(b), g) <= b.group_rewards[g] /\ b.group_rewards[g] \in Nat
    BY DEF PassFits, BaseRecords
  <2> QED  BY <2>1, <2>2
<1>3. CASE left = {}
  <2> DEFINE d == Visit(b, V, Groups)
  <2>1. /\ d \in BaseRecords /\ d.total = b.total /\ d.pool = b.pool /\ d.processed = b.processed
        /\ d.group_rewards = Unfinished(b, V, Groups) /\ Assigned(d) = Assigned(b)
    <3> HIDE DEF V
    <3> QED  BY <1>1, <1>2, VisitBalances
  <2>2. c = [d EXCEPT !.last = NoLast]
    BY <1>3 DEF RouteSlice
  <2> HIDE DEF d
  <2>3. /\ c \in BaseRecords /\ c.last = NoLast
        /\ c.total = b.total /\ c.pool = b.pool /\ c.processed = b.processed
        /\ c.base_rewards = d.base_rewards /\ c.group_rewards = d.group_rewards /\ c.routes = d.routes
    BY <2>1, <2>2 DEF BaseRecords
  <2>4. Assigned(c) = Assigned(b)
    BY <2>1, <2>3 DEF Assigned
  <2>5. \A g \in Groups : c.group_rewards[g] = 0
    BY <2>1, <2>3 DEF Unfinished
  <2> QED  BY <2>3, <2>4, <2>5 DEF BaseSound, still_routing
<1>4. CASE left # {}
  <2>1. stop \in left /\ \A q \in left : stop = q \/ Before(stop, q)
    <3>1. left \in SUBSET Recipients
      BY <1>1
    <3> HIDE DEF left
    <3> QED  BY <1>4, <3>1, NextRecipient
  <2> HIDE DEF stop
  <2>2. stop \in Pending(b) /\ stop \in Recipients /\ stop[1] \in Groups /\ stop[2] \in WinningVotes
    BY <2>1 DEF Pending, Recipients
  <2> DEFINE F == 1 .. stop[1] - 1
             d == Visit(b, V, F)
  <2>3. F \in SUBSET Groups
    BY <2>2, RoutingAssumption DEF Groups
  <2>4. /\ d \in BaseRecords /\ d.total = b.total /\ d.pool = b.pool /\ d.processed = b.processed
        /\ d.group_rewards = Unfinished(b, V, F) /\ Assigned(d) = Assigned(b)
    <3> HIDE DEF V, F
    <3> QED  BY <1>1, <1>2, <2>3, VisitBalances
  <2>5. c = [d EXCEPT !.last = SavePosition(b, stop)]
    BY <1>4 DEF RouteSlice, stop
  <2>6. SavePosition(b, stop) \in Positions
    BY <2>2, RewardsType DEF SavePosition, Positions
  <2> HIDE DEF d
  <2>7. /\ c \in BaseRecords /\ c.last = SavePosition(b, stop)
        /\ c.total = b.total /\ c.pool = b.pool /\ c.processed = b.processed
        /\ c.base_rewards = d.base_rewards /\ c.group_rewards = d.group_rewards /\ c.routes = d.routes
    BY <2>4, <2>5, <2>6 DEF BaseRecords
  <2>8. Assigned(c) = Assigned(b)
    BY <2>4, <2>7 DEF Assigned
  <2>9. PassFits(c)
    <3>1. c.group_rewards = Unfinished(b, V, F)
      BY <2>4, <2>7
    <3>2. /\ stop \in Pending(b) \ FirstOf(Pending(b), k)
          /\ \A q \in Pending(b) \ FirstOf(Pending(b), k) : stop = q \/ Before(stop, q)
      BY <2>1
    <3> QED  BY <2>7, <3>1, <3>2, SavedPassFits
  <2>10. still_routing(c)
    BY <2>7 DEF still_routing, SavePosition, NoLast
  <2>11. Pending(b) # {}
    BY <2>2
  <2> QED  BY <2>7, <2>8, <2>9, <2>10, <2>11 DEF BaseSound
<1> QED  BY <1>3, <1>4

-----------------------------------------------------------------------------
(* The start of a pass, and a transaction                                  *)

LEMMA PartsType ==
    ASSUME NEW n \in Nat
    PROVE  /\ Parts(BaseFee, n) \in [BaseGroups -> Nat] /\ SumOf(Parts(BaseFee, n)) \in Nat
           /\ Parts(NcnFee, n) \in [Groups -> Nat] /\ SumOf(Parts(NcnFee, n)) \in Nat
<1>1. /\ BaseFee \in [BaseGroups -> Nat] /\ NcnFee \in [Groups -> Nat]
      /\ IsFiniteSet(BaseGroups) /\ IsFiniteSet(Groups)
  BY RoutingAssumption, FiniteSets
<1>2. SumOf(BaseFee) \in Nat /\ SumOf(NcnFee) \in Nat
  BY <1>1, SumType
<1>3. ASSUME NEW g \in BaseGroups  PROVE Share(n, BaseFee[g], TotalFee) \in Nat
  <2>1. BaseFee[g] \in Nat /\ BaseFee[g] <= SumOf(BaseFee)
    BY <1>1, SumTake
  <2>2. BaseFee[g] <= TotalFee /\ TotalFee \in Nat
    BY <1>2, <2>1 DEF TotalFee
  <2> QED  BY <2>1, <2>2, ShareType
<1>4. ASSUME NEW g \in Groups  PROVE Share(n, NcnFee[g], TotalFee) \in Nat
  <2>1. NcnFee[g] \in Nat /\ NcnFee[g] <= SumOf(NcnFee)
    BY <1>1, SumTake
  <2>2. NcnFee[g] <= TotalFee /\ TotalFee \in Nat
    BY <1>2, <2>1 DEF TotalFee
  <2> QED  BY <2>1, <2>2, ShareType
<1>5. Parts(BaseFee, n) \in [BaseGroups -> Nat] /\ Parts(NcnFee, n) \in [Groups -> Nat]
  BY <1>1, <1>3, <1>4 DEF Parts
<1> QED  BY <1>1, <1>5, SumType

LEMMA PlusType ==
    ASSUME NEW S, IsFiniteSet(S), NEW f \in [S -> Nat], NEW h \in [S -> Nat]
    PROVE  /\ Plus(f, h) \in [S -> Nat] /\ SumOf(Plus(f, h)) = SumOf(f) + SumOf(h)
           /\ SumOf(f) \in Nat /\ SumOf(h) \in Nat
<1>1. Plus(f, h) = [x \in S |-> f[x] + h[x]]
  BY DEF Plus
<1> QED  BY <1>1, SumPlus, SumType

LEMMA SplitPoolIs ==
    ASSUME NEW b \in BaseRecords, NEW n \in Nat, n = b.pool, PoolFits(b), NEW c, c = SplitPool(b)
    PROVE  /\ c \in BaseRecords /\ c.last = b.last /\ c.total = b.total
           /\ c.pool = 0 /\ c.processed = b.processed + n
           /\ Assigned(c) = Assigned(b) + n
<1> DEFINE tb == Parts(BaseFee, n)
           tn == Parts(NcnFee, n)
           rest == n - (SumOf(tb) + SumOf(tn))
           db == [b.base_rewards EXCEPT ![Dao] = @ + rest]
<1>1. /\ tb \in [BaseGroups -> Nat] /\ SumOf(tb) \in Nat
      /\ tn \in [Groups -> Nat] /\ SumOf(tn) \in Nat
  BY PartsType
<1>2. rest \in Nat
  BY <1>1 DEF PoolFits
<1>3. /\ b.base_rewards \in [BaseGroups -> Nat] /\ b.group_rewards \in [Groups -> Nat]
      /\ b.routes \in [Routers -> Nat] /\ b.processed \in Nat
  BY DEF BaseRecords
<1>4. c = [total |-> b.total, pool |-> 0, processed |-> b.processed + n, base_rewards |-> Plus(db, tb),
           group_rewards |-> Plus(b.group_rewards, tn), routes |-> b.routes, last |-> b.last]
  <2>1. c = [b EXCEPT !.pool = 0, !.processed = b.processed + n, !.base_rewards = Plus(db, tb),
                      !.group_rewards = Plus(b.group_rewards, tn)]
    BY DEF SplitPool
  <2> HIDE DEF db, tb, tn
  <2> QED  BY <2>1, BaseIsRecord
<1>5. db \in [BaseGroups -> Nat] /\ SumOf(db) = SumOf(b.base_rewards) + rest /\ SumOf(b.base_rewards) \in Nat
  <2> HIDE DEF rest
  <2> QED  BY <1>2, <1>3, DaoGets
<1>6. Plus(db, tb) \in [BaseGroups -> Nat] /\ SumOf(Plus(db, tb)) = SumOf(db) + SumOf(tb)
  <2> HIDE DEF db, tb
  <2> QED  BY <1>1, <1>5, FiniteSets, PlusType
<1>7. /\ Plus(b.group_rewards, tn) \in [Groups -> Nat]
      /\ SumOf(Plus(b.group_rewards, tn)) = SumOf(b.group_rewards) + SumOf(tn)
      /\ SumOf(b.group_rewards) \in Nat
  <2> DEFINE gr == b.group_rewards
  <2>1. gr \in [Groups -> Nat] /\ tn \in [Groups -> Nat] /\ IsFiniteSet(Groups)
    BY <1>1, <1>3, FiniteSets
  <2> HIDE DEF tn, gr
  <2>2. /\ Plus(gr, tn) \in [Groups -> Nat] /\ SumOf(Plus(gr, tn)) = SumOf(gr) + SumOf(tn)
        /\ SumOf(gr) \in Nat
    BY <2>1, PlusType
  <2> QED  BY <2>2 DEF gr
<1>8. SumOf(b.routes) \in Nat
  BY <1>3, FiniteSets, SumType
<1> DEFINE pb == Plus(db, tb)
           pn == Plus(b.group_rewards, tn)
<1> HIDE DEF pb, pn
<1>9. c = [total |-> b.total, pool |-> 0, processed |-> b.processed + n, base_rewards |-> pb,
           group_rewards |-> pn, routes |-> b.routes, last |-> b.last]
  BY <1>4 DEF pb, pn
<1>10. pb \in [BaseGroups -> Nat] /\ pn \in [Groups -> Nat]
  BY <1>6, <1>7 DEF pb, pn
<1> HIDE DEF tb, tn, rest, db
<1>11. /\ c \in BaseRecords /\ c.last = b.last /\ c.total = b.total
       /\ c.pool = 0 /\ c.processed = b.processed + n
       /\ c.base_rewards = pb /\ c.group_rewards = pn /\ c.routes = b.routes
  BY <1>3, <1>9, <1>10 DEF BaseRecords
<1>12. SumOf(pb) + SumOf(pn) = SumOf(b.base_rewards) + SumOf(b.group_rewards) + n
  <2>1. SumOf(pb) = SumOf(b.base_rewards) + rest + SumOf(tb)
    BY <1>5, <1>6 DEF pb
  <2>2. SumOf(pn) = SumOf(b.group_rewards) + SumOf(tn)
    BY <1>7 DEF pn
  <2> QED  BY <1>1, <1>2, <1>5, <1>7, <2>1, <2>2 DEF rest
<1>13. Assigned(c) = Assigned(b) + n
  <2>1. SumOf(pb) \in Nat /\ SumOf(pn) \in Nat
    BY <1>10, FiniteSets, SumType
  <2> QED  BY <1>5, <1>7, <1>8, <1>11, <1>12, <2>1 DEF Assigned
<1> QED  BY <1>11, <1>13

\* What a pass starts or goes on from.
LEMMA StartBasePassSound ==
    ASSUME VotesSound, NEW b, BaseSound(b), b.pool = 0, receiver \in Nat, receiver >= b.processed,
           still_routing(b) \/ PoolFits(BaseIncoming(b)),
           NEW c, c = StartBasePass(b)
    PROVE  /\ c \in BaseRecords /\ c.pool = 0 /\ c.processed = Assigned(c) /\ PassFits(c)
           /\ c.processed <= receiver
           /\ c.total = b.total + (c.processed - b.processed)
<1>1. b \in BaseRecords /\ b.processed \in Nat /\ b.total \in Nat /\ b.processed = Assigned(b)
  BY DEF BaseSound, BaseRecords
<1>2. CASE still_routing(b)
  <2>1. c = b /\ PassFits(b)
    BY <1>2 DEF StartBasePass, BaseSound
  <2> QED  BY <1>1, <2>1
<1>3. CASE ~ still_routing(b)
  <2> DEFINE n == receiver - b.processed
             d == BaseIncoming(b)
  <2>1. n \in Nat
    BY <1>1
  <2>2. d = [total |-> b.total + n, pool |-> n, processed |-> b.processed,
             base_rewards |-> b.base_rewards, group_rewards |-> b.group_rewards,
             routes |-> b.routes, last |-> b.last]
    <3>1. receiver - (b.pool + b.processed) = n /\ b.pool + n = n
      BY <1>1, <2>1
    <3> HIDE DEF n
    <3>2. d = [b EXCEPT !.total = @ + n, !.pool = @ + n]
      BY <3>1 DEF BaseIncoming
    <3> HIDE DEF d
    <3>3. b = [total |-> b.total, pool |-> b.pool, processed |-> b.processed,
               base_rewards |-> b.base_rewards, group_rewards |-> b.group_rewards,
               routes |-> b.routes, last |-> b.last]
      BY <1>1, BaseIsRecord
    <3> QED  BY <3>1, <3>2, <3>3
  <2>3. c = SplitPool(d) /\ PoolFits(d)
    BY <1>3 DEF StartBasePass
  <2> HIDE DEF n, d
  <2>4. /\ d \in BaseRecords /\ d.total = b.total + n /\ d.pool = n /\ d.processed = b.processed
        /\ d.last = b.last /\ d.base_rewards = b.base_rewards /\ d.group_rewards = b.group_rewards
        /\ d.routes = b.routes
    BY <1>1, <2>1, <2>2 DEF BaseRecords
  <2>5. Assigned(d) = Assigned(b)
    BY <2>4 DEF Assigned
  <2>6. /\ c \in BaseRecords /\ c.last = d.last /\ c.total = d.total /\ c.pool = 0
        /\ c.processed = d.processed + n /\ Assigned(c) = Assigned(d) + n
    BY <2>1, <2>3, <2>4, SplitPoolIs
  <2>7. c.processed = Assigned(c) /\ c.processed <= receiver /\ c.processed - b.processed = n
    BY <1>1, <2>1, <2>4, <2>5, <2>6 DEF n
  <2>8. PassFits(c)
    <3>1. \A g \in Groups : RewardsToProcess(c, g) = c.group_rewards[g]
      BY <1>3, <2>4, <2>6 DEF RewardsToProcess, still_routing
    <3> QED  BY <2>6, <3>1, GroupSharesFit, PendingType DEF PassFits
  <2> QED  BY <2>4, <2>6, <2>7, <2>8
<1> QED  BY <1>2, <1>3

LEMMA RouteBaseSound ==
    ASSUME VotesSound, NEW b, BaseSound(b), b.pool = 0, receiver \in Nat, receiver >= b.processed,
           still_routing(b) \/ PoolFits(BaseIncoming(b)), NEW k \in Nat,
           NEW c, c = RouteSlice(StartBasePass(b), AtLeastOne(k))
    PROVE  /\ BaseSound(c) /\ c.pool = 0 /\ c.processed <= receiver
           /\ c.total = b.total + (c.processed - b.processed)
<1> DEFINE d == StartBasePass(b)
           m == AtLeastOne(k)
<1>1. /\ d \in BaseRecords /\ d.pool = 0 /\ d.processed = Assigned(d) /\ PassFits(d)
      /\ d.processed <= receiver /\ d.total = b.total + (d.processed - b.processed)
  BY StartBasePassSound
<1>2. m \in Nat
  BY DEF AtLeastOne
<1> HIDE DEF d, m
<1>3. c = RouteSlice(d, m)
  BY DEF d, m
<1>4. BaseSound(c) /\ c.total = d.total /\ c.pool = d.pool /\ c.processed = d.processed
  BY <1>1, <1>2, <1>3, RouteSliceSound
<1> QED  BY <1>1, <1>4

-----------------------------------------------------------------------------
(* The router of an operator and group                                     *)

Entries(r) == DOMAIN Delegations[r[1]]
VaultShares(r, a) == [i \in Entries(r) |-> VaultShare(r, a, i)]

LEMMA VaultSharesFit ==
    ASSUME NEW r \in Routers, NEW a \in Nat
    PROVE  /\ VaultShares(r, a) \in [Entries(r) -> Nat] /\ SumOf(VaultShares(r, a)) <= a
           /\ IsFiniteSet(Entries(r)) /\ Entries(r) \subseteq Nat
           /\ \A i \in Entries(r) : Delegations[r[1]][i].vault \in Vaults
<1> DEFINE S == Entries(r)
           w == [i \in S |-> Delegations[r[1]][i].weight[r[2]]]
           total == OperatorWeight(r[1], r[2])
           f == [i \in S |-> IF w[i] = 0 THEN 0 ELSE (a * w[i]) \div total]
<1>1. r[1] \in Operators /\ r[2] \in Groups
  BY DEF Routers
<1>2. /\ w \in [S -> Nat] /\ total = SumOf(w) /\ total \in Nat
      /\ \A i \in S : i \in Nat /\ Delegations[r[1]][i].vault \in Vaults
  BY <1>1, Delegated DEF Entries
<1>3. IsFiniteSet(S)
  BY <1>1, FiniteSets DEF Entries
<1>4. f \in [S -> Nat] /\ SumOf(f) <= a
  <2> HIDE DEF S, w, total
  <2>1. SumOf(w) <= total
    BY <1>2
  <2>2. f = [i \in S |-> IF w[i] = 0 THEN 0 ELSE (a * w[i]) \div total]
    OBVIOUS
  <2> HIDE DEF f
  <2> QED  BY <1>2, <1>3, <2>1, <2>2, SharesFit, SMTT(30)
<1>5. ASSUME NEW i \in S  PROVE VaultShare(r, a, i) = f[i]
  <2>1. w[i] \in Nat /\ w[i] <= total
    <3> HIDE DEF S, w, total
    <3> QED  BY <1>2, <1>3, SumTake
  <2>2. VaultShare(r, a, i) = IF total = 0 THEN 0 ELSE (a * w[i]) \div total
    BY DEF VaultShare
  <2> HIDE DEF w, total, S
  <2>3. CASE w[i] = 0
    <3>1. total # 0 => 0 \div total = 0
      BY <1>2
    <3>2. a * w[i] = 0
      BY <2>3
    <3> QED  BY <2>2, <2>3, <3>1, <3>2
  <2>4. CASE w[i] # 0
    <3>1. total # 0
      BY <1>2, <2>1, <2>4
    <3> QED  BY <2>2, <2>4, <3>1
  <2> QED  BY <2>3, <2>4
<1>6. VaultShares(r, a) = f
  BY <1>5 DEF VaultShares
<1> QED  BY <1>2, <1>3, <1>4, <1>6

LEMMA VaultsDueIs ==
    ASSUME NEW r \in Routers, NEW n, NEW a \in Nat, a = NcnRewardsToProcess(n), NEW S \in SUBSET Entries(r)
    PROVE  VaultsDue(n, r, S) = SumOf(On(VaultShares(r, a), S)) /\ VaultsDue(n, r, S) \in Nat
<1>1. On(VaultShares(r, a), S) = [i \in S |-> VaultShare(r, a, i)]
  BY DEF On, VaultShares
<1>2. VaultsDue(n, r, S) = SumOf(On(VaultShares(r, a), S))
  BY <1>1 DEF VaultsDue, SumOver
<1>3. SumOf(On(VaultShares(r, a), S)) \in Nat
  BY VaultSharesFit, SumSplit
<1> QED  BY <1>2, <1>3

LEMMA NcnIsRecord ==
    ASSUME NEW n \in NcnRecords
    PROVE  n = [total |-> n.total, pool |-> n.pool, processed |-> n.processed,
                operator_rewards |-> n.operator_rewards, vault_routes |-> n.vault_routes,
                last |-> n.last]
BY DEF NcnRecords

LEMMA NcnRewardsType ==
    ASSUME NEW n \in NcnRecords
    PROVE  NcnRewardsToProcess(n) \in Nat /\ StartIndex(n) \in Nat
<1>1. CASE n.last = NoLast
  BY <1>1 DEF NcnRecords, NcnRewardsToProcess, StartIndex, still_routing
<1>2. CASE n.last # NoLast
  BY <1>2 DEF NcnRecords, NcnRewardsToProcess, StartIndex, still_routing
<1> QED  BY <1>1, <1>2

\* What a pass of the router starts or goes on from.
LEMMA StartNcnPassSound ==
    ASSUME NEW r \in Routers, NEW n, NcnSound(n, r),
           ncn_receiver[r] \in Nat, ncn_receiver[r] >= n.pool + n.processed,
           NEW m, m = StartNcnPass(n, r)
    PROVE  /\ m \in NcnRecords /\ m.processed = m.operator_rewards + SumOf(m.vault_routes)
           /\ VaultsDue(m, r, Todo(m, r)) <= m.pool
           /\ ncn_receiver[r] >= m.pool + m.processed
           /\ m.total = n.total + (m.pool + m.processed) - (n.pool + n.processed)
<1>1. /\ n \in NcnRecords /\ n.total \in Nat /\ n.pool \in Nat /\ n.processed \in Nat
      /\ n.operator_rewards \in Nat /\ n.vault_routes \in [Vaults -> Nat]
      /\ n.processed = n.operator_rewards + SumOf(n.vault_routes)
  BY DEF NcnSound, NcnRecords
<1>2. CASE still_routing(n)
  <2>1. m = n /\ VaultsDue(n, r, Todo(n, r)) <= n.pool
    BY <1>2 DEF StartNcnPass, NcnSound
  <2> QED  BY <1>1, <2>1
<1>3. CASE ~ still_routing(n)
  <2> DEFINE inc == ncn_receiver[r] - (n.pool + n.processed)
             fee == Share(n.pool + inc, OperatorFee[r[1]], MaxBps)
  <2>1. inc \in Nat /\ n.pool + inc \in Nat
    BY <1>1
  <2>2. fee \in Nat /\ fee <= n.pool + inc
    <3>1. OperatorFee[r[1]] \in Nat /\ MaxBps \in Nat /\ OperatorFee[r[1]] <= MaxBps
      BY RoutingAssumption DEF Routers
    <3> HIDE DEF inc
    <3> QED  BY <2>1, <3>1, ShareType
  <2>3. m = [n EXCEPT !.total = @ + inc, !.pool = @ + inc - fee, !.processed = @ + fee,
                      !.operator_rewards = @ + fee]
    BY <1>3 DEF StartNcnPass
  <2> HIDE DEF fee
  <2>4. n.last = NoLast
    BY <1>3 DEF still_routing
  <2>5. m = [total |-> n.total + inc, pool |-> n.pool + inc - fee, processed |-> n.processed + fee,
             operator_rewards |-> n.operator_rewards + fee, vault_routes |-> n.vault_routes,
             last |-> NoLast]
    <3>1. n = [total |-> n.total, pool |-> n.pool, processed |-> n.processed,
               operator_rewards |-> n.operator_rewards, vault_routes |-> n.vault_routes,
               last |-> n.last]
      BY <1>1, NcnIsRecord
    <3> DEFINE u == n.total + inc
               p == n.pool + inc - fee
               q == n.processed + fee
               o == n.operator_rewards + fee
    <3>2. m = [n EXCEPT !.total = u, !.pool = p, !.processed = q, !.operator_rewards = o]
      BY <2>3
    <3> HIDE DEF u, p, q, o
    <3>3. m = [total |-> u, pool |-> p, processed |-> q, operator_rewards |-> o,
               vault_routes |-> n.vault_routes, last |-> n.last]
      BY <3>1, <3>2
    <3> QED  BY <2>4, <3>3 DEF u, p, q, o
  <2>6. /\ m.total = n.total + inc /\ m.pool = n.pool + inc - fee /\ m.processed = n.processed + fee
        /\ m.operator_rewards = n.operator_rewards + fee /\ m.vault_routes = n.vault_routes
        /\ m.last = NoLast
    BY <2>5
  <2>7. n.pool + inc - fee \in Nat /\ n.total + inc \in Nat /\ n.processed + fee \in Nat /\ n.operator_rewards + fee \in Nat
    <3> HIDE DEF inc
    <3> QED  BY <1>1, <2>1, <2>2
  <2>8. m \in NcnRecords
    <3> DEFINE u == n.total + inc
               p == n.pool + inc - fee
               q == n.processed + fee
               o == n.operator_rewards + fee
    <3>1. u \in Nat /\ p \in Nat /\ q \in Nat /\ o \in Nat
      BY <2>7
    <3>2. m = [total |-> u, pool |-> p, processed |-> q, operator_rewards |-> o,
               vault_routes |-> n.vault_routes, last |-> NoLast]
      BY <2>5
    <3> HIDE DEF u, p, q, o
    <3> QED  BY <1>1, <3>1, <3>2 DEF NcnRecords
  <2>9. m.processed = m.operator_rewards + SumOf(m.vault_routes)
    <3>1. SumOf(n.vault_routes) \in Nat
      BY <1>1, FiniteSets, SumType
    <3> QED  BY <1>1, <2>2, <2>6, <3>1
  <2>10. VaultsDue(m, r, Todo(m, r)) <= m.pool
    <3>1. NcnRewardsToProcess(m) = m.pool /\ m.pool \in Nat /\ Todo(m, r) \in SUBSET Entries(r)
      BY <2>6, <2>7 DEF NcnRewardsToProcess, still_routing, Todo, Entries
    <3> DEFINE f == VaultShares(r, m.pool)
               S == Entries(r)
               T == Todo(m, r)
    <3>2. VaultsDue(m, r, T) = SumOf(On(f, T))
      <4> HIDE DEF T
      <4> QED  BY <3>1, VaultsDueIs DEF T
    <3>3. f \in [S -> Nat] /\ IsFiniteSet(S) /\ SumOf(f) <= m.pool
      BY <3>1, VaultSharesFit
    <3>4. SumOf(On(f, T)) <= SumOf(f) /\ SumOf(On(f, T)) \in Nat /\ SumOf(f) \in Nat
      <4>1. T \in SUBSET S
        BY <3>1
      <4> HIDE DEF f, S, T
      <4> QED  BY <3>3, <4>1, SumSplit, SumType
    <3> HIDE DEF f
    <3> QED  BY <3>1, <3>2, <3>3, <3>4
  <2>11. ncn_receiver[r] >= m.pool + m.processed /\ m.total = n.total + (m.pool + m.processed) - (n.pool + n.processed)
    BY <1>1, <2>2, <2>6
  <2> QED  BY <2>8, <2>9, <2>10, <2>11
<1> QED  BY <1>2, <1>3

\* What the vaults of the entries in S get.
DueToVaults(r, a, S) ==
    [v \in Vaults |-> SumOf(On(VaultShares(r, a), {i \in S : Delegations[r[1]][i].vault = v}))]

LEMMA VisitVaultsIs ==
    ASSUME NEW r \in Routers, NEW m \in NcnRecords, NEW a \in Nat, NEW S \in SUBSET Entries(r),
           NEW s, s = SumOf(On(VaultShares(r, a), S)), s <= m.pool,
           NEW c, c = VisitVaults(m, r, a, S)
    PROVE  /\ c = [total |-> m.total, pool |-> m.pool - s, processed |-> m.processed + s,
                   operator_rewards |-> m.operator_rewards,
                   vault_routes |-> [v \in Vaults |-> m.vault_routes[v] + DueToVaults(r, a, S)[v]],
                   last |-> m.last]
           /\ c \in NcnRecords /\ SumOf(c.vault_routes) = SumOf(m.vault_routes) + s
           /\ s \in Nat /\ SumOf(m.vault_routes) \in Nat
<1> DEFINE f == VaultShares(r, a)
           due == DueToVaults(r, a, S)
           vr == [v \in Vaults |-> m.vault_routes[v] + due[v]]
           routed(v) == SumOver(LAMBDA i : VaultShare(r, a, i), {i \in S : Delegations[r[1]][i].vault = v})
<1>1. /\ f \in [Entries(r) -> Nat] /\ IsFiniteSet(Entries(r))
      /\ \A i \in S : Delegations[r[1]][i].vault \in Vaults
  BY VaultSharesFit
<1>2. /\ IsFiniteSet(S) /\ On(f, S) \in [S -> Nat]
      /\ \A T \in SUBSET S : On(On(f, S), T) = On(f, T) /\ On(f, T) = [i \in T |-> VaultShare(r, a, i)]
  BY <1>1, FS_Subset DEF On, VaultShares
<1>3. /\ m.total \in Nat /\ m.pool \in Nat /\ m.processed \in Nat /\ m.operator_rewards \in Nat
      /\ m.vault_routes \in [Vaults -> Nat]
  BY DEF NcnRecords
<1>4. s \in Nat
  BY <1>2, SumType
<1>5. SumOf(due) = s /\ due \in [Vaults -> Nat]
  <2> DEFINE k == [i \in S |-> Delegations[r[1]][i].vault]
             h == On(f, S)
             q == [v \in Vaults |-> SumOf(On(h, {i \in S : k[i] = v}))]
  <2>1. k \in [S -> Vaults]
    BY <1>1
  <2>2. ASSUME NEW v \in Vaults  PROVE q[v] = due[v]
    <3>1. {i \in S : k[i] = v} = {i \in S : Delegations[r[1]][i].vault = v}
      OBVIOUS
    <3> QED  BY <1>2, <3>1 DEF DueToVaults
  <2>3. q = due
    BY <2>2 DEF DueToVaults
  <2>4. h \in [S -> Nat] /\ IsFiniteSet(S) /\ IsFiniteSet(Vaults) /\ SumOf(h) = s
    BY <1>2, FiniteSets
  <2>5. SumOf(q) = SumOf(h) /\ q \in [Vaults -> Nat]
    <3> HIDE DEF h, k
    <3> QED  BY <2>1, <2>4, SumByKind
  <2> QED  BY <2>3, <2>4, <2>5
<1>6. vr \in [Vaults -> Nat] /\ SumOf(vr) = SumOf(m.vault_routes) + s /\ SumOf(m.vault_routes) \in Nat
  <2> DEFINE old == m.vault_routes
  <2>1. old \in [Vaults -> Nat] /\ IsFiniteSet(Vaults)
    BY <1>3, FiniteSets
  <2> HIDE DEF due, old
  <2>2. /\ [v \in Vaults |-> old[v] + due[v]] \in [Vaults -> Nat]
        /\ SumOf([v \in Vaults |-> old[v] + due[v]]) = SumOf(old) + SumOf(due) /\ SumOf(old) \in Nat
    BY <1>5, <2>1, SumPlus, SumType
  <2> QED  BY <1>5, <2>2 DEF old
<1>7. c = [m EXCEPT !.pool = m.pool - s, !.processed = m.processed + s, !.vault_routes = vr]
  <2>1. SumOver(LAMBDA i : VaultShare(r, a, i), S) = s
    BY <1>2 DEF SumOver
  <2>2. ASSUME NEW v \in Vaults  PROVE routed(v) = due[v]
    <3> DEFINE T == {i \in S : Delegations[r[1]][i].vault = v}
    <3>1. On(f, T) = [i \in T |-> VaultShare(r, a, i)]
      BY <1>2
    <3> QED  BY <3>1 DEF SumOver, DueToVaults
  <2>3. [v \in Vaults |-> m.vault_routes[v] + routed(v)] = vr
    BY <2>2
  <2>4. c = [m EXCEPT !.pool = @ - SumOver(LAMBDA i : VaultShare(r, a, i), S),
                      !.processed = @ + SumOver(LAMBDA i : VaultShare(r, a, i), S),
                      !.vault_routes = [v \in Vaults |-> @[v] + routed(v)]]
    BY DEF VisitVaults
  <2> HIDE DEF vr, routed
  <2> QED  BY <2>1, <2>3, <2>4
<1> HIDE DEF vr
<1>8. c = [total |-> m.total, pool |-> m.pool - s, processed |-> m.processed + s,
           operator_rewards |-> m.operator_rewards, vault_routes |-> vr, last |-> m.last]
  <2>1. m = [total |-> m.total, pool |-> m.pool, processed |-> m.processed,
             operator_rewards |-> m.operator_rewards, vault_routes |-> m.vault_routes,
             last |-> m.last]
    BY NcnIsRecord
  <2> QED  BY <1>7, <2>1
<1>9. c \in NcnRecords
  <2> DEFINE p == m.pool - s
             q == m.processed + s
  <2>1. p \in Nat /\ q \in Nat
    BY <1>3, <1>4
  <2>2. c = [total |-> m.total, pool |-> p, processed |-> q,
             operator_rewards |-> m.operator_rewards, vault_routes |-> vr, last |-> m.last]
    BY <1>8
  <2> HIDE DEF p, q
  <2> QED  BY <1>3, <1>6, <2>1, <2>2 DEF NcnRecords
<1> QED  BY <1>4, <1>6, <1>8, <1>9 DEF vr

\* route_reward_pool of an NcnRewardRouter, in one slice or half way through a pass.
LEMMA RouteVaultSliceSound ==
    ASSUME NEW r \in Routers, NEW m \in NcnRecords, NEW k \in Nat,
           m.processed = m.operator_rewards + SumOf(m.vault_routes),
           VaultsDue(m, r, Todo(m, r)) <= m.pool,
           NEW c, c = RouteVaultSlice(m, r, k)
    PROVE  NcnSound(c, r) /\ c.total = m.total /\ c.pool + c.processed = m.pool + m.processed
<1> DEFINE a == NcnRewardsToProcess(m)
           V == VaultSlice(m, r, k)
           T == Todo(m, r)
           f == VaultShares(r, a)
           s == SumOf(On(f, V))
           d == VisitVaults(m, r, a, V)
<1>1. a \in Nat /\ StartIndex(m) \in Nat
  BY NcnRewardsType
<1>2. T \in SUBSET Entries(r) /\ V \in SUBSET T
  BY DEF Todo, VaultSlice, Entries
<1>3. f \in [Entries(r) -> Nat] /\ IsFiniteSet(Entries(r)) /\ Entries(r) \subseteq Nat
  BY <1>1, VaultSharesFit
<1>4. /\ SumOf(On(f, T)) = s + SumOf(On(f, T \ V)) /\ s \in Nat /\ SumOf(On(f, T \ V)) \in Nat
      /\ SumOf(On(f, T)) \in Nat /\ s <= SumOf(On(f, T))
  <2> HIDE DEF f, T, V
  <2>1. f \in [Entries(r) -> Nat] /\ IsFiniteSet(Entries(r)) /\ T \in SUBSET Entries(r) /\ V \in SUBSET T
    BY <1>2, <1>3
  <2>2. /\ SumOf(On(f, T)) = SumOf(On(f, V)) + SumOf(On(f, T \ V))
        /\ SumOf(On(f, V)) \in Nat /\ SumOf(On(f, T \ V)) \in Nat /\ SumOf(On(f, T)) \in Nat
        /\ SumOf(On(f, V)) <= SumOf(On(f, T))
    <3> HIDE DEF s
    <3> QED  BY <2>1, SumParts, Zenon
  <2> QED  BY <2>2
<1>5. SumOf(On(f, T)) <= m.pool /\ m.pool \in Nat /\ m.processed \in Nat /\ m.operator_rewards \in Nat /\ m.total \in Nat
  <2>1. VaultsDue(m, r, T) = SumOf(On(f, T))
    <3> HIDE DEF T
    <3> QED  BY <1>1, <1>2, VaultsDueIs
  <2> QED  BY <2>1 DEF NcnRecords
<1>6. /\ d \in NcnRecords /\ SumOf(d.vault_routes) = SumOf(m.vault_routes) + s
      /\ SumOf(m.vault_routes) \in Nat
      /\ d.total = m.total /\ d.pool = m.pool - s /\ d.processed = m.processed + s
      /\ d.operator_rewards = m.operator_rewards /\ d.last = m.last
  <2>1. V \in SUBSET Entries(r) /\ s <= m.pool
    BY <1>2, <1>4, <1>5
  <2> HIDE DEF V, a, d
  <2>2. /\ d \in NcnRecords /\ SumOf(d.vault_routes) = SumOf(m.vault_routes) + s
        /\ SumOf(m.vault_routes) \in Nat
        /\ d = [total |-> m.total, pool |-> m.pool - s, processed |-> m.processed + s,
                operator_rewards |-> m.operator_rewards,
                vault_routes |-> [v \in Vaults |-> m.vault_routes[v] + DueToVaults(r, a, V)[v]],
                last |-> m.last]
    BY <1>1, <2>1, VisitVaultsIs DEF d
  <2> QED  BY <2>2
<1>7. CASE a = 0
  <2>1. c = m
    BY <1>7 DEF RouteVaultSlice
  <2>2. ~ still_routing(m) => m.pool = 0
    BY <1>7 DEF NcnRewardsToProcess
  <2> QED  BY <1>5, <2>1, <2>2 DEF NcnSound
<1>8. CASE a # 0 /\ V = T
  <2>1. c = OperatorRemainder(d)
    BY <1>8 DEF RouteVaultSlice
  <2> HIDE DEF a, V, T, f, s, d
  <2>2. d.pool \in Nat /\ d.operator_rewards \in Nat /\ d.processed \in Nat /\ d.total \in Nat /\ d.vault_routes \in [Vaults -> Nat]
    BY <1>6 DEF NcnRecords
  <2> DEFINE o == d.operator_rewards + d.pool
             q == d.processed + d.pool
  <2>3. o \in Nat /\ q \in Nat
    BY <2>2
  <2>4. c = [d EXCEPT !.operator_rewards = o, !.processed = q, !.pool = 0, !.last = NoLast]
    BY <2>1 DEF OperatorRemainder
  <2> HIDE DEF o, q
  <2>5. c = [total |-> d.total, pool |-> 0, processed |-> q, operator_rewards |-> o,
             vault_routes |-> d.vault_routes, last |-> NoLast]
    <3>1. d = [total |-> d.total, pool |-> d.pool, processed |-> d.processed,
               operator_rewards |-> d.operator_rewards, vault_routes |-> d.vault_routes,
               last |-> d.last]
      BY <1>6, NcnIsRecord
    <3> QED  BY <2>4, <3>1
  <2>6. /\ c \in NcnRecords /\ c.total = m.total /\ c.pool = 0 /\ c.processed = q
        /\ c.operator_rewards = o /\ c.vault_routes = d.vault_routes /\ c.last = NoLast
    BY <1>6, <2>2, <2>3, <2>5 DEF NcnRecords
  <2>7. q = o + SumOf(d.vault_routes) /\ 0 + q = m.pool + m.processed
    BY <1>4, <1>5, <1>6, <2>2 DEF o, q
  <2> QED  BY <2>6, <2>7 DEF NcnSound, still_routing
<1>9. CASE a # 0 /\ V # T
  <2> DEFINE pos == [rewards |-> a, index |-> StartIndex(m) + k]
  <2>1. c = [d EXCEPT !.last = pos]
    BY <1>9 DEF RouteVaultSlice
  <2>2. pos \in [rewards : Nat, index : Nat] /\ pos # NoLast
    BY <1>1 DEF NoLast
  <2>3. pos.rewards = a /\ pos.index = StartIndex(m) + k
    OBVIOUS
  <2> HIDE DEF pos, d
  <2>4. /\ c \in NcnRecords /\ c.total = m.total /\ c.pool = d.pool /\ c.processed = d.processed
        /\ c.operator_rewards = d.operator_rewards /\ c.vault_routes = d.vault_routes /\ c.last = pos
    BY <1>6, <2>1, <2>2 DEF NcnRecords
  <2>5. Todo(c, r) = T \ V
    <3>1. still_routing(c) /\ StartIndex(c) = StartIndex(m) + k
      BY <2>2, <2>3, <2>4 DEF still_routing, StartIndex
    <3> QED  BY <1>1, <1>3, <3>1 DEF Todo, VaultSlice, Entries
  <2>6. NcnRewardsToProcess(c) = a /\ still_routing(c)
    BY <2>2, <2>3, <2>4 DEF still_routing, NcnRewardsToProcess
  <2>7. VaultsDue(c, r, Todo(c, r)) = SumOf(On(f, T \ V))
    <3>1. T \ V \in SUBSET Entries(r)
      BY <1>2
    <3> HIDE DEF a, T, V
    <3> QED  BY <1>1, <2>5, <2>6, <3>1, VaultsDueIs
  <2> HIDE DEF a, V, T, f, s
  <2>8. SumOf(On(f, T \ V)) <= c.pool
    BY <1>4, <1>5, <1>6, <2>4
  <2>9. c.processed = c.operator_rewards + SumOf(c.vault_routes) /\ c.pool + c.processed = m.pool + m.processed
    BY <1>4, <1>5, <1>6, <2>4
  <2> QED  BY <2>4, <2>6, <2>7, <2>8, <2>9 DEF NcnSound
<1> QED  BY <1>7, <1>8, <1>9

LEMMA RouteNcnSound ==
    ASSUME NEW r \in Routers, NEW n, NcnSound(n, r), NEW k \in Nat,
           ncn_receiver[r] \in Nat, ncn_receiver[r] >= n.pool + n.processed,
           NEW c, c = RouteVaultSlice(StartNcnPass(n, r), r, AtLeastOne(k))
    PROVE  /\ NcnSound(c, r) /\ ncn_receiver[r] >= c.pool + c.processed
           /\ c.total = n.total + (c.pool + c.processed) - (n.pool + n.processed)
<1> DEFINE m == StartNcnPass(n, r)
           j == AtLeastOne(k)
<1>1. /\ m \in NcnRecords /\ m.processed = m.operator_rewards + SumOf(m.vault_routes)
      /\ VaultsDue(m, r, Todo(m, r)) <= m.pool
      /\ ncn_receiver[r] >= m.pool + m.processed
      /\ m.total = n.total + (m.pool + m.processed) - (n.pool + n.processed)
  BY StartNcnPassSound
<1>2. j \in Nat
  BY DEF AtLeastOne
<1> HIDE DEF m, j
<1>3. c = RouteVaultSlice(m, r, j)
  BY DEF m, j
<1>4. NcnSound(c, r) /\ c.total = m.total /\ c.pool + c.processed = m.pool + m.processed
  BY <1>1, <1>2, <1>3, RouteVaultSliceSound
<1> QED  BY <1>1, <1>4

-----------------------------------------------------------------------------
(* The invariant is kept by each instruction                               *)

LedgersInv == BaseInv /\ NcnInv /\ FundsInv /\ LamportsInv /\ ProgressInv

LEMMA BaseSoundNext ==
    ASSUME Votes' = Votes, NEW c, base' = c, BaseSound(c), c.pool = 0
    PROVE  BaseInv'
BY DEF BaseInv, BaseSound, BaseRecords, Positions, WinningVotes, Assigned, PassFits, Routed, RouteShare,
       Pending, RewardsToProcess, WinningWeight, still_routing, SumOver

LEMMA NcnSoundNext ==
    ASSUME NEW r \in Routers, NEW c, NcnSound(c, r), NcnInv, ncn' = [ncn EXCEPT ![r] = c]
    PROVE  NcnInv'
<1>1. ncn' \in [Routers -> NcnRecords] /\ ncn'[r] = c /\ \A s \in Routers : s # r => ncn'[s] = ncn[s]
  BY DEF NcnInv, NcnSound
<1>2. \A s \in Routers : NcnSound(ncn'[s], s)
  BY <1>1 DEF NcnInv
<1> QED  BY <1>1, <1>2 DEF NcnInv

LEMMA SameNcn ==
    ASSUME NcnInv, ncn' = ncn
    PROVE  NcnInv'
BY DEF NcnInv

\* The updates of the epoch state's progress.
RoutedTotals(p, n) == [p EXCEPT !.total.total = n, !.base.total = n]
PaidByBase(p, n) == [p EXCEPT !.total.tally = @ + n, !.base.tally = @ + n]
PassedOn(p, n) == [p EXCEPT !.base.tally = @ + n]
RouterTotal(p, r, n) == [p EXCEPT !.ncn[r].total = n]
PaidByRouter(p, r, n) == [p EXCEPT !.total.tally = @ + n, !.ncn[r].tally = @ + n]

LEMMA BaseProgress ==
    ASSUME NEW p \in Progresses, NEW n \in Nat
    PROVE  /\ RoutedTotals(p, n) = [total |-> [tally |-> p.total.tally, total |-> n],
                                    base |-> [tally |-> p.base.tally, total |-> n], ncn |-> p.ncn]
           /\ PaidByBase(p, n) = [total |-> [tally |-> p.total.tally + n, total |-> p.total.total],
                                  base |-> [tally |-> p.base.tally + n, total |-> p.base.total],
                                  ncn |-> p.ncn]
           /\ PassedOn(p, n) = [total |-> p.total, ncn |-> p.ncn,
                                base |-> [tally |-> p.base.tally + n, total |-> p.base.total]]
           /\ RoutedTotals(p, n) \in Progresses /\ PaidByBase(p, n) \in Progresses
           /\ PassedOn(p, n) \in Progresses
<1>1. /\ p = [total |-> p.total, base |-> p.base, ncn |-> p.ncn]
      /\ p.total = [tally |-> p.total.tally, total |-> p.total.total]
      /\ p.base = [tally |-> p.base.tally, total |-> p.base.total]
      /\ p.ncn \in [Routers -> Count]
      /\ p.total.tally \in Nat /\ p.total.total \in Nat /\ p.base.tally \in Nat /\ p.base.total \in Nat
  BY DEF Count, Progresses
<1> DEFINE tn == [total |-> [tally |-> p.total.tally, total |-> n], base |-> p.base, ncn |-> p.ncn]
           tp == [total |-> [tally |-> p.total.tally + n, total |-> p.total.total],
                  base |-> p.base, ncn |-> p.ncn]
<1>2. [p EXCEPT !.total.total = n] = tn /\ [p EXCEPT !.total.tally = @ + n] = tp
  BY <1>1
<1>3. RoutedTotals(p, n) = [tn EXCEPT !.base.total = n] /\ PaidByBase(p, n) = [tp EXCEPT !.base.tally = @ + n]
  <2>1. RoutedTotals(p, n) = [[p EXCEPT !.total.total = n] EXCEPT !.base.total = n]
    BY DEF RoutedTotals
  <2>2. PaidByBase(p, n) = [[p EXCEPT !.total.tally = @ + n] EXCEPT !.base.tally = @ + n]
    BY DEF PaidByBase
  <2> QED  BY <1>2, <2>1, <2>2
<1>4. RoutedTotals(p, n) = [total |-> [tally |-> p.total.tally, total |-> n],
                            base |-> [tally |-> p.base.tally, total |-> n], ncn |-> p.ncn]
  BY <1>1, <1>3
<1>5. PaidByBase(p, n) = [total |-> [tally |-> p.total.tally + n, total |-> p.total.total],
                          base |-> [tally |-> p.base.tally + n, total |-> p.base.total], ncn |-> p.ncn]
  BY <1>1, <1>3
<1>6. PassedOn(p, n) = [total |-> p.total, ncn |-> p.ncn,
                        base |-> [tally |-> p.base.tally + n, total |-> p.base.total]]
  BY <1>1 DEF PassedOn
<1>7. \A a, b, c, d \in Nat :
         [total |-> [tally |-> a, total |-> b], base |-> [tally |-> c, total |-> d], ncn |-> p.ncn] \in Progresses
  BY <1>1 DEF Progresses, Count
<1>8. p.total.tally + n \in Nat /\ p.base.tally + n \in Nat
  BY <1>1
<1>9. RoutedTotals(p, n) \in Progresses /\ PaidByBase(p, n) \in Progresses
  BY <1>1, <1>4, <1>5, <1>7, <1>8
<1>10. PassedOn(p, n) \in Progresses
  BY <1>1, <1>6, <1>8 DEF Progresses, Count
<1> QED  BY <1>4, <1>5, <1>6, <1>9, <1>10

LEMMA RouterProgress ==
    ASSUME NEW p \in Progresses, NEW r \in Routers, NEW n \in Nat
    PROVE  /\ RouterTotal(p, r, n) =
                 [total |-> p.total, base |-> p.base,
                  ncn |-> Put(p.ncn, r, [tally |-> p.ncn[r].tally, total |-> n])]
           /\ PaidByRouter(p, r, n) =
                 [total |-> [tally |-> p.total.tally + n, total |-> p.total.total], base |-> p.base,
                  ncn |-> Put(p.ncn, r, [tally |-> p.ncn[r].tally + n, total |-> p.ncn[r].total])]
           /\ RouterTotal(p, r, n) \in Progresses /\ PaidByRouter(p, r, n) \in Progresses
<1>1. /\ p = [total |-> p.total, base |-> p.base, ncn |-> p.ncn]
      /\ p.total = [tally |-> p.total.tally, total |-> p.total.total]
      /\ p.ncn[r] = [tally |-> p.ncn[r].tally, total |-> p.ncn[r].total]
      /\ p.ncn \in [Routers -> Count] /\ p.base \in Count /\ p.total \in Count
      /\ p.total.tally \in Nat /\ p.total.total \in Nat
      /\ p.ncn[r].tally \in Nat /\ p.ncn[r].total \in Nat
  BY DEF Count, Progresses
<1> DEFINE tp == [total |-> [tally |-> p.total.tally + n, total |-> p.total.total],
                  base |-> p.base, ncn |-> p.ncn]
<1>2. RouterTotal(p, r, n) =
         [total |-> p.total, base |-> p.base,
          ncn |-> Put(p.ncn, r, [tally |-> p.ncn[r].tally, total |-> n])]
  BY <1>1 DEF Put, RouterTotal
<1>3. PaidByRouter(p, r, n) = [tp EXCEPT !.ncn[r].tally = @ + n]
  <2>1. [p EXCEPT !.total.tally = @ + n] = tp
    BY <1>1
  <2>2. PaidByRouter(p, r, n) = [[p EXCEPT !.total.tally = @ + n] EXCEPT !.ncn[r].tally = @ + n]
    BY DEF PaidByRouter
  <2> QED  BY <2>1, <2>2
<1>4. PaidByRouter(p, r, n) =
         [total |-> [tally |-> p.total.tally + n, total |-> p.total.total], base |-> p.base,
          ncn |-> Put(p.ncn, r, [tally |-> p.ncn[r].tally + n, total |-> p.ncn[r].total])]
  BY <1>1, <1>3 DEF Put
<1>5. ASSUME NEW x \in Count  PROVE Put(p.ncn, r, x) \in [Routers -> Count]
  BY <1>1 DEF Put
<1>6. [tally |-> p.ncn[r].tally, total |-> n] \in Count /\ [tally |-> p.ncn[r].tally + n, total |-> p.ncn[r].total] \in Count
  BY <1>1 DEF Count
<1>7. [tally |-> p.total.tally + n, total |-> p.total.total] \in Count
  BY <1>1 DEF Count
<1>8. \A t \in Count, f \in [Routers -> Count] : [total |-> t, base |-> p.base, ncn |-> f] \in Progresses
  BY <1>1 DEF Progresses
<1> QED  BY <1>1, <1>2, <1>4, <1>5, <1>6, <1>7, <1>8

LEMMA LedgerTypes ==
    ASSUME LedgersInv
    PROVE  /\ base \in BaseRecords /\ base.total \in Nat /\ base.processed \in Nat /\ base.pool = 0
           /\ receiver \in Nat /\ late \in Nat /\ swept \in Nat /\ deposited \in Nat
           /\ ncn_receiver \in [Routers -> Nat] /\ SumOf(ncn_receiver) \in Nat
           /\ paid \in [Payees -> Nat] /\ SumOf(paid) \in Nat
           /\ \A r \in Routers : /\ ncn[r] \in NcnRecords /\ ncn[r].total \in Nat
                                 /\ ncn[r].pool \in Nat /\ ncn[r].processed \in Nat
           /\ progress \in Progresses
           /\ progress.total.tally \in Nat /\ progress.base.tally \in Nat
           /\ \A r \in Routers : progress.ncn[r].tally \in Nat
<1>1. base \in BaseRecords /\ base.total \in Nat /\ base.processed \in Nat /\ base.pool = 0
  BY DEF LedgersInv, BaseInv, BaseSound, BaseRecords
<1>2. receiver \in Nat /\ late \in Nat /\ ncn_receiver \in [Routers -> Nat]
  BY DEF LedgersInv, FundsInv
<1>3. swept \in Nat /\ deposited \in Nat /\ paid \in [Payees -> Nat]
  BY RoutingAssumption DEF LedgersInv, LamportsInv
<1>4. SumOf(ncn_receiver) \in Nat /\ SumOf(paid) \in Nat
  BY <1>2, <1>3, FiniteSets, SumType
<1>5. \A r \in Routers : /\ ncn[r] \in NcnRecords /\ ncn[r].total \in Nat
                         /\ ncn[r].pool \in Nat /\ ncn[r].processed \in Nat
  BY DEF LedgersInv, NcnInv, NcnRecords
<1>6. /\ progress \in Progresses
      /\ progress.total.tally \in Nat /\ progress.base.tally \in Nat
      /\ \A r \in Routers : progress.ncn[r].tally \in Nat
  BY DEF LedgersInv, ProgressInv, Count, Progresses
<1> QED  BY <1>1, <1>2, <1>3, <1>4, <1>5, <1>6

\* Tips arrive, also after closing.
LEMMA DepositKeeps ==
    ASSUME LedgersInv, NEW n \in Deposits, Deposit(n),
           late' = IF BaseRouter \in closed THEN late + n ELSE late, UNCHANGED <<closed, swept>>
    PROVE  LedgersInv'
<1>1. /\ receiver' = receiver + n /\ deposited' = deposited + n /\ deposited + n <= MaxRewards
      /\ Votes' = Votes /\ base' = base /\ ncn_receiver' = ncn_receiver /\ ncn' = ncn
      /\ paid' = paid /\ progress' = progress /\ closed' = closed /\ swept' = swept /\ n \in Nat
  BY RoutingAssumption DEF Deposit
<1>2. BaseInv'
  BY <1>1, BaseSoundNext DEF LedgersInv, BaseInv
<1>3. NcnInv'
  BY <1>1, SameNcn DEF LedgersInv
<1>4. FundsInv'
  BY <1>1, LedgerTypes DEF LedgersInv, FundsInv
<1>5. LamportsInv'
  <2>1. deposited + n = (receiver + n) + SumOf(ncn_receiver) + SumOf(paid) + swept
    BY <1>1, LedgerTypes DEF LedgersInv, LamportsInv
  <2>2. deposited + n \in 0 .. MaxRewards
    <3>1. deposited + n \in Nat /\ MaxRewards \in Nat
      <4>1. MaxRewards \in Nat
        BY RoutingAssumption
      <4> QED  BY <1>1, <4>1, LedgerTypes
    <3> QED  BY <1>1, <3>1
  <2> QED  BY <1>1, <2>1, <2>2, LedgerTypes DEF LamportsInv
<1>6. ProgressInv'
  BY <1>1 DEF LedgersInv, ProgressInv
<1> QED  BY <1>2, <1>3, <1>4, <1>5, <1>6 DEF LedgersInv

\* route_base_rewards
LEMMA RouteBaseKeeps ==
    ASSUME LedgersInv, VotesSound, NEW k \in Nat, RouteBaseRewards(k), BaseRouter \notin closed,
           UNCHANGED <<closed, late, swept>>
    PROVE  LedgersInv'
<1> DEFINE c == RouteSlice(StartBasePass(base), AtLeastOne(k))
<1>1. /\ receiver' = receiver /\ deposited' = deposited /\ Votes' = Votes /\ base' = c
      /\ ncn_receiver' = ncn_receiver /\ ncn' = ncn /\ paid' = paid /\ closed' = closed
      /\ late' = late /\ swept' = swept
      /\ progress' = [progress EXCEPT !.total.total = c.total, !.base.total = c.total]
      /\ still_routing(base) \/ PoolFits(BaseIncoming(base))
  BY DEF RouteBaseRewards
<1>2. receiver \in Nat /\ receiver >= base.processed /\ late = 0
  BY DEF LedgersInv, FundsInv
<1> HIDE DEF c
<1>3. BaseSound(c) /\ c.pool = 0 /\ c.processed <= receiver /\ c.total = base.total + (c.processed - base.processed)
  <2>1. BaseSound(base) /\ base.pool = 0
    BY DEF LedgersInv, BaseInv
  <2> QED  BY <1>1, <1>2, <2>1, RouteBaseSound DEF c
<1>4. c.total \in Nat /\ c.processed \in Nat
  BY <1>3 DEF BaseSound, BaseRecords
<1>5. BaseInv'
  BY <1>1, <1>3, BaseSoundNext
<1>6. NcnInv'
  BY <1>1, SameNcn DEF LedgersInv
<1>7. FundsInv'
  <2>1. receiver >= c.processed
    BY <1>2, <1>3, <1>4
  <2> QED  BY <1>1, <1>2, <2>1 DEF LedgersInv, FundsInv
<1>8. LamportsInv'
  BY <1>1 DEF LedgersInv, LamportsInv
<1>9. ProgressInv'
  <2> DEFINE q == RoutedTotals(progress, c.total)
  <2>1. progress' = q
    BY <1>1 DEF RoutedTotals
  <2>2. /\ q \in Progresses /\ q.total.tally = progress.total.tally /\ q.base.tally = progress.base.tally
        /\ q.total.total = c.total /\ q.base.total = c.total /\ q.ncn = progress.ncn
    <3>1. progress \in Progresses
      BY LedgerTypes
    <3>2. /\ q = [total |-> [tally |-> progress.total.tally, total |-> c.total],
                  base |-> [tally |-> progress.base.tally, total |-> c.total], ncn |-> progress.ncn]
          /\ q \in Progresses
      BY <1>4, <3>1, BaseProgress
    <3> HIDE DEF q
    <3> QED  BY <3>2
  <2> HIDE DEF q
  <2>3. /\ progress.base.tally + c.processed = c.total
        /\ closed = {} => progress.total.tally + c.processed + SumOf(ncn_receiver) = c.total
    BY <1>3, <1>4, LedgerTypes DEF LedgersInv, ProgressInv
  <2>4. \A r \in Routers :
           /\ q.ncn[r].total = ncn[r].total
           /\ q.ncn[r].tally + ncn[r].pool + ncn[r].processed = ncn[r].total
    BY <2>2 DEF LedgersInv, ProgressInv
  <2> QED  BY <1>1, <2>1, <2>2, <2>3, <2>4 DEF ProgressInv
<1> QED  BY <1>5, <1>6, <1>7, <1>8, <1>9 DEF LedgersInv

\* A payment of n out of the base router leaves its ledger balanced.
LEMMA BasePays ==
    ASSUME LedgersInv, ~ still_routing(base), NEW n \in Nat, n <= base.processed,
           NEW br \in [BaseGroups -> Nat], NEW rt \in [Routers -> Nat],
           SumOf(br) + SumOf(rt) = SumOf(base.base_rewards) + SumOf(base.routes) - n,
           NEW c, c = [total |-> base.total, pool |-> base.pool, processed |-> base.processed - n,
                       base_rewards |-> br, group_rewards |-> base.group_rewards, routes |-> rt,
                       last |-> base.last]
    PROVE  BaseSound(c) /\ c.pool = 0 /\ c.processed = base.processed - n /\ c.total = base.total
<1>1. /\ base \in BaseRecords /\ base.processed \in Nat /\ base.total \in Nat /\ base.pool = 0
      /\ base.last = NoLast /\ base.group_rewards \in [Groups -> Nat]
      /\ base.base_rewards \in [BaseGroups -> Nat] /\ base.routes \in [Routers -> Nat]
      /\ base.processed = Assigned(base) /\ \A g \in Groups : base.group_rewards[g] = 0
  BY DEF LedgersInv, BaseInv, BaseSound, BaseRecords, still_routing
<1>2. base.processed - n \in Nat
  BY <1>1
<1>3. /\ c.pool = 0 /\ c.processed = base.processed - n /\ c.total = base.total /\ c.last = NoLast
      /\ c.base_rewards = br /\ c.group_rewards = base.group_rewards /\ c.routes = rt
  BY <1>1
<1>4. c \in BaseRecords
  <2> DEFINE m == base.processed - n
             t == base.total
             gr == base.group_rewards
  <2>1. c = [total |-> t, pool |-> 0, processed |-> m, base_rewards |-> br,
             group_rewards |-> gr, routes |-> rt, last |-> NoLast]
    BY <1>1
  <2>2. m \in Nat /\ t \in Nat /\ gr \in [Groups -> Nat]
    BY <1>1, <1>2
  <2> HIDE DEF m, t, gr
  <2>3. [total |-> t, pool |-> 0, processed |-> m, base_rewards |-> br,
         group_rewards |-> gr, routes |-> rt, last |-> NoLast] \in BaseRecords
    BY <2>2 DEF BaseRecords
  <2> QED  BY <2>1, <2>3
<1>5. c.processed = Assigned(c)
  <2>1. /\ SumOf(br) \in Nat /\ SumOf(rt) \in Nat /\ SumOf(base.group_rewards) \in Nat
        /\ SumOf(base.base_rewards) \in Nat /\ SumOf(base.routes) \in Nat
    BY <1>1, FiniteSets, SumType
  <2> QED  BY <1>1, <1>3, <2>1 DEF Assigned
<1> QED  BY <1>1, <1>3, <1>4, <1>5 DEF BaseSound, still_routing

\* distribute_base_rewards
LEMMA DistributeBaseKeeps ==
    ASSUME LedgersInv, NEW b \in BaseGroups, DistributeBaseRewards(b), BaseRouter \notin closed,
           UNCHANGED <<closed, late, swept>>
    PROVE  LedgersInv'
<1> DEFINE n == base.base_rewards[b]
           br == Put(base.base_rewards, b, 0)
           w == paid[b] + n
<1>1. /\ ~ still_routing(base) /\ n <= base.processed /\ n <= receiver
      /\ base' = [base EXCEPT !.base_rewards[b] = 0, !.processed = @ - n]
      /\ receiver' = receiver - n /\ paid' = Put(paid, b, w) /\ progress' = PaidByBase(progress, n)
      /\ Votes' = Votes /\ ncn_receiver' = ncn_receiver /\ ncn' = ncn /\ deposited' = deposited
      /\ closed' = closed /\ late' = late /\ swept' = swept
  BY DEF DistributeBaseRewards, DistributeAllowed, Put, PaidByBase
<1>2. /\ base \in BaseRecords /\ base.base_rewards \in [BaseGroups -> Nat]
      /\ base.routes \in [Routers -> Nat] /\ n \in Nat
  BY LedgerTypes DEF BaseRecords
<1>3. br \in [BaseGroups -> Nat] /\ SumOf(br) = SumOf(base.base_rewards) - n /\ SumOf(base.base_rewards) \in Nat
  <2> DEFINE f == base.base_rewards
  <2>1. f \in [BaseGroups -> Nat] /\ IsFiniteSet(BaseGroups) /\ 0 \in Nat
    BY <1>2, FiniteSets
  <2> HIDE DEF f
  <2>2. /\ Put(f, b, 0) \in [BaseGroups -> Nat] /\ SumOf(Put(f, b, 0)) = SumOf(f) - f[b] + 0
        /\ SumOf(f) \in Nat /\ f[b] \in Nat
    BY <2>1, SumPut
  <2> QED  BY <2>2 DEF f
<1>4. BaseSound(base') /\ base'.pool = 0 /\ base'.processed = base.processed - n /\ base'.total = base.total
  <2>1. SumOf(br) + SumOf(base.routes) = SumOf(base.base_rewards) + SumOf(base.routes) - n
    <3>1. SumOf(base.routes) \in Nat
      BY <1>2, FiniteSets, SumType
    <3> QED  BY <1>2, <1>3, <3>1
  <2>2. base' = [total |-> base.total, pool |-> base.pool, processed |-> base.processed - n,
                 base_rewards |-> br, group_rewards |-> base.group_rewards, routes |-> base.routes,
                 last |-> base.last]
    <3>1. base' = [base EXCEPT !.base_rewards = br, !.processed = base.processed - n]
      BY <1>1, <1>2 DEF Put, BaseRecords
    <3>2. base = [total |-> base.total, pool |-> base.pool, processed |-> base.processed,
                  base_rewards |-> base.base_rewards, group_rewards |-> base.group_rewards,
                  routes |-> base.routes, last |-> base.last]
      BY <1>2, BaseIsRecord
    <3> HIDE DEF br, n
    <3> QED  BY <3>1, <3>2
  <2> DEFINE rt == base.routes
  <2>3. rt \in [Routers -> Nat] /\ SumOf(br) + SumOf(rt) = SumOf(base.base_rewards) + SumOf(base.routes) - n
    BY <1>2, <2>1
  <2>4. base' = [total |-> base.total, pool |-> base.pool, processed |-> base.processed - n,
                 base_rewards |-> br, group_rewards |-> base.group_rewards, routes |-> rt,
                 last |-> base.last]
    BY <2>2
  <2> HIDE DEF br, n, rt
  <2> QED  BY <1>1, <1>2, <1>3, <2>3, <2>4, BasePays, ZenonT(60)
<1>5. BaseInv'
  BY <1>1, <1>4, BaseSoundNext
<1>6. NcnInv'
  BY <1>1, SameNcn DEF LedgersInv
<1> HIDE DEF n, br
<1>7. FundsInv'
  <2>1. receiver - n >= base'.processed /\ receiver - n \in Nat
    BY <1>1, <1>2, <1>4, LedgerTypes DEF LedgersInv, FundsInv
  <2> QED  BY <1>1, <2>1 DEF LedgersInv, FundsInv
<1>8. LamportsInv'
  <2>1. b \in Payees /\ w \in Nat /\ IsFiniteSet(Payees)
    BY <1>2, LedgerTypes, FiniteSets DEF Payees
  <2>2. /\ Put(paid, b, w) \in [Payees -> Nat] /\ SumOf(Put(paid, b, w)) = SumOf(paid) - paid[b] + w
        /\ paid[b] \in Nat
    <3> HIDE DEF w
    <3> QED  BY <2>1, LedgerTypes, SumPut
  <2>3. deposited = (receiver - n) + SumOf(ncn_receiver) + SumOf(Put(paid, b, w)) + swept
    BY <1>1, <1>2, <2>2, LedgerTypes DEF LedgersInv, LamportsInv
  <2> HIDE DEF w
  <2> QED  BY <1>1, <2>2, <2>3 DEF LedgersInv, LamportsInv
<1>9. ProgressInv'
  <2> DEFINE q == PaidByBase(progress, n)
  <2>1. progress' = q
    BY <1>1
  <2>2. /\ q \in Progresses /\ q.total.tally = progress.total.tally + n /\ q.base.tally = progress.base.tally + n
        /\ q.total.total = progress.total.total /\ q.base.total = progress.base.total /\ q.ncn = progress.ncn
    <3>1. progress \in Progresses
      BY LedgerTypes
    <3>2. /\ q = [total |-> [tally |-> progress.total.tally + n, total |-> progress.total.total],
                  base |-> [tally |-> progress.base.tally + n, total |-> progress.base.total],
                  ncn |-> progress.ncn]
          /\ q \in Progresses
      BY <1>2, <3>1, BaseProgress
    <3> HIDE DEF q
    <3> QED  BY <3>2
  <2> HIDE DEF q
  <2>3. /\ q.total.total = base.total /\ q.base.total = base.total
        /\ q.base.tally + base'.processed = base.total
        /\ closed = {} => q.total.tally + base'.processed + SumOf(ncn_receiver) = base.total
    BY <1>1, <1>2, <1>4, <2>2, LedgerTypes DEF LedgersInv, ProgressInv
  <2>4. \A r \in Routers :
           /\ q.ncn[r].total = ncn[r].total
           /\ q.ncn[r].tally + ncn[r].pool + ncn[r].processed = ncn[r].total
    BY <2>2 DEF LedgersInv, ProgressInv
  <2> QED  BY <1>1, <1>4, <2>1, <2>2, <2>3, <2>4 DEF ProgressInv
<1> QED  BY <1>5, <1>6, <1>7, <1>8, <1>9 DEF LedgersInv

\* distribute_base_ncn_reward_route
LEMMA DistributeRouteKeeps ==
    ASSUME LedgersInv, NEW r \in Routers, DistributeBaseNcnRewardRoute(r),
           BaseRouter \notin closed, r \notin closed, UNCHANGED <<closed, late, swept>>
    PROVE  LedgersInv'
<1> DEFINE n == base.routes[r]
           rt == Put(base.routes, r, 0)
           w == ncn_receiver[r] + n
<1>1. /\ ~ still_routing(base) /\ n <= base.processed /\ n <= receiver
      /\ base' = [base EXCEPT !.routes[r] = 0, !.processed = @ - n]
      /\ receiver' = receiver - n /\ ncn_receiver' = Put(ncn_receiver, r, w)
      /\ progress' = PassedOn(progress, n)
      /\ Votes' = Votes /\ paid' = paid /\ ncn' = ncn /\ deposited' = deposited
      /\ closed' = closed /\ late' = late /\ swept' = swept
  BY DEF DistributeBaseNcnRewardRoute, DistributeAllowed, Put, PassedOn
<1>2. /\ base \in BaseRecords /\ base.base_rewards \in [BaseGroups -> Nat]
      /\ base.routes \in [Routers -> Nat] /\ n \in Nat
  BY LedgerTypes DEF BaseRecords
<1>3. rt \in [Routers -> Nat] /\ SumOf(rt) = SumOf(base.routes) - n /\ SumOf(base.routes) \in Nat
  <2> DEFINE f == base.routes
  <2>1. f \in [Routers -> Nat] /\ IsFiniteSet(Routers) /\ 0 \in Nat
    BY <1>2, FiniteSets
  <2> HIDE DEF f
  <2>2. /\ Put(f, r, 0) \in [Routers -> Nat] /\ SumOf(Put(f, r, 0)) = SumOf(f) - f[r] + 0
        /\ SumOf(f) \in Nat /\ f[r] \in Nat
    BY <2>1, SumPut
  <2> QED  BY <2>2 DEF f
<1>4. BaseSound(base') /\ base'.pool = 0 /\ base'.processed = base.processed - n /\ base'.total = base.total
  <2> DEFINE br == base.base_rewards
  <2>1. br \in [BaseGroups -> Nat] /\ SumOf(br) + SumOf(rt) = SumOf(base.base_rewards) + SumOf(base.routes) - n
    <3>1. SumOf(base.base_rewards) \in Nat
      BY <1>2, FiniteSets, SumType
    <3> QED  BY <1>2, <1>3, <3>1
  <2>2. base' = [total |-> base.total, pool |-> base.pool, processed |-> base.processed - n,
                 base_rewards |-> br, group_rewards |-> base.group_rewards, routes |-> rt,
                 last |-> base.last]
    <3>1. base' = [base EXCEPT !.routes = rt, !.processed = base.processed - n]
      BY <1>1, <1>2 DEF Put, BaseRecords
    <3>2. base = [total |-> base.total, pool |-> base.pool, processed |-> base.processed,
                  base_rewards |-> base.base_rewards, group_rewards |-> base.group_rewards,
                  routes |-> base.routes, last |-> base.last]
      BY <1>2, BaseIsRecord
    <3> HIDE DEF rt, n
    <3> QED  BY <3>1, <3>2
  <2> HIDE DEF br, n, rt
  <2> QED  BY <1>1, <1>2, <1>3, <2>1, <2>2, BasePays, ZenonT(60)
<1>5. BaseInv'
  BY <1>1, <1>4, BaseSoundNext
<1>6. NcnInv'
  BY <1>1, SameNcn DEF LedgersInv
<1> HIDE DEF n, rt
<1>7. /\ w \in Nat /\ Put(ncn_receiver, r, w) \in [Routers -> Nat]
      /\ SumOf(Put(ncn_receiver, r, w)) = SumOf(ncn_receiver) + n
      /\ Put(ncn_receiver, r, w)[r] = w /\ w >= ncn_receiver[r]
      /\ \A s \in Routers : s # r => Put(ncn_receiver, r, w)[s] = ncn_receiver[s]
  <2>1. w \in Nat /\ w >= ncn_receiver[r] /\ ncn_receiver \in [Routers -> Nat] /\ IsFiniteSet(Routers)
    BY <1>2, LedgerTypes, FiniteSets
  <2>2. /\ Put(ncn_receiver, r, w) \in [Routers -> Nat]
        /\ SumOf(Put(ncn_receiver, r, w)) = SumOf(ncn_receiver) - ncn_receiver[r] + w
        /\ SumOf(ncn_receiver) \in Nat /\ ncn_receiver[r] \in Nat
    <3> HIDE DEF w
    <3> QED  BY <2>1, SumPut
  <2>3. SumOf(Put(ncn_receiver, r, w)) = SumOf(ncn_receiver) + n
    BY <1>2, <2>2
  <2>4. /\ Put(ncn_receiver, r, w)[r] = w
        /\ \A s \in Routers : s # r => Put(ncn_receiver, r, w)[s] = ncn_receiver[s]
    <3> HIDE DEF w
    <3> QED  BY <2>1 DEF Put
  <2> QED  BY <2>1, <2>2, <2>3, <2>4
<1>8. FundsInv'
  <2>1. receiver - n >= base'.processed /\ receiver - n \in Nat
    BY <1>1, <1>2, <1>4, LedgerTypes DEF LedgersInv, FundsInv
  <2>2. \A s \in Routers : IF s \in closed THEN Put(ncn_receiver, r, w)[s] = 0
                           ELSE Put(ncn_receiver, r, w)[s] >= ncn[s].pool + ncn[s].processed
    <3> SUFFICES ASSUME NEW s \in Routers
                 PROVE  IF s \in closed THEN Put(ncn_receiver, r, w)[s] = 0
                        ELSE Put(ncn_receiver, r, w)[s] >= ncn[s].pool + ncn[s].processed
      OBVIOUS
    <3>1. IF s \in closed THEN ncn_receiver[s] = 0 ELSE ncn_receiver[s] >= ncn[s].pool + ncn[s].processed
      BY DEF LedgersInv, FundsInv
    <3>2. ncn[s].pool \in Nat /\ ncn[s].processed \in Nat /\ ncn_receiver[s] \in Nat
      BY LedgerTypes
    <3> HIDE DEF w
    <3> QED  BY <1>7, <3>1, <3>2
  <2> HIDE DEF w
  <2> QED  BY <1>1, <1>7, <2>1, <2>2 DEF LedgersInv, FundsInv
<1> HIDE DEF w
<1>9. LamportsInv'
  <2>1. deposited = (receiver - n) + (SumOf(ncn_receiver) + n) + SumOf(paid) + swept
    BY <1>1, <1>2, LedgerTypes DEF LedgersInv, LamportsInv
  <2> QED  BY <1>1, <1>7, <2>1 DEF LedgersInv, LamportsInv
<1>10. ProgressInv'
  <2> DEFINE q == PassedOn(progress, n)
  <2>1. progress' = q
    BY <1>1
  <2>2. /\ q \in Progresses /\ q.total = progress.total /\ q.base.tally = progress.base.tally + n
        /\ q.base.total = progress.base.total /\ q.ncn = progress.ncn
    <3>1. progress \in Progresses
      BY LedgerTypes
    <3>2. /\ q = [total |-> progress.total, ncn |-> progress.ncn,
                  base |-> [tally |-> progress.base.tally + n, total |-> progress.base.total]]
          /\ q \in Progresses
      BY <1>2, <3>1, BaseProgress
    <3> HIDE DEF q
    <3> QED  BY <3>2
  <2> HIDE DEF q
  <2>3. /\ q.total.total = base.total /\ q.base.total = base.total
        /\ q.base.tally + base'.processed = base.total
        /\ closed = {} => q.total.tally + base'.processed + (SumOf(ncn_receiver) + n) = base.total
    BY <1>1, <1>2, <1>4, <2>2, LedgerTypes DEF LedgersInv, ProgressInv
  <2>4. \A s \in Routers :
           /\ q.ncn[s].total = ncn[s].total
           /\ q.ncn[s].tally + ncn[s].pool + ncn[s].processed = ncn[s].total
    BY <2>2 DEF LedgersInv, ProgressInv
  <2>5. SumOf(ncn_receiver') = SumOf(ncn_receiver) + n
    BY <1>1, <1>7
  <2> QED  BY <1>1, <1>4, <2>1, <2>2, <2>3, <2>4, <2>5 DEF ProgressInv
<1> QED  BY <1>5, <1>6, <1>8, <1>9, <1>10 DEF LedgersInv

\* route_ncn_rewards
LEMMA RouteNcnKeeps ==
    ASSUME LedgersInv, NEW r \in Routers, NEW k \in Nat, RouteNcnRewards(r, k), r \notin closed,
           UNCHANGED <<closed, late, swept>>
    PROVE  LedgersInv'
<1> DEFINE c == RouteVaultSlice(StartNcnPass(ncn[r], r), r, AtLeastOne(k))
<1>1. /\ receiver' = receiver /\ deposited' = deposited /\ Votes' = Votes /\ base' = base
      /\ ncn_receiver' = ncn_receiver /\ ncn' = [ncn EXCEPT ![r] = c] /\ paid' = paid
      /\ closed' = closed /\ late' = late /\ swept' = swept
      /\ progress' = RouterTotal(progress, r, c.total)
  BY DEF RouteNcnRewards, RouterTotal
<1>2. /\ ncn_receiver[r] \in Nat /\ ncn_receiver[r] >= ncn[r].pool + ncn[r].processed
      /\ NcnSound(ncn[r], r)
  BY LedgerTypes DEF LedgersInv, FundsInv, NcnInv
<1> HIDE DEF c
<1>3. /\ NcnSound(c, r) /\ ncn_receiver[r] >= c.pool + c.processed
      /\ c.total = ncn[r].total + (c.pool + c.processed) - (ncn[r].pool + ncn[r].processed)
  <2>1. c = RouteVaultSlice(StartNcnPass(ncn[r], r), r, AtLeastOne(k))
    BY DEF c
  <2> QED  BY <1>2, <2>1, RouteNcnSound
<1>4. c.total \in Nat /\ c.pool \in Nat /\ c.processed \in Nat /\ c \in NcnRecords
  BY <1>3 DEF NcnSound, NcnRecords
<1>5. ncn'[r] = c /\ \A s \in Routers : s # r => ncn'[s] = ncn[s]
  BY <1>1 DEF LedgersInv, NcnInv
<1>6. NcnInv'
  BY <1>1, <1>3, NcnSoundNext DEF LedgersInv
<1>7. BaseInv'
  BY <1>1, BaseSoundNext DEF LedgersInv, BaseInv
<1>8. FundsInv'
  <2>1. \A s \in Routers : IF s \in closed THEN ncn_receiver[s] = 0
                           ELSE ncn_receiver[s] >= ncn'[s].pool + ncn'[s].processed
    BY <1>3, <1>5 DEF LedgersInv, FundsInv
  <2> QED  BY <1>1, <2>1 DEF LedgersInv, FundsInv
<1>9. LamportsInv'
  BY <1>1 DEF LedgersInv, LamportsInv
<1>10. ProgressInv'
  <2> DEFINE q == RouterTotal(progress, r, c.total)
             x == [tally |-> progress.ncn[r].tally, total |-> c.total]
  <2>1. progress' = q
    BY <1>1
  <2>2. /\ q \in Progresses /\ q.total = progress.total /\ q.base = progress.base
        /\ q.ncn = Put(progress.ncn, r, x)
    <3>1. progress \in Progresses
      BY LedgerTypes
    <3>2. /\ q = [total |-> progress.total, base |-> progress.base, ncn |-> Put(progress.ncn, r, x)]
          /\ q \in Progresses
      BY <1>4, <3>1, RouterProgress
    <3> HIDE DEF q
    <3> QED  BY <3>2
  <2>3. /\ q.ncn[r].tally = progress.ncn[r].tally /\ q.ncn[r].total = c.total
        /\ \A s \in Routers : s # r => q.ncn[s] = progress.ncn[s]
    <3>1. progress.ncn \in [Routers -> Count]
      BY LedgerTypes DEF Progresses
    <3>2. q.ncn[r] = x /\ \A s \in Routers : s # r => q.ncn[s] = progress.ncn[s]
      <4> HIDE DEF x, q
      <4> QED  BY <2>2, <3>1 DEF Put
    <3> QED  BY <3>2
  <2> HIDE DEF q
  <2>4. \A s \in Routers :
           /\ q.ncn[s].total = ncn'[s].total
           /\ q.ncn[s].tally + ncn'[s].pool + ncn'[s].processed = ncn'[s].total
    <3>1. /\ progress.ncn[r].tally + ncn[r].pool + ncn[r].processed = ncn[r].total
          /\ progress.ncn[r].tally \in Nat
          /\ ncn[r].pool \in Nat /\ ncn[r].processed \in Nat /\ ncn[r].total \in Nat
      BY LedgerTypes DEF LedgersInv, ProgressInv
    <3>2. progress.ncn[r].tally + c.pool + c.processed = c.total
      BY <1>3, <1>4, <3>1
    <3>3. \A s \in Routers : s # r => /\ progress.ncn[s].total = ncn[s].total
                                      /\ progress.ncn[s].tally + ncn[s].pool + ncn[s].processed = ncn[s].total
      BY DEF LedgersInv, ProgressInv
    <3> QED  BY <1>5, <2>3, <3>2, <3>3
  <2>5. /\ q.base.total = base.total /\ q.total.total = base.total
        /\ q.base.tally + base.processed = base.total
        /\ closed = {} => q.total.tally + base.processed + SumOf(ncn_receiver) = base.total
    BY <2>2 DEF LedgersInv, ProgressInv
  <2> QED  BY <1>1, <2>1, <2>2, <2>4, <2>5 DEF ProgressInv
<1> QED  BY <1>6, <1>7, <1>8, <1>9, <1>10 DEF LedgersInv

\* A payment of n to payee out of the router of r, whose ledger becomes c.
LEMMA RouterPays ==
    ASSUME LedgersInv, NEW r \in Routers, NEW payee \in Payees, NEW n \in Nat, PayFrom(r, payee, n),
           r \notin closed, UNCHANGED <<closed, late, swept>>,
           NEW c, NcnSound(c, r), c.total = ncn[r].total, c.pool = ncn[r].pool,
           c.processed = ncn[r].processed - n, ncn' = [ncn EXCEPT ![r] = c]
    PROVE  LedgersInv'
<1> DEFINE u == ncn_receiver[r] - n
           w == paid[payee] + n
<1>1. /\ n <= ncn[r].processed /\ n <= ncn_receiver[r]
      /\ ncn_receiver' = Put(ncn_receiver, r, u) /\ paid' = Put(paid, payee, w)
      /\ progress' = PaidByRouter(progress, r, n)
      /\ receiver' = receiver /\ deposited' = deposited /\ Votes' = Votes /\ base' = base
      /\ closed' = closed /\ late' = late /\ swept' = swept
  BY DEF PayFrom, Put, PaidByRouter
<1>2. /\ ncn[r].pool \in Nat /\ ncn[r].processed \in Nat /\ ncn[r].total \in Nat
      /\ ncn_receiver[r] \in Nat /\ paid[payee] \in Nat
      /\ ncn_receiver[r] >= ncn[r].pool + ncn[r].processed
  BY LedgerTypes DEF LedgersInv, FundsInv
<1>3. ncn'[r] = c /\ \A s \in Routers : s # r => ncn'[s] = ncn[s]
  BY DEF LedgersInv, NcnInv
<1>4. NcnInv'
  BY NcnSoundNext DEF LedgersInv
<1>5. BaseInv'
  BY <1>1, BaseSoundNext DEF LedgersInv, BaseInv
<1>6. u \in Nat /\ w \in Nat /\ u >= c.pool + c.processed
  BY <1>1, <1>2
<1>7. /\ Put(ncn_receiver, r, u) \in [Routers -> Nat]
      /\ SumOf(Put(ncn_receiver, r, u)) = SumOf(ncn_receiver) - ncn_receiver[r] + u
      /\ Put(ncn_receiver, r, u)[r] = u
      /\ \A s \in Routers : s # r => Put(ncn_receiver, r, u)[s] = ncn_receiver[s]
  <2>1. ncn_receiver \in [Routers -> Nat] /\ IsFiniteSet(Routers)
    BY LedgerTypes, FiniteSets
  <2> HIDE DEF u, w
  <2>2. /\ Put(ncn_receiver, r, u) \in [Routers -> Nat]
        /\ SumOf(Put(ncn_receiver, r, u)) = SumOf(ncn_receiver) - ncn_receiver[r] + u
    BY <1>6, <2>1, SumPut
  <2>3. /\ Put(ncn_receiver, r, u)[r] = u
        /\ \A s \in Routers : s # r => Put(ncn_receiver, r, u)[s] = ncn_receiver[s]
    BY <2>1 DEF Put
  <2> QED  BY <2>2, <2>3
<1>8. /\ Put(paid, payee, w) \in [Payees -> Nat]
      /\ SumOf(Put(paid, payee, w)) = SumOf(paid) - paid[payee] + w
  <2>1. paid \in [Payees -> Nat] /\ IsFiniteSet(Payees)
    BY LedgerTypes, FiniteSets
  <2> HIDE DEF u, w
  <2> QED  BY <1>6, <2>1, SumPut
<1>9. SumOf(ncn_receiver') = SumOf(ncn_receiver) - n /\ SumOf(paid') = SumOf(paid) + n
  <2>1. SumOf(ncn_receiver) \in Nat /\ SumOf(paid) \in Nat
    BY LedgerTypes
  <2> QED  BY <1>1, <1>2, <1>7, <1>8, <2>1
<1>10. FundsInv'
  <2>1. \A s \in Routers : IF s \in closed THEN Put(ncn_receiver, r, u)[s] = 0
                           ELSE Put(ncn_receiver, r, u)[s] >= ncn'[s].pool + ncn'[s].processed
    <3> HIDE DEF u, w
    <3> QED  BY <1>3, <1>6, <1>7 DEF LedgersInv, FundsInv
  <2> HIDE DEF u, w
  <2> QED  BY <1>1, <1>7, <2>1 DEF LedgersInv, FundsInv
<1>11. LamportsInv'
  <2>1. deposited = receiver + (SumOf(ncn_receiver) - n) + (SumOf(paid) + n) + swept
    BY LedgerTypes DEF LedgersInv, LamportsInv
  <2>2. paid' \in [Payees -> Nat]
    BY <1>1, <1>8
  <2> HIDE DEF u, w
  <2> QED  BY <1>1, <1>9, <2>1, <2>2 DEF LedgersInv, LamportsInv
<1> HIDE DEF u, w
<1>12. ProgressInv'
  <2> DEFINE q == PaidByRouter(progress, r, n)
             x == [tally |-> progress.ncn[r].tally + n, total |-> progress.ncn[r].total]
  <2>1. progress' = q
    BY <1>1
  <2>2. /\ q \in Progresses /\ q.total.tally = progress.total.tally + n
        /\ q.total.total = progress.total.total /\ q.base = progress.base
        /\ q.ncn = Put(progress.ncn, r, x)
    <3>1. progress \in Progresses
      BY LedgerTypes
    <3>2. /\ q = [total |-> [tally |-> progress.total.tally + n, total |-> progress.total.total],
                  base |-> progress.base, ncn |-> Put(progress.ncn, r, x)]
          /\ q \in Progresses
      BY <3>1, RouterProgress
    <3> HIDE DEF q, x
    <3> QED  BY <3>2
  <2>3. /\ q.ncn[r].tally = progress.ncn[r].tally + n /\ q.ncn[r].total = progress.ncn[r].total
        /\ \A s \in Routers : s # r => q.ncn[s] = progress.ncn[s]
    <3>1. progress.ncn \in [Routers -> Count]
      BY LedgerTypes DEF Progresses
    <3>2. q.ncn[r] = x /\ \A s \in Routers : s # r => q.ncn[s] = progress.ncn[s]
      <4> HIDE DEF x, q
      <4> QED  BY <2>2, <3>1 DEF Put
    <3> QED  BY <3>2
  <2> HIDE DEF q
  <2>4. \A s \in Routers :
           /\ q.ncn[s].total = ncn'[s].total
           /\ q.ncn[s].tally + ncn'[s].pool + ncn'[s].processed = ncn'[s].total
    <3>1. /\ progress.ncn[r].tally + ncn[r].pool + ncn[r].processed = ncn[r].total
          /\ progress.ncn[r].tally \in Nat /\ progress.ncn[r].total = ncn[r].total
      BY LedgerTypes DEF LedgersInv, ProgressInv
    <3>2. (progress.ncn[r].tally + n) + c.pool + c.processed = c.total
      BY <1>2, <3>1
    <3>3. \A s \in Routers : s # r => /\ progress.ncn[s].total = ncn[s].total
                                      /\ progress.ncn[s].tally + ncn[s].pool + ncn[s].processed = ncn[s].total
      BY DEF LedgersInv, ProgressInv
    <3> QED  BY <1>3, <2>3, <3>1, <3>2, <3>3
  <2>5. /\ q.base.total = base.total /\ q.total.total = base.total
        /\ q.base.tally + base.processed = base.total
    BY <2>2 DEF LedgersInv, ProgressInv
  <2>6. closed = {} => q.total.tally + base.processed + (SumOf(ncn_receiver) - n) = base.total
    BY <2>2, LedgerTypes DEF LedgersInv, ProgressInv
  <2> QED  BY <1>1, <1>9, <2>1, <2>2, <2>4, <2>5, <2>6 DEF ProgressInv
<1> QED  BY <1>4, <1>5, <1>10, <1>11, <1>12 DEF LedgersInv

\* A ledger of the router of r that gives up one entry and its part of processed.
LEMMA RouterLedger ==
    ASSUME NEW r \in Routers, NEW m, NcnSound(m, r), ~ still_routing(m), NEW n \in Nat, n <= m.processed,
           NEW o \in Nat, NEW vr \in [Vaults -> Nat],
           o + SumOf(vr) = m.operator_rewards + SumOf(m.vault_routes) - n,
           NEW c, c = [total |-> m.total, pool |-> m.pool, processed |-> m.processed - n,
                       operator_rewards |-> o, vault_routes |-> vr, last |-> m.last]
    PROVE  NcnSound(c, r) /\ c.total = m.total /\ c.pool = m.pool /\ c.processed = m.processed - n
<1>1. /\ m \in NcnRecords /\ m.total \in Nat /\ m.pool = 0 /\ m.processed \in Nat /\ m.last = NoLast
      /\ m.processed = m.operator_rewards + SumOf(m.vault_routes)
  BY DEF NcnSound, NcnRecords, still_routing
<1>2. /\ c.total = m.total /\ c.pool = 0 /\ c.processed = m.processed - n /\ c.operator_rewards = o
      /\ c.vault_routes = vr /\ c.last = NoLast
  BY <1>1
<1>3. c \in NcnRecords
  <2> DEFINE p == m.processed - n
             t == m.total
  <2>1. p \in Nat /\ t \in Nat
    BY <1>1
  <2>2. c = [total |-> t, pool |-> 0, processed |-> p, operator_rewards |-> o, vault_routes |-> vr, last |-> NoLast]
    BY <1>1
  <2> HIDE DEF p, t
  <2>3. [total |-> t, pool |-> 0, processed |-> p, operator_rewards |-> o, vault_routes |-> vr, last |-> NoLast]
          \in NcnRecords
    BY <2>1 DEF NcnRecords
  <2> QED  BY <2>2, <2>3
<1>4. c.processed = c.operator_rewards + SumOf(c.vault_routes)
  <2>0. m.operator_rewards \in Nat /\ SumOf(m.vault_routes) \in Nat /\ SumOf(vr) \in Nat
    <3>1. m.operator_rewards \in Nat /\ m.vault_routes \in [Vaults -> Nat]
      BY <1>1 DEF NcnRecords
    <3> QED  BY <3>1, FiniteSets, SumType
  <2>1. m.processed - n = o + SumOf(vr)
    BY <1>1, <2>0
  <2> QED  BY <1>2, <2>1
<1> QED  BY <1>1, <1>2, <1>3, <1>4 DEF NcnSound, still_routing

PaidOperator(m, d) == [m EXCEPT !.operator_rewards = 0, !.processed = d]
PaidVault(m, v, d) == [m EXCEPT !.vault_routes[v] = 0, !.processed = d]

LEMMA PaidVaultLedger ==
    ASSUME NEW m \in NcnRecords, NEW v \in Vaults, NEW d
    PROVE  PaidVault(m, v, d) = [total |-> m.total, pool |-> m.pool, processed |-> d,
                                 operator_rewards |-> m.operator_rewards,
                                 vault_routes |-> Put(m.vault_routes, v, 0), last |-> m.last]
<1> DEFINE c == PaidVault(m, v, d)
           vr == Put(m.vault_routes, v, 0)
<1>1. c = [m EXCEPT !.vault_routes = vr, !.processed = d]
  BY DEF NcnRecords, PaidVault, Put
<1>2. m = [total |-> m.total, pool |-> m.pool, processed |-> m.processed,
           operator_rewards |-> m.operator_rewards, vault_routes |-> m.vault_routes,
           last |-> m.last]
  BY NcnIsRecord
<1> HIDE DEF c, vr
<1>3. c = [total |-> m.total, pool |-> m.pool, processed |-> d,
           operator_rewards |-> m.operator_rewards, vault_routes |-> vr, last |-> m.last]
  BY <1>1, <1>2
<1> QED  BY <1>3 DEF c, vr

LEMMA PaidOperatorLedger ==
    ASSUME NEW m \in NcnRecords, NEW d
    PROVE  PaidOperator(m, d) = [total |-> m.total, pool |-> m.pool, processed |-> d,
                                 operator_rewards |-> 0, vault_routes |-> m.vault_routes,
                                 last |-> m.last]
<1> DEFINE c == PaidOperator(m, d)
<1>1. c = [m EXCEPT !.operator_rewards = 0, !.processed = d]
  BY DEF PaidOperator
<1>2. m = [total |-> m.total, pool |-> m.pool, processed |-> m.processed,
           operator_rewards |-> m.operator_rewards, vault_routes |-> m.vault_routes,
           last |-> m.last]
  BY NcnIsRecord
<1> HIDE DEF c
<1>3. c = [total |-> m.total, pool |-> m.pool, processed |-> d,
           operator_rewards |-> 0, vault_routes |-> m.vault_routes, last |-> m.last]
  BY <1>1, <1>2
<1> QED  BY <1>3 DEF c

\* distribute_ncn_operator_rewards
LEMMA DistributeOperatorKeeps ==
    ASSUME LedgersInv, NEW r \in Routers, DistributeNcnOperatorRewards(r), r \notin closed,
           UNCHANGED <<closed, late, swept>>
    PROVE  LedgersInv'
<1> DEFINE m == ncn[r]
           n == m.operator_rewards
           c == [total |-> m.total, pool |-> m.pool, processed |-> m.processed - n,
                 operator_rewards |-> 0, vault_routes |-> m.vault_routes, last |-> m.last]
<1>1. /\ ~ still_routing(m) /\ PayFrom(r, r[1], n)
      /\ ncn' = [ncn EXCEPT ![r].operator_rewards = 0, ![r].processed = @ - n]
  BY DEF DistributeNcnOperatorRewards, DistributeAllowed
<1>2. NcnSound(m, r) /\ m \in NcnRecords /\ ncn \in [Routers -> NcnRecords]
  BY DEF LedgersInv, NcnInv
<1>3. n \in Nat /\ m.vault_routes \in [Vaults -> Nat] /\ m.processed \in Nat
  BY <1>2 DEF NcnRecords
<1>4. n <= m.processed /\ r[1] \in Payees
  BY <1>1 DEF PayFrom, Payees, Routers
<1>5. ncn' = [ncn EXCEPT ![r] = c]
  <2> DEFINE d == m.processed - n
  <2>1. ncn' = [ncn EXCEPT ![r] = PaidOperator(m, d)]
    BY <1>1, <1>2 DEF PaidOperator
  <2> HIDE DEF d, m
  <2>2. PaidOperator(m, d) = [total |-> m.total, pool |-> m.pool, processed |-> d,
                              operator_rewards |-> 0, vault_routes |-> m.vault_routes,
                              last |-> m.last]
    BY <1>2, PaidOperatorLedger
  <2>3. PaidOperator(m, d) = c
    BY <2>2 DEF d
  <2> HIDE DEF c
  <2> QED  BY <2>1, <2>3
<1>6. NcnSound(c, r) /\ c.total = m.total /\ c.pool = m.pool /\ c.processed = m.processed - n
  <2>1. SumOf(m.vault_routes) \in Nat
    BY <1>3, FiniteSets, SumType
  <2> DEFINE o == 0
             vr == m.vault_routes
  <2>2. o \in Nat /\ vr \in [Vaults -> Nat] /\ o + SumOf(vr) = m.operator_rewards + SumOf(m.vault_routes) - n
    BY <1>3, <2>1
  <2>3. c = [total |-> m.total, pool |-> m.pool, processed |-> m.processed - n,
             operator_rewards |-> o, vault_routes |-> vr, last |-> m.last]
    OBVIOUS
  <2> HIDE DEF m, n, c, o, vr
  <2> QED  BY <1>1, <1>2, <1>3, <1>4, <2>2, <2>3, RouterLedger
<1> HIDE DEF c, n
<1> QED  BY <1>1, <1>3, <1>4, <1>5, <1>6, RouterPays

\* distribute_ncn_vault_rewards
LEMMA DistributeVaultKeeps ==
    ASSUME LedgersInv, NEW r \in Routers, NEW v \in Vaults, DistributeNcnVaultRewards(r, v), r \notin closed,
           UNCHANGED <<closed, late, swept>>
    PROVE  LedgersInv'
<1> DEFINE m == ncn[r]
           n == m.vault_routes[v]
           vr == Put(m.vault_routes, v, 0)
           c == [total |-> m.total, pool |-> m.pool, processed |-> m.processed - n,
                 operator_rewards |-> m.operator_rewards, vault_routes |-> vr, last |-> m.last]
<1>1. /\ ~ still_routing(m) /\ PayFrom(r, v, n)
      /\ ncn' = [ncn EXCEPT ![r].vault_routes[v] = 0, ![r].processed = @ - n]
  BY DEF DistributeNcnVaultRewards, DistributeAllowed
<1>2. NcnSound(m, r) /\ m \in NcnRecords /\ ncn \in [Routers -> NcnRecords]
  BY DEF LedgersInv, NcnInv
<1>3. n \in Nat /\ m.vault_routes \in [Vaults -> Nat] /\ m.processed \in Nat /\ m.operator_rewards \in Nat
  BY <1>2 DEF NcnRecords
<1>4. n <= m.processed /\ v \in Payees
  BY <1>1 DEF PayFrom, Payees
<1>5. ncn' = [ncn EXCEPT ![r] = c]
  <2> DEFINE d == m.processed - n
  <2>1. ncn' = [ncn EXCEPT ![r] = PaidVault(m, v, d)]
    BY <1>1, <1>2 DEF PaidVault
  <2> HIDE DEF d, m
  <2>2. PaidVault(m, v, d) = [total |-> m.total, pool |-> m.pool, processed |-> d,
                              operator_rewards |-> m.operator_rewards, vault_routes |-> vr,
                              last |-> m.last]
    BY <1>2, PaidVaultLedger
  <2>3. PaidVault(m, v, d) = c
    BY <2>2 DEF d
  <2> HIDE DEF c
  <2> QED  BY <2>1, <2>3
<1>6. NcnSound(c, r) /\ c.total = m.total /\ c.pool = m.pool /\ c.processed = m.processed - n
  <2> DEFINE f == m.vault_routes
             o == m.operator_rewards
  <2>1. f \in [Vaults -> Nat] /\ IsFiniteSet(Vaults) /\ 0 \in Nat
    BY <1>3, FiniteSets
  <2>2. /\ Put(f, v, 0) \in [Vaults -> Nat] /\ SumOf(Put(f, v, 0)) = SumOf(f) - f[v] + 0
        /\ SumOf(f) \in Nat /\ f[v] \in Nat
    <3> HIDE DEF f
    <3> QED  BY <2>1, SumPut
  <2>3. o \in Nat /\ vr \in [Vaults -> Nat] /\ o + SumOf(vr) = m.operator_rewards + SumOf(m.vault_routes) - n
    BY <1>3, <2>2
  <2>4. c = [total |-> m.total, pool |-> m.pool, processed |-> m.processed - n,
             operator_rewards |-> o, vault_routes |-> vr, last |-> m.last]
    OBVIOUS
  <2> HIDE DEF m, n, c, o, vr
  <2> QED  BY <1>1, <1>2, <1>3, <1>4, <2>3, <2>4, RouterLedger
<1> HIDE DEF c, n
<1> QED  BY <1>1, <1>3, <1>4, <1>5, <1>6, RouterPays

\* close_epoch_account for a router: the receiver is swept with it.
LEMMA CloseKeeps ==
    ASSUME LedgersInv, NEW r \in Routers \cup {BaseRouter}, NEW i, i.router = r, CloseRouter(i),
           r \notin closed, late' = late
    PROVE  LedgersInv'
<1>1. /\ closed' = closed \cup {r} /\ Votes' = Votes /\ base' = base /\ ncn' = ncn /\ paid' = paid
      /\ deposited' = deposited /\ progress' = progress
  BY DEF CloseRouter
<1>2. closed' # {}
  BY <1>1
<1>3. BaseInv'
  BY <1>1, BaseSoundNext DEF LedgersInv, BaseInv
<1>4. NcnInv'
  BY <1>1, SameNcn DEF LedgersInv
<1>5. CASE r = BaseRouter
  <2>1. swept' = swept + receiver /\ receiver' = 0 /\ ncn_receiver' = ncn_receiver /\ BaseRouter \notin Routers
    BY <1>5, BaseRouterIsNone DEF CloseRouter
  <2>2. FundsInv'
    <3>1. late = 0 /\ late \in Nat
      BY <1>5 DEF LedgersInv, FundsInv
    <3>2. \A s \in Routers : s \in closed' <=> s \in closed
      BY <1>1, <1>5, <2>1
    <3>3. \A s \in Routers : IF s \in closed THEN ncn_receiver[s] = 0
                             ELSE ncn_receiver[s] >= ncn[s].pool + ncn[s].processed
      BY DEF LedgersInv, FundsInv
    <3>4. BaseRouter \in closed' /\ ncn_receiver \in [Routers -> Nat]
      BY <1>1, <1>5, LedgerTypes
    <3> QED  BY <1>1, <2>1, <3>1, <3>2, <3>3, <3>4 DEF FundsInv
  <2>3. LamportsInv'
    <3>1. deposited = 0 + SumOf(ncn_receiver) + SumOf(paid) + (swept + receiver) /\ swept + receiver \in Nat
      BY LedgerTypes DEF LedgersInv, LamportsInv
    <3> QED  BY <1>1, <2>1, <3>1 DEF LedgersInv, LamportsInv
  <2>4. ProgressInv'
    BY <1>1, <1>2 DEF LedgersInv, ProgressInv
  <2> QED  BY <1>3, <1>4, <2>2, <2>3, <2>4 DEF LedgersInv
<1>6. CASE r # BaseRouter
  <2>1. /\ r \in Routers /\ swept' = swept + ncn_receiver[r] /\ receiver' = receiver
        /\ ncn_receiver' = Put(ncn_receiver, r, 0)
    BY <1>6 DEF CloseRouter, Put
  <2>2. /\ Put(ncn_receiver, r, 0) \in [Routers -> Nat]
        /\ SumOf(Put(ncn_receiver, r, 0)) = SumOf(ncn_receiver) - ncn_receiver[r] + 0
        /\ Put(ncn_receiver, r, 0)[r] = 0 /\ ncn_receiver[r] \in Nat
        /\ \A s \in Routers : s # r => Put(ncn_receiver, r, 0)[s] = ncn_receiver[s]
    <3>1. ncn_receiver \in [Routers -> Nat] /\ IsFiniteSet(Routers) /\ 0 \in Nat
      BY LedgerTypes, FiniteSets
    <3>2. /\ Put(ncn_receiver, r, 0) \in [Routers -> Nat]
          /\ SumOf(Put(ncn_receiver, r, 0)) = SumOf(ncn_receiver) - ncn_receiver[r] + 0
          /\ ncn_receiver[r] \in Nat
      BY <2>1, <3>1, SumPut
    <3>3. /\ Put(ncn_receiver, r, 0)[r] = 0
          /\ \A s \in Routers : s # r => Put(ncn_receiver, r, 0)[s] = ncn_receiver[s]
      BY <2>1, <3>1 DEF Put
    <3> QED  BY <3>2, <3>3
  <2>3. FundsInv'
    <3>1. BaseRouter \in closed' <=> BaseRouter \in closed
      BY <1>1, <1>6
    <3>2. \A s \in Routers : s # r => (s \in closed' <=> s \in closed)
      BY <1>1
    <3>3. r \in closed'
      BY <1>1
    <3>4. \A s \in Routers : IF s \in closed THEN ncn_receiver[s] = 0
                             ELSE ncn_receiver[s] >= ncn[s].pool + ncn[s].processed
      BY DEF LedgersInv, FundsInv
    <3>5. \A s \in Routers : IF s \in closed' THEN Put(ncn_receiver, r, 0)[s] = 0
                             ELSE Put(ncn_receiver, r, 0)[s] >= ncn[s].pool + ncn[s].processed
      BY <2>2, <3>2, <3>3, <3>4
    <3>6. /\ receiver \in Nat /\ late \in Nat
          /\ IF BaseRouter \in closed THEN receiver = late ELSE receiver >= base.processed /\ late = 0
      BY DEF LedgersInv, FundsInv
    <3> QED  BY <1>1, <2>1, <2>2, <3>1, <3>5, <3>6 DEF FundsInv
  <2>4. LamportsInv'
    <3>1. /\ deposited = receiver + (SumOf(ncn_receiver) - ncn_receiver[r] + 0) + SumOf(paid) + (swept + ncn_receiver[r])
          /\ swept + ncn_receiver[r] \in Nat
      BY <2>2, LedgerTypes DEF LedgersInv, LamportsInv
    <3> QED  BY <1>1, <2>1, <2>2, <3>1 DEF LedgersInv, LamportsInv
  <2>5. ProgressInv'
    BY <1>1, <1>2 DEF LedgersInv, ProgressInv
  <2> QED  BY <1>3, <1>4, <2>3, <2>4, <2>5 DEF LedgersInv
<1> QED  BY <1>5, <1>6

-----------------------------------------------------------------------------
(* The keeper                                                              *)

\* The transaction of an item of the keeper's list.
LEMMA TransactionKeeps ==
    ASSUME IInv, NEW i, Transaction(i)
    PROVE  LedgersInv' /\ Votes' = Votes /\ closed' \subseteq Routers \cup {BaseRouter} /\ alone' = alone
<1>1. LedgersInv /\ VotesSound /\ closed \subseteq Routers \cup {BaseRouter}
  BY FinalVotesAreSound DEF IInv, LedgersInv, ControlInv
<1>2. i.router \notin closed /\ alone' = alone /\ late' = late
  BY DEF Transaction, Open
<1>3. CASE Read(i)
  <2>1. UNCHANGED <<Votes, base, ncn, ncn_receiver, receiver, paid, deposited, progress, closed, swept, late>>
    BY <1>2, <1>3 DEF Read, vars
  <2>2. BaseInv'
    BY <1>1, <2>1, BaseSoundNext DEF LedgersInv, BaseInv
  <2>3. NcnInv' /\ FundsInv' /\ LamportsInv' /\ ProgressInv'
    BY <1>1, <2>1, SameNcn DEF LedgersInv, FundsInv, LamportsInv, ProgressInv
  <2> QED  BY <1>1, <1>2, <2>1, <2>2, <2>3 DEF LedgersInv
<1>4. ASSUME NEW r \in Routers \cup {BaseRouter}, i = Item("close", r, "none"), CloseRouter(i)
      PROVE  LedgersInv' /\ Votes' = Votes /\ closed' \subseteq Routers \cup {BaseRouter}
  <2>1. i.router = r
    BY <1>4 DEF Item
  <2>2. Votes' = Votes /\ closed' = closed \cup {r}
    BY <1>4, <2>1 DEF CloseRouter
  <2> QED  BY <1>1, <1>2, <1>4, <2>1, <2>2, CloseKeeps
<1>5. CASE Pay(i) /\ UNCHANGED <<copy, closed, swept>>
  <2>0. UNCHANGED <<closed, late, swept>> /\ BaseIterations \subseteq Nat /\ NcnIterations \subseteq Nat
    BY <1>2, <1>5, RoutingAssumption
  <2>1. CASE i = Item("route_base", BaseRouter, "none") /\ route_base_rewards
    <3>1. BaseRouter \notin closed
      BY <1>2, <2>1 DEF Item
    <3>2. PICK k \in BaseIterations : RouteBaseRewards(k)
      BY <2>1 DEF route_base_rewards
    <3>3. LedgersInv'
      BY <1>1, <2>0, <3>1, <3>2, RouteBaseKeeps
    <3>4. Votes' = Votes
      BY <3>2 DEF RouteBaseRewards
    <3> QED  BY <1>1, <1>2, <2>0, <3>3, <3>4
  <2>2. ASSUME NEW b \in BaseGroups, i = Item("base", BaseRouter, b), distribute_base_rewards(b)
        PROVE  LedgersInv' /\ Votes' = Votes
    <3>1. BaseRouter \notin closed /\ DistributeBaseRewards(b)
      BY <1>2, <2>2 DEF Item, distribute_base_rewards
    <3>2. LedgersInv'
      BY <1>1, <2>0, <3>1, DistributeBaseKeeps
    <3>3. Votes' = Votes
      BY <3>1 DEF DistributeBaseRewards
    <3> QED  BY <3>2, <3>3
  <2>3. ASSUME NEW r \in Routers, i = Item("route", r, "none"), distribute_base_ncn_rewards(r)
        PROVE  LedgersInv' /\ Votes' = Votes
    <3>1. r \notin closed /\ BaseRouter \notin closed /\ DistributeBaseNcnRewardRoute(r)
      BY <1>2, <2>3 DEF Item, distribute_base_ncn_rewards
    <3>2. LedgersInv'
      BY <1>1, <2>0, <3>1, DistributeRouteKeeps
    <3>3. Votes' = Votes
      BY <3>1 DEF DistributeBaseNcnRewardRoute
    <3> QED  BY <3>2, <3>3
  <2>4. ASSUME NEW r \in Routers, i = Item("route_ncn", r, "none"), route_ncn_rewards(r)
        PROVE  LedgersInv' /\ Votes' = Votes
    <3>1. r \notin closed
      BY <1>2, <2>4 DEF Item
    <3>2. PICK k \in NcnIterations : RouteNcnRewards(r, k)
      BY <2>4 DEF route_ncn_rewards
    <3>3. LedgersInv'
      BY <1>1, <2>0, <3>1, <3>2, RouteNcnKeeps
    <3>4. Votes' = Votes
      BY <3>2 DEF RouteNcnRewards
    <3> QED  BY <3>3, <3>4
  <2>5. ASSUME NEW r \in Routers, i = Item("operator", r, r[1]), distribute_ncn_operator_rewards(r)
        PROVE  LedgersInv' /\ Votes' = Votes
    <3>1. r \notin closed /\ DistributeNcnOperatorRewards(r)
      BY <1>2, <2>5 DEF Item, distribute_ncn_operator_rewards
    <3>2. LedgersInv'
      BY <1>1, <2>0, <3>1, DistributeOperatorKeeps
    <3>3. Votes' = Votes
      BY <3>1 DEF DistributeNcnOperatorRewards, PayFrom
    <3> QED  BY <3>2, <3>3
  <2>6. ASSUME NEW r \in Routers, NEW v \in Vaults, i = Item("vault", r, v), distribute_ncn_vault_rewards(r, v)
        PROVE  LedgersInv' /\ Votes' = Votes
    <3>1. r \notin closed /\ DistributeNcnVaultRewards(r, v)
      BY <1>2, <2>6 DEF Item, distribute_ncn_vault_rewards
    <3>2. LedgersInv'
      BY <1>1, <2>0, <3>1, DistributeVaultKeeps
    <3>3. Votes' = Votes
      BY <3>1 DEF DistributeNcnVaultRewards, PayFrom
    <3> QED  BY <3>2, <3>3
  <2>7. LedgersInv' /\ Votes' = Votes
    BY <1>5, <2>1, <2>2, <2>3, <2>4, <2>5, <2>6 DEF Pay
  <2> QED  BY <1>1, <1>2, <2>0, <2>7
<1> QED  BY <1>2, <1>3, <1>4, <1>5 DEF Transaction

\* Between passes the ledgers do not depend on the votes.
LEMMA VotesAreOnlyRead ==
    ASSUME LedgersInv, Votes' = Votes \/ ~ still_routing(base), base' = base, ncn' = ncn,
           ncn_receiver' = ncn_receiver, receiver' = receiver, paid' = paid, deposited' = deposited,
           progress' = progress, closed' = closed, swept' = swept, late' = late
    PROVE  LedgersInv'
<1>1. BaseInv'
  <2>1. CASE Votes' = Votes
    BY <2>1, BaseSoundNext DEF LedgersInv, BaseInv
  <2>2. CASE ~ still_routing(base)
    <3>1. base.last = NoLast /\ base \in BaseRecords
      BY <2>2 DEF LedgersInv, BaseInv, BaseSound, still_routing
    <3>2. base' \in BaseRecords'
      BY <3>1 DEF BaseRecords, NoLast
    <3>3. base'.processed = Assigned(base') /\ base'.pool = 0 /\ ~ still_routing(base')
          /\ \A g \in Groups : base'.group_rewards[g] = 0
      BY <2>2 DEF LedgersInv, BaseInv, BaseSound
    <3> QED  BY <3>2, <3>3 DEF BaseInv, BaseSound, still_routing, Assigned
  <2> QED  BY <2>1, <2>2
<1>2. NcnInv' /\ FundsInv' /\ LamportsInv' /\ ProgressInv'
  BY SameNcn DEF LedgersInv, FundsInv, LamportsInv, ProgressInv
<1> QED  BY <1>1, <1>2 DEF LedgersInv

LEMMA UnchangedKeeps ==
    ASSUME IInv, UNCHANGED vars, UNCHANGED <<closed, swept, late>>
    PROVE  LedgersInv'
<1>1. LedgersInv
  BY DEF IInv, LedgersInv
<1>2. UNCHANGED <<Votes, base, ncn, ncn_receiver, receiver, paid, deposited, progress, closed, swept, late>>
  BY DEF vars
<1> QED  BY <1>1, <1>2, VotesAreOnlyRead

\* Every instruction anybody sends while the routers are open.
LEMMA NextKeeps ==
    ASSUME IInv, closed = {}, Next, UNCHANGED <<closed, late, swept>>
    PROVE  LedgersInv' /\ Votes' = Votes
<1>1. LedgersInv /\ VotesSound /\ BaseRouter \notin closed /\ \A r \in Routers : r \notin closed
  BY FinalVotesAreSound DEF IInv, LedgersInv, ControlInv
<1>2. BaseIterations \subseteq Nat /\ NcnIterations \subseteq Nat
  BY RoutingAssumption
<1>3. ASSUME NEW n \in Deposits, Deposit(n)  PROVE LedgersInv' /\ Votes' = Votes
  <2>1. late' = IF BaseRouter \in closed THEN late + n ELSE late
    BY <1>1
  <2>2. LedgersInv'
    BY <1>1, <1>3, <2>1, DepositKeeps
  <2> QED  BY <1>3, <2>2 DEF Deposit
<1>4. ASSUME NEW k \in BaseIterations, RouteBaseRewards(k)  PROVE LedgersInv' /\ Votes' = Votes
  <2>1. LedgersInv'
    BY <1>1, <1>2, <1>4, RouteBaseKeeps
  <2> QED  BY <1>4, <2>1 DEF RouteBaseRewards
<1>5. ASSUME NEW b \in BaseGroups, DistributeBaseRewards(b)  PROVE LedgersInv' /\ Votes' = Votes
  <2>1. LedgersInv'
    BY <1>1, <1>5, DistributeBaseKeeps
  <2> QED  BY <1>5, <2>1 DEF DistributeBaseRewards
<1>6. ASSUME NEW r \in Routers, DistributeBaseNcnRewardRoute(r)  PROVE LedgersInv' /\ Votes' = Votes
  <2>1. LedgersInv'
    BY <1>1, <1>6, DistributeRouteKeeps
  <2> QED  BY <1>6, <2>1 DEF DistributeBaseNcnRewardRoute
<1>7. ASSUME NEW r \in Routers, NEW k \in NcnIterations, RouteNcnRewards(r, k)
      PROVE  LedgersInv' /\ Votes' = Votes
  <2>1. LedgersInv'
    BY <1>1, <1>2, <1>7, RouteNcnKeeps
  <2> QED  BY <1>7, <2>1 DEF RouteNcnRewards
<1>8. ASSUME NEW r \in Routers, DistributeNcnOperatorRewards(r)  PROVE LedgersInv' /\ Votes' = Votes
  <2>1. LedgersInv'
    BY <1>1, <1>8, DistributeOperatorKeeps
  <2> QED  BY <1>8, <2>1 DEF DistributeNcnOperatorRewards, PayFrom
<1>9. ASSUME NEW r \in Routers, NEW v \in Vaults, DistributeNcnVaultRewards(r, v)
      PROVE  LedgersInv' /\ Votes' = Votes
  <2>1. LedgersInv'
    BY <1>1, <1>9, DistributeVaultKeeps
  <2> QED  BY <1>9, <2>1 DEF DistributeNcnVaultRewards, PayFrom
<1> QED  BY <1>3, <1>4, <1>5, <1>6, <1>7, <1>8, <1>9 DEF Next

LEMMA StepKeepsInvariant == IInv /\ [KNext]_allvars => IInv'
<1> SUFFICES ASSUME IInv, [KNext]_allvars  PROVE LedgersInv' /\ ControlInv'
  BY DEF IInv, LedgersInv
<1>0. ControlInv /\ LedgersInv
  BY DEF IInv, LedgersInv
<1>1. CASE alone /\ StartCrank
  <2>1. UNCHANGED vars /\ UNCHANGED <<alone, closed, swept, late>>
    BY <1>1 DEF StartCrank
  <2>2. LedgersInv'
    BY <2>1, UnchangedKeeps
  <2>3. ControlInv'
    BY <1>0, <1>1, <2>1 DEF ControlInv, vars
  <2> QED  BY <2>2, <2>3
<1>2. CASE alone /\ (Skip \/ Refused)
  <2>1. UNCHANGED vars /\ UNCHANGED <<alone, closed, swept, late>>
    BY <1>2 DEF Skip, Refused, accounts
  <2>2. LedgersInv'
    BY <2>1, UnchangedKeeps
  <2>3. ControlInv'
    BY <1>0, <1>2, <2>1 DEF ControlInv, vars
  <2> QED  BY <2>2, <2>3
<1>3. CASE alone /\ Confirmed
  <2>1. Transaction(Head(todo))
    BY <1>3 DEF Confirmed
  <2>2. LedgersInv' /\ Votes' = Votes /\ closed' \subseteq Routers \cup {BaseRouter} /\ alone' = alone
    BY <2>1, TransactionKeeps
  <2>3. ControlInv'
    BY <1>0, <1>3, <2>2 DEF ControlInv
  <2> QED  BY <2>2, <2>3
<1>4. ASSUME NEW landed \in BOOLEAN, Fails(landed)  PROVE LedgersInv' /\ ControlInv'
  <2>1. alone
    BY <1>0, <1>4 DEF ControlInv, Fails
  <2>2. CASE landed
    <3>1. Transaction(Head(todo))
      BY <1>4, <2>2 DEF Fails
    <3>2. LedgersInv' /\ Votes' = Votes /\ closed' \subseteq Routers \cup {BaseRouter} /\ alone' = alone
      BY <3>1, TransactionKeeps
    <3>3. ControlInv'
      BY <1>0, <2>1, <3>2 DEF ControlInv
    <3> QED  BY <3>2, <3>3
  <2>3. CASE ~ landed
    <3>1. UNCHANGED vars /\ UNCHANGED <<alone, closed, swept, late>>
      BY <1>4, <2>3 DEF Fails, accounts
    <3>2. LedgersInv'
      BY <3>1, UnchangedKeeps
    <3>3. ControlInv'
      BY <1>0, <2>1, <3>1 DEF ControlInv, vars
    <3> QED  BY <3>2, <3>3
  <2> QED  BY <2>2, <2>3
<1>5. ASSUME NEW n \in Deposits, Claim(n)  PROVE LedgersInv' /\ ControlInv'
  <2>1. /\ alone /\ Deposit(n) /\ late' = IF BaseRouter \in closed THEN late + n ELSE late
        /\ UNCHANGED <<alone, closed, swept>>
    BY <1>5 DEF Claim
  <2>2. VotesSound
    BY <1>0, FinalVotesAreSound DEF ControlInv
  <2>3. LedgersInv'
    BY <1>0, <2>1, <2>2, DepositKeeps
  <2>4. ControlInv'
    BY <1>0, <2>1 DEF ControlInv, Deposit
  <2> QED  BY <2>3, <2>4
<1>6. CASE CloseOpens
  <2>1. UNCHANGED vars /\ UNCHANGED <<alone, closed, swept, late>> /\ alone
    BY <1>6 DEF CloseOpens
  <2>2. LedgersInv'
    BY <2>1, UnchangedKeeps
  <2>3. ControlInv'
    BY <1>0, <2>1 DEF ControlInv, vars
  <2> QED  BY <2>2, <2>3
<1>7. CASE Anybody
  <2>1. closed = {} /\ Next /\ UNCHANGED <<alone, todo, closed, swept, late>>
    BY <1>0, <1>7 DEF Anybody, accounts, ControlInv
  <2>2. LedgersInv' /\ Votes' = Votes
    BY <2>1, NextKeeps
  <2>3. ControlInv'
    BY <1>0, <2>1, <2>2 DEF ControlInv
  <2> QED  BY <2>2, <2>3
<1>8. CASE UNCHANGED allvars
  <2>1. UNCHANGED vars /\ UNCHANGED <<alone, todo, closed, swept, late>>
    BY <1>8 DEF allvars, accounts
  <2>2. LedgersInv'
    BY <2>1, UnchangedKeeps
  <2>3. ControlInv'
    BY <1>0, <2>1 DEF ControlInv, vars
  <2> QED  BY <2>2, <2>3
<1> QED  BY <1>1, <1>2, <1>3, <1>4, <1>5, <1>6, <1>7, <1>8 DEF KNext, Keeper

LEMMA Zeros ==
    ASSUME NEW S
    PROVE  [x \in S |-> 0] \in [S -> Nat] /\ SumOf([x \in S |-> 0]) = 0
<1> DEFINE f == [x \in S |-> 0]
<1>1. f \in [S -> Nat] /\ f = [x \in S |-> f[x]] /\ \A x \in S : f[x] = 0
  OBVIOUS
<1>2. SumOf(f) = 0
  <2> HIDE DEF f
  <2> QED  BY <1>1, SumZero
<1> QED  BY <1>1, <1>2

LEMMA InitLedgers ==
    ASSUME RoutersInit, closed = {}, swept = 0, late = 0
    PROVE  LedgersInv
<1>1. /\ receiver = 0 /\ ncn_receiver = [r \in Routers |-> 0] /\ deposited = 0 /\ closed = {}
      /\ paid = [p \in Payees |-> 0] /\ swept = 0 /\ late = 0
  BY DEF RoutersInit, Payees
<1>2. BaseInv
  <2> DEFINE fb == [b \in BaseGroups |-> 0]
             fg == [g \in Groups |-> 0]
             fr == [r \in Routers |-> 0]
  <2>1. base = [total |-> 0, pool |-> 0, processed |-> 0, base_rewards |-> fb, group_rewards |-> fg,
                routes |-> fr, last |-> NoLast]
    BY DEF RoutersInit
  <2>2. fb \in [BaseGroups -> Nat] /\ fg \in [Groups -> Nat] /\ fr \in [Routers -> Nat]
    BY Zeros
  <2>3. SumOf(fb) = 0 /\ SumOf(fg) = 0 /\ SumOf(fr) = 0
    BY Zeros
  <2>4. \A g \in Groups : fg[g] = 0
    OBVIOUS
  <2> HIDE DEF fb, fg, fr
  <2>5. base \in BaseRecords
    BY <2>1, <2>2 DEF BaseRecords
  <2>6. base.processed = Assigned(base) /\ ~ still_routing(base) /\ base.pool = 0
    BY <2>1, <2>3 DEF Assigned, still_routing
  <2>7. \A g \in Groups : base.group_rewards[g] = 0
    BY <2>1, <2>4
  <2> QED  BY <2>5, <2>6, <2>7 DEF BaseInv, BaseSound
<1>3. NcnInv
  <2> DEFINE fv == [v \in Vaults |-> 0]
             z == [total |-> 0, pool |-> 0, processed |-> 0, operator_rewards |-> 0,
                   vault_routes |-> fv, last |-> NoLast]
  <2>1. ncn = [r \in Routers |-> z]
    BY DEF RoutersInit
  <2>2. fv \in [Vaults -> Nat] /\ SumOf(fv) = 0
    BY Zeros
  <2> HIDE DEF fv
  <2>3. z \in NcnRecords /\ z.processed = z.operator_rewards + SumOf(z.vault_routes) /\ ~ still_routing(z)
        /\ z.pool = 0
    BY <2>2 DEF NcnRecords, still_routing
  <2> HIDE DEF z
  <2>4. \A r \in Routers : NcnSound(z, r)
    BY <2>3 DEF NcnSound
  <2> QED  BY <2>1, <2>3, <2>4 DEF NcnInv
<1>4. base.processed = 0 /\ base.total = 0 /\ \A r \in Routers : ncn[r].pool = 0 /\ ncn[r].processed = 0 /\ ncn[r].total = 0
  <2>1. base.processed = 0 /\ base.total = 0
    BY DEF RoutersInit
  <2>2. ASSUME NEW r \in Routers  PROVE ncn[r].pool = 0 /\ ncn[r].processed = 0 /\ ncn[r].total = 0
    BY DEF RoutersInit
  <2> QED  BY <2>1, <2>2
<1>5. ncn_receiver \in [Routers -> Nat] /\ SumOf(ncn_receiver) = 0 /\ paid \in [Payees -> Nat] /\ SumOf(paid) = 0
  BY <1>1, Zeros
<1>6. FundsInv
  BY <1>1, <1>4, <1>5 DEF FundsInv
<1>7. LamportsInv
  <2>1. MaxRewards \in Nat
    BY RoutingAssumption
  <2>2. deposited = receiver + SumOf(ncn_receiver) + SumOf(paid) + swept
    BY <1>1, <1>5
  <2> QED  BY <1>1, <1>5, <2>1, <2>2 DEF LamportsInv
<1>8. ProgressInv
  <2>1. progress = [total |-> [tally |-> 0, total |-> 0], base |-> [tally |-> 0, total |-> 0],
                    ncn |-> [r \in Routers |-> [tally |-> 0, total |-> 0]]]
    BY DEF RoutersInit
  <2>2. progress \in Progresses
    BY <2>1 DEF Progresses, Count
  <2>3. progress.base.total = 0 /\ progress.total.total = 0 /\ progress.base.tally = 0 /\ progress.total.tally = 0
    BY <2>1
  <2>4. \A r \in Routers : progress.ncn[r].total = 0 /\ progress.ncn[r].tally = 0
    BY <2>1
  <2> QED  BY <1>4, <1>5, <2>2, <2>3, <2>4 DEF ProgressInv
<1> QED  BY <1>2, <1>3, <1>6, <1>7, <1>8 DEF LedgersInv

LEMMA InitInvariant == KInit => IInv
<1> SUFFICES ASSUME KInit  PROVE IInv
  OBVIOUS
<1>1. ControlInv
  BY DEF KInit, Init, ControlInv
<1>2. LedgersInv
  BY InitLedgers DEF KInit, Init
<1> QED  BY <1>1, <1>2 DEF IInv, LedgersInv

\* Whatever the keeper or anybody else sends, in slices of any size, with
\* failures and with closing: what a router has assigned is what its entries
\* hold, the rest of a pass that was cut off fits into what is left for it, each
\* open receiver has the lamports of its router, closed ones were swept, and the
\* progress of the epoch state follows the ledgers.
THEOREM RewardsInvariant == KSpec => []IInv
<1>1. KInit => IInv
  BY InitInvariant
<1>2. IInv /\ [KNext]_allvars => IInv'
  BY StepKeepsInvariant
<1> QED  BY <1>1, <1>2, PTL DEF KSpec

LEMMA InvariantConserves == IInv => LamportsConserved
<1> SUFFICES ASSUME IInv  PROVE LamportsConserved
  OBVIOUS
<1>1. ncn_receiver \in [Routers -> Nat] /\ paid \in [Payees -> Nat]
  BY DEF IInv, FundsInv, LamportsInv
<1>2. [r \in Routers |-> ncn_receiver[r]] = ncn_receiver /\ [p \in DOMAIN paid |-> paid[p]] = paid
  BY <1>1
<1>3. Held = receiver + SumOf(ncn_receiver) /\ Paid = SumOf(paid)
  BY <1>2 DEF Held, Paid, SumOver
<1>4. deposited = receiver + SumOf(ncn_receiver) + SumOf(paid) + swept
  BY DEF IInv, LamportsInv
<1>5. deposited = Held + Paid + swept
  BY <1>3, <1>4
<1>6. /\ BaseRouter \in closed => receiver = late
      /\ \A r \in Routers : r \in closed => ncn_receiver[r] = 0
  BY DEF IInv, FundsInv
<1> QED  BY <1>5, <1>6 DEF LamportsConserved

\* No lamport of the epoch's tips is created or lost by routing, distribution
\* and closing: every one is in a receiver, was paid or went to the DAO wallet,
\* for every set of operators, vaults, fees and deposits, whatever transactions
\* fail or land twice.
THEOREM NoLamportIsLost == KSpec => []LamportsConserved
<1>1. IInv => LamportsConserved
  BY InvariantConserves
<1> QED  BY <1>1, RewardsInvariant, PTL

LEMMA InvariantTypes == ASSUME IInv, closed = {}  PROVE TypeOK
<1>1. base \in BaseRecords /\ ncn \in [Routers -> NcnRecords]
  BY DEF IInv, BaseInv, BaseSound, NcnInv
<1>2. /\ base.total \in Nat /\ base.pool \in Nat /\ base.processed \in Nat
      /\ base.base_rewards \in [BaseGroups -> Nat] /\ base.group_rewards \in [Groups -> Nat]
      /\ base.routes \in [Routers -> Nat]
      /\ base.last = NoLast \/ base.last \in [group : Groups, vote : WinningVotes, rewards : Nat]
  BY <1>1 DEF BaseRecords, Positions
<1>3. ASSUME NEW r \in Routers
      PROVE  /\ ncn[r].total \in Nat /\ ncn[r].pool \in Nat /\ ncn[r].processed \in Nat
             /\ ncn[r].operator_rewards \in Nat /\ ncn[r].vault_routes \in [Vaults -> Nat]
  BY <1>1 DEF NcnRecords
<1>4. /\ receiver \in Nat /\ deposited \in 0 .. MaxRewards /\ ncn_receiver \in [Routers -> Nat]
      /\ paid \in [BaseGroups \cup Operators \cup Vaults -> Nat]
  BY DEF IInv, FundsInv, LamportsInv, Payees
<1> QED  BY <1>2, <1>3, <1>4 DEF TypeOK

LEMMA InvariantBalances ==
    ASSUME IInv, closed = {}
    PROVE  BaseLedgerBalances /\ NcnLedgersBalance /\ ProgressAccounts
<1>1. base \in BaseRecords /\ base.pool = 0 /\ base.processed \in Nat /\ base.processed = Assigned(base)
  BY DEF IInv, BaseInv, BaseSound, BaseRecords
<1>2. BaseRouter \notin closed /\ \A r \in Routers : r \notin closed
  OBVIOUS
<1>3. BaseLedgerBalances
  <2>1. receiver >= base.pool + base.processed
    BY <1>1, <1>2 DEF IInv, FundsInv
  <2>2. ASSUME ~ still_routing(base)  PROVE SumOf(base.group_rewards) = 0
    <3> DEFINE f == base.group_rewards
    <3>1. f \in [Groups -> Nat] /\ \A g \in Groups : f[g] = 0
      BY <1>1, <2>2 DEF IInv, BaseInv, BaseSound, BaseRecords
    <3>2. f = [g \in Groups |-> f[g]]
      BY <3>1
    <3> HIDE DEF f
    <3>3. SumOf(f) = 0
      BY <3>1, <3>2, SumZero
    <3> QED  BY <3>3 DEF f
  <2> QED  BY <1>1, <2>1, <2>2 DEF BaseLedgerBalances, Assigned
<1>4. NcnLedgersBalance
  <2> SUFFICES ASSUME NEW r \in Routers
               PROVE  /\ ncn[r].processed = ncn[r].operator_rewards + SumOf(ncn[r].vault_routes)
                      /\ ~ still_routing(ncn[r]) => ncn[r].pool = 0
                      /\ ncn_receiver[r] >= ncn[r].pool + ncn[r].processed
    BY DEF NcnLedgersBalance
  <2>1. NcnSound(ncn[r], r)
    BY DEF IInv, NcnInv
  <2>2. ncn_receiver[r] >= ncn[r].pool + ncn[r].processed
    BY <1>2 DEF IInv, FundsInv
  <2> QED  BY <2>1, <2>2 DEF NcnSound
<1>5. ProgressAccounts
  <2>1. progress.base.total = base.total /\ progress.total.total = base.total
    BY DEF IInv, ProgressInv
  <2>2. progress.base.tally \in Nat /\ progress.total.tally \in Nat
    BY DEF IInv, ProgressInv, Progresses, Count
  <2>3. progress.base.tally + base.pool + base.processed = base.total
    BY <1>1, <2>2 DEF IInv, ProgressInv
  <2>4. progress.total.tally + base.pool + base.processed + SumOf(ncn_receiver) = base.total
    BY <1>1, <2>2 DEF IInv, ProgressInv
  <2>5. \A r \in Routers :
            progress.ncn[r].tally + ncn[r].pool + ncn[r].processed = progress.ncn[r].total
    BY DEF IInv, ProgressInv
  <2> QED  BY <2>1, <2>3, <2>4, <2>5 DEF ProgressAccounts
<1> QED  BY <1>3, <1>4, <1>5

LEMMA SoundSlices == ASSUME VotesSound, BaseInv, NcnInv  PROVE SlicesNeverFail
<1>1. VotesSound /\ base \in BaseRecords
  BY DEF BaseInv, BaseSound
<1>2. ASSUME still_routing(base), NEW k  PROVE SliceFits(base, k)
  <2> SUFFICES ASSUME NEW g \in Groups
               PROVE  Routed(base, FirstOf(Pending(base), k), g) <= base.group_rewards[g]
    BY DEF SliceFits
  <2> DEFINE V == Pending(base)
             A == FirstOf(V, k)
  <2>1. V \in SUBSET Recipients /\ A \in SUBSET V
    BY PendingType DEF FirstOf
  <2>2. Routed(base, V, g) <= base.group_rewards[g] /\ base.group_rewards[g] \in Nat
    BY <1>1, <1>2 DEF BaseInv, BaseSound, PassFits, BaseRecords
  <2> HIDE DEF V, A
  <2>3. Routed(base, A, g) <= Routed(base, V, g) /\ Routed(base, A, g) \in Nat /\ Routed(base, V, g) \in Nat
    BY <1>1, <2>1, RoutedParts
  <2>4. Routed(base, A, g) <= base.group_rewards[g]
    BY <2>2, <2>3
  <2> QED  BY <2>4 DEF A, V
<1>3. ASSUME NEW r \in Routers, still_routing(ncn[r]), NEW k  PROVE VaultSliceFits(ncn[r], r, k)
  <2> DEFINE n == ncn[r]
             a == NcnRewardsToProcess(n)
             T == Todo(n, r)
             V == VaultSlice(n, r, k)
  <2>1. n \in NcnRecords /\ VaultsDue(n, r, T) <= n.pool /\ n.pool \in Nat
    BY <1>3 DEF NcnInv, NcnSound, NcnRecords
  <2>2. a \in Nat
    BY <2>1, NcnRewardsType
  <2>3. T \in SUBSET Entries(r) /\ V \in SUBSET T /\ V \in SUBSET Entries(r)
    BY DEF Todo, VaultSlice, Entries
  <2>4. VaultSliceFits(n, r, k) <=> VaultsDue(n, r, V) <= n.pool
    BY DEF VaultSliceFits, VaultsDue
  <2> HIDE DEF n, T, V
  <2>5. /\ VaultsDue(n, r, T) = SumOf(On(VaultShares(r, a), T)) /\ VaultsDue(n, r, T) \in Nat
        /\ VaultsDue(n, r, V) = SumOf(On(VaultShares(r, a), V)) /\ VaultsDue(n, r, V) \in Nat
    BY <2>2, <2>3, VaultsDueIs
  <2>6. SumOf(On(VaultShares(r, a), V)) <= SumOf(On(VaultShares(r, a), T))
    <3> HIDE DEF a
    <3>1. VaultShares(r, a) \in [Entries(r) -> Nat] /\ IsFiniteSet(Entries(r))
      BY <2>2, VaultSharesFit
    <3> QED  BY <2>3, <3>1, SumParts
  <2>7. VaultsDue(n, r, V) <= n.pool
    BY <2>1, <2>5, <2>6
  <2> QED  BY <2>4, <2>7 DEF n
<1> QED  BY <1>2, <1>3 DEF SlicesNeverFail

LEMMA InvariantSlices == ASSUME IInv  PROVE SlicesNeverFail
BY FinalVotesAreSound, SoundSlices DEF IInv, ControlInv

\* Until the epoch's accounts are closed the ledgers of all routers balance to
\* the lamport, also between the slices of a pass, their receivers can pay what
\* they assigned, the epoch state's progress accounts for every lamport, and the
\* next slice of a pass never underflows, for every epoch and every caller.
THEOREM LedgersAlwaysBalance == KSpec => []LedgersBalance
<1>1. IInv => LedgersBalance
  BY InvariantTypes, InvariantBalances, InvariantSlices DEF LedgersBalance
<1> QED  BY <1>1, RewardsInvariant, PTL

-----------------------------------------------------------------------------
(* A pass cut into slices                                                  *)

\* The rest of a pass of the base router in one slice, and of the router of r.
WholePass(b) == [Visit(b, Pending(b), Groups) EXCEPT !.last = NoLast]
WholeNcnPass(n, r) == OperatorRemainder(VisitVaults(n, r, NcnRewardsToProcess(n), Todo(n, r)))

LEMMA WholePassIs ==
    ASSUME VotesSound, NEW b \in BaseRecords
    PROVE  WholePass(b) =
              [total |-> b.total, pool |-> b.pool, processed |-> b.processed,
               base_rewards |-> [b.base_rewards EXCEPT ![Dao] = @ + SumOf(Rest(b, Pending(b)))],
               group_rewards |-> [g \in Groups |-> 0],
               routes |-> [r \in Routers |-> b.routes[r] + DueTo(b, Pending(b))[r]],
               last |-> NoLast]
<1> DEFINE V == Pending(b)
<1>1. V \in SUBSET Recipients /\ Groups \in SUBSET Groups
  BY PendingType
<1>2. On(Rest(b, V), Groups) = Rest(b, V) /\ Unfinished(b, V, Groups) = [g \in Groups |-> 0]
  BY DEF On, Rest, Unfinished
<1> DEFINE br == [b.base_rewards EXCEPT ![Dao] = @ + SumOf(Rest(b, V))]
           gr == [g \in Groups |-> 0]
           rt == [r \in Routers |-> b.routes[r] + DueTo(b, V)[r]]
<1>3. Visit(b, V, Groups) = [total |-> b.total, pool |-> b.pool, processed |-> b.processed,
                             base_rewards |-> br, group_rewards |-> gr, routes |-> rt, last |-> b.last]
  <2> HIDE DEF V
  <2> QED  BY <1>1, <1>2, VisitIs
<1> HIDE DEF br, gr, rt
<1>4. WholePass(b) = [total |-> b.total, pool |-> b.pool, processed |-> b.processed,
                      base_rewards |-> br, group_rewards |-> gr, routes |-> rt, last |-> NoLast]
  BY <1>3 DEF WholePass
<1> QED  BY <1>4 DEF br, gr, rt

\* What a slice leaves is what the next one finds: the recipients it did not
\* visit, in the groups it did not finish, with the same shares.
LEMMA SavedPass ==
    ASSUME VotesSound, NEW b \in BaseRecords, NEW k \in Nat,
           NEW V, V = FirstOf(Pending(b), k),
           NEW stop, stop \in Pending(b) \ V, \A q \in Pending(b) \ V : stop = q \/ Before(stop, q),
           NEW c \in BaseRecords, c.last = SavePosition(b, stop),
           c.group_rewards = Unfinished(b, V, 1 .. stop[1] - 1)
    PROVE  /\ Pending(c) = Pending(b) \ V
           /\ \A p \in Pending(c) : Shares(c)[p] = Shares(b)[p]
           /\ \A p \in Pending(c) : p[1] \notin 1 .. stop[1] - 1
<1>1. /\ stop \in Recipients /\ stop[1] \in Groups /\ stop[2] \in WinningVotes
      /\ stop = <<stop[1], stop[2]>> /\ stop[1] \in Nat /\ stop[2] \in Nat
      /\ Groups \subseteq Nat /\ WinningVotes \subseteq Nat
  <2>1. /\ stop \in Recipients /\ stop[1] \in Groups /\ stop[2] \in WinningVotes
        /\ stop = <<stop[1], stop[2]>>
    BY DEF Pending, Recipients
  <2>2. Groups \subseteq Nat /\ WinningVotes \subseteq Nat
    BY FiniteSets DEF VotesSound
  <2> QED  BY <2>1, <2>2
<1>2. /\ still_routing(c) /\ c.last.group = stop[1] /\ c.last.vote = stop[2]
      /\ c.last.rewards = RewardsToProcess(b, stop[1])
  BY DEF SavePosition, still_routing, NoLast
<1>3. Pending(c) \in SUBSET Recipients /\ Pending(b) \in SUBSET Recipients /\ V \in SUBSET Pending(b)
  BY PendingType DEF FirstOf
<1>4. \A p \in Recipients : /\ p[1] \in Groups /\ p[1] \in Nat /\ p[2] \in WinningVotes /\ p[2] \in Nat
                            /\ p = <<p[1], p[2]>>
  <2>1. \A p \in Recipients : p[1] \in Groups /\ p[2] \in WinningVotes /\ p = <<p[1], p[2]>>
    BY DEF Recipients
  <2> QED  BY <1>1, <2>1
<1>5. ASSUME NEW p \in V, Before(stop, p)  PROVE FALSE
  <2>1. stop \in FirstOf(Pending(b), k)
    BY <1>3, <1>5, FirstOfIsInitial
  <2> QED  BY <2>1
<1>6. ASSUME still_routing(b)
      PROVE  /\ b.last.group \in Nat /\ b.last.vote \in Nat
             /\ ~ Before(stop, <<b.last.group, b.last.vote>>)
  <2>1. b.last \in Positions
    BY <1>6 DEF BaseRecords, still_routing
  <2>2. b.last.group \in Nat /\ b.last.vote \in Nat
    BY <1>1, <2>1 DEF Positions
  <2> QED  BY <1>6, <2>2 DEF Pending
<1>7. ASSUME NEW g \in Groups, g >= stop[1]  PROVE RewardsToProcess(c, g) = RewardsToProcess(b, g)
  <2>1. CASE g = stop[1]
    BY <1>2, <2>1 DEF RewardsToProcess
  <2>2. CASE g # stop[1]
    <3>1. g > stop[1] /\ g \in Nat
      BY <1>1, <1>7, <2>2
    <3>2. {p \in V : p[1] = g} = {}
      <4> SUFFICES ASSUME NEW p \in V, p[1] = g  PROVE FALSE
        OBVIOUS
      <4>1. Before(stop, p)
        BY <3>1 DEF Before
      <4> QED  BY <1>5, <4>1
    <3>3. Routed(b, V, g) = 0
      <4>1. SumOf(On(Shares(b), {})) = 0
        <5> DEFINE f == On(Shares(b), {})
        <5>1. f = [x \in {} |-> f[x]]
          BY DEF On
        <5> HIDE DEF f
        <5>2. SumOf(f) = 0
          BY <5>1, SumZero
        <5> QED  BY <5>2 DEF f
      <4>2. V \in SUBSET Recipients
        BY <1>3
      <4>3. Routed(b, V, g) = SumOf(On(Shares(b), {p \in V : p[1] = g}))
        BY <4>2, RoutedIsSum
      <4> QED  BY <3>2, <4>1, <4>3
    <3>4. c.group_rewards[g] = b.group_rewards[g] - Routed(b, V, g) /\ b.group_rewards[g] \in Nat
      <4>1. g \notin 1 .. stop[1] - 1
        BY <1>1, <3>1
      <4> QED  BY <4>1 DEF Unfinished, Rest, BaseRecords
    <3>5. RewardsToProcess(c, g) = b.group_rewards[g]
      BY <1>2, <2>2, <3>3, <3>4 DEF RewardsToProcess
    <3>6. ~ (still_routing(b) /\ b.last.group = g)
      BY <1>1, <1>6, <3>1 DEF Before
    <3> QED  BY <3>5, <3>6 DEF RewardsToProcess
  <2> QED  BY <2>1, <2>2
<1>8. ASSUME NEW p \in Recipients
      PROVE  ~ Before(p, stop) <=> stop = p \/ Before(stop, p)
  BY <1>1, <1>4 DEF Before
<1>9. ASSUME NEW p \in Pending(c)
      PROVE  /\ p \in Pending(b) \ V /\ p[1] \in Groups /\ p[1] >= stop[1]
             /\ RewardsToProcess(c, p[1]) = RewardsToProcess(b, p[1])
  <2>1. p \in Recipients /\ RewardsToProcess(c, p[1]) > 0 /\ ~ Before(p, stop)
    BY <1>1, <1>2, <1>3 DEF Pending
  <2>2. p[1] \in Groups /\ p[1] >= stop[1] /\ (stop = p \/ Before(stop, p))
    BY <1>1, <1>4, <1>8, <2>1 DEF Before
  <2>3. RewardsToProcess(c, p[1]) = RewardsToProcess(b, p[1])
    BY <1>7, <2>2
  <2>4. still_routing(b) => ~ Before(p, <<b.last.group, b.last.vote>>)
    BY <1>1, <1>4, <1>6, <2>1, <2>2 DEF Before
  <2>5. p \in Pending(b)
    BY <2>1, <2>3, <2>4 DEF Pending, Recipients
  <2>6. p \notin V
    BY <1>5, <2>2
  <2> QED  BY <2>2, <2>3, <2>5, <2>6
<1>10. ASSUME NEW p \in Pending(b) \ V  PROVE p \in Pending(c)
  <2>1. p \in Recipients /\ (stop = p \/ Before(stop, p)) /\ RewardsToProcess(b, p[1]) > 0
    BY <1>3 DEF Pending
  <2>2. ~ Before(p, stop) /\ p[1] \in Groups /\ p[1] >= stop[1]
    BY <1>1, <1>4, <1>8, <2>1 DEF Before
  <2>3. RewardsToProcess(c, p[1]) = RewardsToProcess(b, p[1])
    BY <1>7, <2>2
  <2>4. ~ Before(p, <<c.last.group, c.last.vote>>)
    BY <1>1, <1>2, <2>2
  <2> QED  BY <2>1, <2>3, <2>4 DEF Pending, Recipients
<1>11. Pending(c) = Pending(b) \ V
  BY <1>9, <1>10
<1>12. ASSUME NEW p \in Pending(c)
       PROVE  Shares(c)[p] = Shares(b)[p] /\ p[1] \notin 1 .. stop[1] - 1
  <2>1. p \in Recipients /\ p[1] \in Nat
    BY <1>3, <1>4
  <2>2. Shares(c)[p] = Shares(b)[p]
    BY <1>9, <2>1 DEF Shares, RouteShare
  <2>3. p[1] \notin 1 .. stop[1] - 1
    BY <1>1, <1>9, <2>1
  <2> QED  BY <2>2, <2>3
<1> QED  BY <1>11, <1>12

\* Visiting the rest in two parts gives what visiting it at once gives.
Leaves(b, V, F, c) ==
    /\ c.group_rewards = Unfinished(b, V, F)
    /\ Pending(c) = Pending(b) \ V
    /\ \A p \in Pending(c) : Shares(c)[p] = Shares(b)[p] /\ p[1] \notin F
Splits(b, V, F, c) ==
    /\ SumOf(Rest(b, Pending(b))) = SumOf(On(Rest(b, V), F)) + SumOf(Rest(c, Pending(c)))
    /\ SumOf(On(Rest(b, V), F)) \in Nat /\ SumOf(Rest(c, Pending(c))) \in Nat
    /\ \A r \in Routers : DueTo(b, Pending(b))[r] = DueTo(b, V)[r] + DueTo(c, Pending(c))[r]
    /\ \A r \in Routers : DueTo(b, V)[r] \in Nat /\ DueTo(c, Pending(c))[r] \in Nat

LEMMA RestSplits ==
    ASSUME VotesSound, NEW b \in BaseRecords, PassFits(b), NEW V \in SUBSET Pending(b),
           NEW F \in SUBSET Groups, NEW c \in BaseRecords, Leaves(b, V, F, c)
    PROVE  Splits(b, V, F, c)
<1> DEFINE P == Pending(b)
<1>0. /\ c.group_rewards = Unfinished(b, V, F) /\ Pending(c) = P \ V /\ V \in SUBSET P
      /\ \A p \in Pending(c) : Shares(c)[p] = Shares(b)[p]
      /\ \A p \in Pending(c) : p[1] \notin F
      /\ P = Pending(b)
  BY DEF Leaves
<1> HIDE DEF P
<1> DEFINE L == P \ V
<1>1. P \in SUBSET Recipients /\ V \in SUBSET Recipients /\ L \in SUBSET Recipients
  BY <1>0, PendingType
<1>2. \A T \in SUBSET L : On(Shares(c), T) = On(Shares(b), T)
  BY <1>0 DEF On
<1>3. ASSUME NEW g \in Groups
      PROVE  /\ Routed(b, P, g) = Routed(b, V, g) + Routed(c, L, g)
             /\ Routed(b, V, g) \in Nat /\ Routed(c, L, g) \in Nat
             /\ Routed(b, P, g) <= b.group_rewards[g] /\ b.group_rewards[g] \in Nat
  <2>1. Routed(c, L, g) = Routed(b, L, g)
    <3>1. {p \in L : p[1] = g} \in SUBSET L
      OBVIOUS
    <3>2. /\ Routed(c, L, g) = SumOf(On(Shares(c), {p \in L : p[1] = g}))
          /\ Routed(b, L, g) = SumOf(On(Shares(b), {p \in L : p[1] = g}))
      <4> HIDE DEF L
      <4> QED  BY <1>1, RoutedIsSum
    <3> HIDE DEF L
    <3> QED  BY <1>2, <3>1, <3>2
  <2>2. /\ Routed(b, P, g) = Routed(b, V, g) + Routed(b, L, g)
        /\ Routed(b, V, g) \in Nat /\ Routed(b, L, g) \in Nat
    <3>1. P \in SUBSET Recipients /\ V \in SUBSET P
      BY <1>0, <1>1
    <3>2. \A X \in SUBSET Recipients : \A A \in SUBSET X :
             /\ Routed(b, X, g) = Routed(b, A, g) + Routed(b, X \ A, g)
             /\ Routed(b, A, g) \in Nat /\ Routed(b, X \ A, g) \in Nat
      BY RoutedPartsAll
    <3> QED  BY <3>1, <3>2, Zenon
  <2>3. Routed(b, P, g) <= b.group_rewards[g] /\ b.group_rewards[g] \in Nat
    BY <1>0 DEF PassFits, BaseRecords
  <2> QED  BY <2>1, <2>2, <2>3
<1>4. ASSUME NEW g \in F  PROVE Routed(c, L, g) = 0
  <2>1. {p \in L : p[1] = g} = {}
    BY <1>0
  <2>2. Routed(c, L, g) = SumOf(On(Shares(c), {p \in L : p[1] = g}))
    <3> HIDE DEF L
    <3> QED  BY <1>1, RoutedIsSum
  <2> DEFINE f == On(Shares(c), {})
  <2>3. f = [x \in {} |-> f[x]]
    BY DEF On
  <2> HIDE DEF f
  <2>4. SumOf(f) = 0
    BY <2>3, SumZero
  <2> QED  BY <2>1, <2>2, <2>4 DEF f
<1> DEFINE whole == Rest(b, P)
           first == Rest(b, V)
           second == Rest(c, L)
<1>5. ASSUME NEW g \in Groups
      PROVE  /\ whole[g] \in Nat /\ first[g] \in Nat /\ second[g] \in Nat
             /\ g \in F => whole[g] = first[g] /\ second[g] = 0
             /\ g \notin F => second[g] = whole[g]
  <2> DEFINE x == Routed(b, V, g)
             y == Routed(c, L, g)
             n == b.group_rewards[g]
  <2>1. Routed(b, P, g) = x + y /\ x \in Nat /\ y \in Nat /\ x + y <= n /\ n \in Nat
    BY <1>3
  <2>2. whole[g] = n - Routed(b, P, g) /\ first[g] = n - x /\ second[g] = c.group_rewards[g] - y
    BY DEF Rest
  <2>3. g \in F => c.group_rewards[g] = 0 /\ y = 0
    BY <1>0, <1>4 DEF Unfinished
  <2>4. g \notin F => c.group_rewards[g] = n - x
    BY <1>0 DEF Unfinished, Rest
  <2> HIDE DEF x, y, n, whole, first, second, L
  <2> QED  BY <2>1, <2>2, <2>3, <2>4
<1>6. whole \in [Groups -> Nat] /\ second \in [Groups -> Nat] /\ first \in [Groups -> Nat]
  <2>1. /\ whole = [g \in Groups |-> whole[g]] /\ first = [g \in Groups |-> first[g]]
        /\ second = [g \in Groups |-> second[g]]
    BY DEF Rest
  <2> HIDE DEF whole, first, second
  <2> QED  BY <1>5, <2>1
<1>7. SumOf(whole) = SumOf(On(first, F)) + SumOf(second) /\ SumOf(On(first, F)) \in Nat /\ SumOf(second) \in Nat
  <2>1. IsFiniteSet(Groups)
    BY FiniteSets
  <2> HIDE DEF whole, first, second
  <2>2. /\ SumOf(whole) = SumOf(On(whole, F)) + SumOf(On(whole, Groups \ F))
        /\ SumOf(On(whole, F)) \in Nat
    BY <1>6, <2>1, SumSplit
  <2>3. /\ SumOf(second) = SumOf(On(second, F)) + SumOf(On(second, Groups \ F))
        /\ SumOf(On(second, Groups \ F)) \in Nat
    BY <1>6, <2>1, SumSplit
  <2>4. On(whole, F) = On(first, F) /\ On(second, Groups \ F) = On(whole, Groups \ F)
    BY <1>5 DEF On
  <2>5. SumOf(On(second, F)) = 0
    <3> DEFINE f == On(second, F)
    <3>1. f = [g \in F |-> f[g]] /\ \A g \in F : f[g] = 0
      BY <1>5 DEF On
    <3> HIDE DEF f
    <3>2. SumOf(f) = 0
      BY <3>1, SumZero
    <3> QED  BY <3>2 DEF f
  <2> QED  BY <2>2, <2>3, <2>4, <2>5
<1>8. ASSUME NEW r \in Routers
      PROVE  /\ DueTo(b, P)[r] = DueTo(b, V)[r] + DueTo(c, L)[r]
             /\ DueTo(b, V)[r] \in Nat /\ DueTo(c, L)[r] \in Nat
  <2> DEFINE Of(X) == {p \in X : r = <<Votes[p[2]].operator, p[1]>>}
             f == Shares(b)
  <2>1. Of(P) \in SUBSET Recipients /\ Of(V) \in SUBSET Of(P) /\ Of(L) = Of(P) \ Of(V) /\ Of(L) \in SUBSET L
    BY <1>0, <1>1
  <2>2. /\ DueTo(b, P)[r] = SumOf(On(f, Of(P))) /\ DueTo(b, V)[r] = SumOf(On(f, Of(V)))
        /\ DueTo(c, L)[r] = SumOf(On(Shares(c), Of(L)))
    <3> HIDE DEF L
    <3> QED  BY DEF DueTo
  <2>3. f \in [Recipients -> Nat] /\ IsFiniteSet(Recipients)
    BY SharesType
  <2> HIDE DEF Of, L, f
  <2>4. On(Shares(c), Of(L)) = On(f, Of(L))
    BY <1>2, <2>1 DEF f
  <2>5. /\ SumOf(On(f, Of(P))) = SumOf(On(f, Of(V))) + SumOf(On(f, Of(P) \ Of(V)))
        /\ SumOf(On(f, Of(V))) \in Nat /\ SumOf(On(f, Of(P) \ Of(V))) \in Nat
    <3> DEFINE A == Of(V)
               B == Of(P)
    <3>1. B \in SUBSET Recipients /\ A \in SUBSET B
      BY <2>1
    <3> HIDE DEF A, B
    <3>2. /\ SumOf(On(f, B)) = SumOf(On(f, A)) + SumOf(On(f, B \ A))
          /\ SumOf(On(f, A)) \in Nat /\ SumOf(On(f, B \ A)) \in Nat
      BY <2>3, <3>1, SumPartsAll, Zenon
    <3> QED  BY <3>2 DEF A, B
  <2>6. DueTo(c, L)[r] = SumOf(On(f, Of(P) \ Of(V)))
    <3>1. On(Shares(c), Of(L)) = On(f, Of(P) \ Of(V))
      BY <2>1, <2>4, Zenon
    <3> QED  BY <2>2, <3>1, Zenon
  <2> DEFINE x == SumOf(On(f, Of(P) \ Of(V)))
             y == SumOf(On(f, Of(V)))
             z == SumOf(On(f, Of(P)))
  <2>7. DueTo(c, L)[r] = x /\ DueTo(b, V)[r] = y /\ DueTo(b, P)[r] = z /\ z = y + x /\ x \in Nat /\ y \in Nat
    BY <2>2, <2>5, <2>6, Zenon
  <2> HIDE DEF x, y, z
  <2> QED  BY <2>7
<1>9. Pending(c) = L
  BY <1>0
<1> HIDE DEF L
<1> QED  BY <1>0, <1>7, <1>8, <1>9 DEF Splits

\* A slice does not change how the pass has to end.
LEMMA SliceKeepsWhole ==
    ASSUME VotesSound, NEW b \in BaseRecords, NEW k \in Nat, b.processed = Assigned(b), PassFits(b),
           NEW c, c = RouteSlice(b, k)
    PROVE  IF still_routing(c) THEN WholePass(c) = WholePass(b) ELSE c = WholePass(b)
<1> DEFINE V == FirstOf(Pending(b), k)
           left == Pending(b) \ V
           stop == CHOOSE p \in left : \A q \in left : p = q \/ Before(p, q)
<1>1. V \in SUBSET Recipients /\ V \in SUBSET Pending(b) /\ Pending(b) \in SUBSET Recipients
  BY PendingType DEF FirstOf
<1>2. CASE left = {}
  <2>1. V = Pending(b)
    BY <1>1, <1>2
  <2> DEFINE d == Visit(b, V, Groups)
  <2>2. c = [d EXCEPT !.last = NoLast]
    BY <1>2 DEF RouteSlice
  <2>3. c = WholePass(b)
    <3> HIDE DEF V
    <3> QED  BY <2>1, <2>2 DEF WholePass
  <2>4. ~ still_routing(c)
    <3>1. WholePass(b).last = NoLast
      BY WholePassIs
    <3> QED  BY <2>3, <3>1 DEF still_routing
  <2> QED  BY <2>3, <2>4
<1>3. CASE left # {}
  <2>1. stop \in left /\ \A q \in left : stop = q \/ Before(stop, q)
    <3>1. left \in SUBSET Recipients
      BY <1>1
    <3> HIDE DEF left
    <3> QED  BY <1>3, <3>1, NextRecipient
  <2> HIDE DEF stop
  <2>2. stop \in Pending(b) /\ stop \in Recipients /\ stop[1] \in Groups /\ stop[2] \in WinningVotes
    BY <2>1 DEF Pending, Recipients
  <2> DEFINE F == 1 .. stop[1] - 1
             n == SumOf(On(Rest(b, V), F))
             rt == [r \in Routers |-> b.routes[r] + DueTo(b, V)[r]]
             br == [b.base_rewards EXCEPT ![Dao] = @ + n]
             save == SavePosition(b, stop)
  <2>3. F \in SUBSET Groups
    BY <2>2, RoutingAssumption DEF Groups
  <2>4. c \in BaseRecords
    BY RouteSliceSound DEF BaseSound
  <2>5. c = [Visit(b, V, F) EXCEPT !.last = save]
    BY <1>3 DEF RouteSlice, stop
  <2>6. Visit(b, V, F) = [total |-> b.total, pool |-> b.pool, processed |-> b.processed,
                          base_rewards |-> br, group_rewards |-> Unfinished(b, V, F),
                          routes |-> rt, last |-> b.last]
    <3> HIDE DEF V, F
    <3> QED  BY <1>1, <2>3, VisitIs
  <2>7. /\ c.total = b.total /\ c.pool = b.pool /\ c.processed = b.processed /\ c.base_rewards = br
        /\ c.group_rewards = Unfinished(b, V, F) /\ c.routes = rt /\ c.last = save
    <3> DEFINE u == Unfinished(b, V, F)
    <3> HIDE DEF V, F, br, rt, save, u
    <3>1. Visit(b, V, F) = [total |-> b.total, pool |-> b.pool, processed |-> b.processed,
                            base_rewards |-> br, group_rewards |-> u, routes |-> rt, last |-> b.last]
      BY <2>6 DEF u
    <3>2. /\ c.total = b.total /\ c.pool = b.pool /\ c.processed = b.processed /\ c.base_rewards = br
          /\ c.group_rewards = u /\ c.routes = rt /\ c.last = save
      BY <2>5, <3>1
    <3> QED  BY <3>2 DEF u
  <2>8. still_routing(c)
    BY <2>7 DEF still_routing, SavePosition, NoLast
  <2>9. /\ Pending(c) = Pending(b) \ V
        /\ \A p \in Pending(c) : Shares(c)[p] = Shares(b)[p]
        /\ \A p \in Pending(c) : p[1] \notin F
    <3>1. stop \in Pending(b) \ V /\ \A q \in Pending(b) \ V : stop = q \/ Before(stop, q)
      BY <2>1
    <3>2. /\ V = FirstOf(Pending(b), k) /\ c.last = SavePosition(b, stop)
          /\ c.group_rewards = Unfinished(b, V, 1 .. stop[1] - 1)
      BY <2>7
    <3> HIDE DEF V
    <3> QED  BY <2>4, <3>1, <3>2, SavedPass
  <2>10. /\ SumOf(Rest(b, Pending(b))) = n + SumOf(Rest(c, Pending(c)))
         /\ n \in Nat /\ SumOf(Rest(c, Pending(c))) \in Nat
         /\ \A r \in Routers : DueTo(b, Pending(b))[r] = DueTo(b, V)[r] + DueTo(c, Pending(c))[r]
         /\ \A r \in Routers : DueTo(b, V)[r] \in Nat /\ DueTo(c, Pending(c))[r] \in Nat
    <3>1. V \in SUBSET Pending(b)
      BY <1>1
    <3>2. Leaves(b, V, F, c)
      BY <2>7, <2>9 DEF Leaves
    <3> HIDE DEF V, F
    <3>3. Splits(b, V, F, c)
      BY <2>3, <2>4, <3>1, <3>2, RestSplits
    <3> QED  BY <3>3 DEF Splits
  <2> DEFINE m == SumOf(Rest(c, Pending(c)))
             a == SumOf(Rest(b, Pending(b)))
             brb == [b.base_rewards EXCEPT ![Dao] = @ + a]
             brc == [c.base_rewards EXCEPT ![Dao] = @ + m]
             rtb == [r \in Routers |-> b.routes[r] + DueTo(b, Pending(b))[r]]
             rtc == [r \in Routers |-> c.routes[r] + DueTo(c, Pending(c))[r]]
  <2>11. brb = brc
    <3>1. c.base_rewards = br /\ a = n + m /\ n \in Nat /\ m \in Nat
      BY <2>7, <2>10
    <3>2. b.base_rewards \in [BaseGroups -> Nat] /\ Dao \in BaseGroups
      BY RoutingAssumption DEF BaseRecords
    <3> HIDE DEF a, n, m
    <3> QED  BY <3>1, <3>2
  <2>12. rtb = rtc
    <3> SUFFICES ASSUME NEW r \in Routers
                 PROVE  b.routes[r] + DueTo(b, Pending(b))[r] = c.routes[r] + DueTo(c, Pending(c))[r]
      OBVIOUS
    <3> DEFINE x == DueTo(b, V)[r]
               y == DueTo(c, Pending(c))[r]
               z == DueTo(b, Pending(b))[r]
    <3>1. z = x + y /\ x \in Nat /\ y \in Nat
      BY <2>10
    <3>2. b.routes[r] \in Nat /\ c.routes[r] = b.routes[r] + x
      BY <2>7 DEF BaseRecords
    <3> HIDE DEF x, y, z
    <3>3. b.routes[r] + z = c.routes[r] + y
      BY <3>1, <3>2
    <3> QED  BY <3>3 DEF y, z
  <2>13. WholePass(b) = [total |-> b.total, pool |-> b.pool, processed |-> b.processed, base_rewards |-> brb,
                         group_rewards |-> [g \in Groups |-> 0], routes |-> rtb, last |-> NoLast]
    BY WholePassIs
  <2>14. WholePass(c) = [total |-> c.total, pool |-> c.pool, processed |-> c.processed, base_rewards |-> brc,
                         group_rewards |-> [g \in Groups |-> 0], routes |-> rtc, last |-> NoLast]
    BY <2>4, WholePassIs
  <2> HIDE DEF brb, brc, rtb, rtc
  <2> QED  BY <2>7, <2>8, <2>11, <2>12, <2>13, <2>14
<1> QED  BY <1>2, <1>3

-----------------------------------------------------------------------------
(* The whole pass of a router that is not routing is the plan              *)

\* The shares of group g, by vote.
ByVote(b, g) == [v \in WinningVotes |-> Shares(b)[<<g, v>>]]

LEMMA SharesByVote ==
    ASSUME VotesSound, NEW b \in BaseRecords, NEW g \in Groups, NEW W \in SUBSET WinningVotes
    PROVE  /\ SumOf(On(Shares(b), {p \in Recipients : p[1] = g /\ p[2] \in W})) = SumOf(On(ByVote(b, g), W))
           /\ ByVote(b, g) \in [WinningVotes -> Nat]
<1> DEFINE S == {p \in Recipients : p[1] = g /\ p[2] \in W}
           f == On(Shares(b), S)
           k == [p \in S |-> p[2]]
           q == [v \in W |-> SumOf(On(f, {p \in S : k[p] = v}))]
<1>1. IsFiniteSet(S) /\ IsFiniteSet(W)
  <2>1. S \in SUBSET Recipients
    OBVIOUS
  <2> QED  BY <2>1, SharesType, FS_Subset DEF VotesSound
<1>2. f \in [S -> Nat]
  BY SharesType DEF On
<1>3. k \in [S -> W]
  OBVIOUS
<1>4. ASSUME NEW v \in W
      PROVE  SumOf(On(f, {p \in S : k[p] = v})) = ByVote(b, g)[v]
  <2> DEFINE x == <<g, v>>
  <2>1. {p \in S : k[p] = v} = {x} /\ x \in S
    BY DEF Recipients
  <2>2. On(f, {x}) \in [{x} -> Nat] /\ On(f, {x})[x] = ByVote(b, g)[v]
    <3>1. f[x] = Shares(b)[x] /\ f[x] \in Nat
      BY <1>2, <2>1 DEF On
    <3> HIDE DEF f, S
    <3> QED  BY <3>1 DEF On, ByVote
  <2> HIDE DEF f, x
  <2>3. SumOf(On(f, {x})) = On(f, {x})[x]
    BY <2>2, SumSingle
  <2> QED  BY <2>1, <2>2, <2>3
<1>5. q = On(ByVote(b, g), W)
  BY <1>4 DEF On
<1>6. SumOf(q) = SumOf(f)
  <2> HIDE DEF f, S, k
  <2> QED  BY <1>1, <1>2, <1>3, SumByKind
<1>7. ByVote(b, g) \in [WinningVotes -> Nat]
  <2>1. \A v \in WinningVotes : <<g, v>> \in Recipients
    BY DEF Recipients
  <2> QED  BY <2>1, SharesType DEF ByVote
<1> QED  BY <1>5, <1>6, <1>7

\* A group without rewards has no pending recipients, and no shares.
LEMMA FreshPending ==
    ASSUME VotesSound, NEW b \in BaseRecords, b.last = NoLast, NEW g \in Groups, NEW W \in SUBSET WinningVotes
    PROVE  SumOf(On(Shares(b), {p \in Pending(b) : p[1] = g /\ p[2] \in W})) = SumOf(On(ByVote(b, g), W))
<1> DEFINE S == {p \in Recipients : p[1] = g /\ p[2] \in W}
           T == {p \in Pending(b) : p[1] = g /\ p[2] \in W}
<1>1. \A p \in Recipients : p \in Pending(b) <=> b.group_rewards[p[1]] > 0
  BY DEF Pending, Recipients, RewardsToProcess, still_routing
<1>2. Pending(b) \in SUBSET Recipients
  BY PendingType
<1>3. CASE b.group_rewards[g] > 0
  <2>1. T = S
    BY <1>1, <1>2, <1>3
  <2>2. SumOf(On(Shares(b), S)) = SumOf(On(ByVote(b, g), W))
    BY SharesByVote
  <2> HIDE DEF S, T
  <2>3. SumOf(On(Shares(b), T)) = SumOf(On(ByVote(b, g), W))
    BY <2>1, <2>2
  <2> QED  BY <2>3 DEF T
<1>4. CASE ~ (b.group_rewards[g] > 0)
  <2>1. T = {}
    BY <1>1, <1>2, <1>4
  <2>2. \A v \in WinningVotes : ByVote(b, g)[v] = 0
    <3> SUFFICES ASSUME NEW v \in WinningVotes  PROVE ByVote(b, g)[v] = 0
      OBVIOUS
    <3>1. RewardsToProcess(b, g) = 0
      <4>1. b.group_rewards[g] \in Nat
        BY DEF BaseRecords
      <4> QED  BY <1>4, <4>1 DEF RewardsToProcess, still_routing
    <3> DEFINE w == Votes[v].weight[g]
               t == WinningWeight(g)
    <3>2. w \in Nat /\ t \in Nat /\ w <= t
      BY WinningWeights
    <3> HIDE DEF w, t
    <3>3. Share(0, w, t) \in Nat /\ Share(0, w, t) <= 0
      BY <3>2, ShareType
    <3>4. ByVote(b, g)[v] = Share(0, w, t)
      BY <3>1 DEF ByVote, Shares, Recipients, RouteShare, w, t
    <3> QED  BY <3>3, <3>4
  <2> DEFINE e == On(Shares(b), {})
             f == On(ByVote(b, g), W)
  <2>3. e = [x \in {} |-> e[x]] /\ f = [x \in W |-> f[x]] /\ \A x \in W : f[x] = 0
    BY <2>2 DEF On
  <2> HIDE DEF e, f
  <2>4. SumOf(e) = 0 /\ SumOf(f) = 0
    BY <2>3, SumZero
  <2>5. On(Shares(b), T) = e
    BY <2>1 DEF e
  <2> HIDE DEF T
  <2>6. SumOf(On(Shares(b), T)) = SumOf(f)
    BY <2>4, <2>5
  <2> QED  BY <2>6 DEF T, f
<1> QED  BY <1>3, <1>4

LEMMA FreshPlan ==
    ASSUME VotesSound, NEW b \in BaseRecords, b.last = NoLast
    PROVE  BasePlan(b) = WholePass(b)
<1> DEFINE P == Pending(b)
           of(o) == {v \in WinningVotes : Votes[v].operator = o}
           due(o, g) == SumOver(LAMBDA v : Share(b.group_rewards[g], Votes[v].weight[g], WinningWeight(g)), of(o))
           routed(g) == SumOver(LAMBDA o : due(o, g), Operators)
<1>1. ASSUME NEW o \in Operators, NEW g \in Groups
      PROVE  due(o, g) = SumOf(On(ByVote(b, g), of(o)))
  <2>1. \A v \in of(o) : ByVote(b, g)[v] = Share(b.group_rewards[g], Votes[v].weight[g], WinningWeight(g))
    BY DEF ByVote, Shares, Recipients, RouteShare, RewardsToProcess, still_routing
  <2>2. On(ByVote(b, g), of(o))
          = [v \in of(o) |-> Share(b.group_rewards[g], Votes[v].weight[g], WinningWeight(g))]
    <3> HIDE DEF of
    <3> QED  BY <2>1 DEF On
  <2> QED  BY <2>2 DEF SumOver
<1>2. ASSUME NEW r \in Routers  PROVE due(r[1], r[2]) = DueTo(b, P)[r]
  <2>1. r[1] \in Operators /\ r[2] \in Groups /\ r = <<r[1], r[2]>>
    BY DEF Routers
  <2> DEFINE o == r[1]
             g == r[2]
             W == of(o)
  <2>2. P \in SUBSET Recipients
    BY PendingType
  <2>3. {p \in P : r = <<Votes[p[2]].operator, p[1]>>} = {p \in P : p[1] = g /\ p[2] \in W}
    BY <2>1, <2>2 DEF Recipients
  <2>4. W \in SUBSET WinningVotes
    OBVIOUS
  <2>5. SumOf(On(Shares(b), {p \in P : p[1] = g /\ p[2] \in W})) = SumOf(On(ByVote(b, g), W))
    <3> HIDE DEF W
    <3> QED  BY <2>1, <2>4, FreshPending
  <2>6. DueTo(b, P)[r] = SumOf(On(Shares(b), {p \in P : r = <<Votes[p[2]].operator, p[1]>>}))
    <3> HIDE DEF P
    <3> QED  BY DEF DueTo
  <2>7. due(o, g) = SumOf(On(ByVote(b, g), W))
    BY <1>1, <2>1
  <2> HIDE DEF due, W
  <2> QED  BY <2>3, <2>5, <2>6, <2>7
<1>3. ASSUME NEW g \in Groups  PROVE routed(g) = Routed(b, P, g)
  <2> DEFINE h == ByVote(b, g)
             k == [v \in WinningVotes |-> Votes[v].operator]
             q == [o \in Operators |-> SumOf(On(h, {v \in WinningVotes : k[v] = o}))]
             W == WinningVotes
  <2>1. W \in SUBSET WinningVotes
    OBVIOUS
  <2>2. h \in [WinningVotes -> Nat]
    BY <2>1, SharesByVote
  <2>3. k \in [WinningVotes -> Operators] /\ IsFiniteSet(WinningVotes) /\ IsFiniteSet(Operators)
    BY FiniteSets DEF VotesSound
  <2>4. SumOf(q) = SumOf(h)
    <3> HIDE DEF h, k
    <3> QED  BY <2>2, <2>3, SumByKind
  <2>5. q = [o \in Operators |-> due(o, g)]
    <3>1. ASSUME NEW o \in Operators  PROVE {v \in WinningVotes : k[v] = o} = of(o)
      OBVIOUS
    <3> HIDE DEF due, of, k
    <3> QED  BY <1>1, <3>1
  <2>6. routed(g) = SumOf(q)
    <3> HIDE DEF due
    <3> QED  BY <2>5 DEF SumOver
  <2>7. h = On(h, W)
    <3> HIDE DEF h
    <3> QED  BY <2>2 DEF On
  <2>8. SumOf(On(Shares(b), {p \in P : p[1] = g /\ p[2] \in W})) = SumOf(On(h, W))
    <3> HIDE DEF W
    <3> QED  BY <2>1, FreshPending
  <2>9. P \in SUBSET Recipients
    BY PendingType
  <2>10. {p \in P : p[1] = g /\ p[2] \in W} = {p \in P : p[1] = g}
    BY <2>9 DEF Recipients
  <2>11. Routed(b, P, g) = SumOf(On(Shares(b), {p \in P : p[1] = g}))
    <3> HIDE DEF P
    <3> QED  BY <2>9, RoutedIsSum
  <2> HIDE DEF routed, h, q, W, P
  <2> QED  BY <2>4, <2>6, <2>7, <2>8, <2>10, <2>11
<1>4. SumOver(LAMBDA g : b.group_rewards[g] - routed(g), Groups) = SumOf(Rest(b, P))
  <2>1. Rest(b, P) = [g \in Groups |-> b.group_rewards[g] - routed(g)]
    <3> HIDE DEF routed, P
    <3> QED  BY <1>3 DEF Rest
  <2> HIDE DEF routed, P
  <2> QED  BY <2>1 DEF SumOver
<1>5. [r \in Routers |-> b.routes[r] + due(r[1], r[2])] = [r \in Routers |-> b.routes[r] + DueTo(b, P)[r]]
  <2> HIDE DEF due, P
  <2> QED  BY <1>2
<1> DEFINE br == [b.base_rewards EXCEPT ![Dao] = @ + SumOf(Rest(b, P))]
           gr == [g \in Groups |-> 0]
           rt == [r \in Routers |-> b.routes[r] + DueTo(b, P)[r]]
<1>6. BasePlan(b) = [b EXCEPT !.routes = rt, !.group_rewards = gr, !.base_rewards = br]
  <2>1. BasePlan(b) = [b EXCEPT !.routes = [r \in Routers |-> b.routes[r] + due(r[1], r[2])],
                                !.group_rewards = gr,
                                !.base_rewards[Dao] = @ + SumOver(LAMBDA g : b.group_rewards[g] - routed(g), Groups)]
    BY DEF BasePlan
  <2>2. BasePlan(b) = [b EXCEPT !.routes = rt, !.group_rewards = gr,
                                !.base_rewards[Dao] = @ + SumOf(Rest(b, P))]
    <3> HIDE DEF P
    <3> QED  BY <1>4, <1>5, <2>1
  <2> QED  BY <2>2
<1>7. b = [total |-> b.total, pool |-> b.pool, processed |-> b.processed,
           base_rewards |-> b.base_rewards, group_rewards |-> b.group_rewards,
           routes |-> b.routes, last |-> b.last]
  BY BaseIsRecord
<1>8. WholePass(b) = [total |-> b.total, pool |-> b.pool, processed |-> b.processed, base_rewards |-> br,
                      group_rewards |-> gr, routes |-> rt, last |-> NoLast]
  BY WholePassIs
<1> HIDE DEF br, gr, rt
<1>9. BasePlan(b) = [total |-> b.total, pool |-> b.pool, processed |-> b.processed, base_rewards |-> br,
                     group_rewards |-> gr, routes |-> rt, last |-> NoLast]
  BY <1>6, <1>7
<1> QED  BY <1>8, <1>9

-----------------------------------------------------------------------------
(* The same for the router of an operator and group                        *)

LEMMA WholeNcnPassIs ==
    ASSUME NEW r \in Routers, NEW n \in NcnRecords, NEW a, a = NcnRewardsToProcess(n),
           NEW T, T = Todo(n, r), NEW s, s = SumOf(On(VaultShares(r, a), T)), s <= n.pool
    PROVE  /\ WholeNcnPass(n, r) =
                [total |-> n.total, pool |-> 0, processed |-> n.processed + n.pool,
                 operator_rewards |-> n.operator_rewards + (n.pool - s),
                 vault_routes |-> [v \in Vaults |-> n.vault_routes[v] + DueToVaults(r, a, T)[v]],
                 last |-> NoLast]
           /\ s \in Nat
<1>1. a \in Nat /\ T \in SUBSET Entries(r)
  BY NcnRewardsType DEF Todo, Entries
<1> DEFINE d == VisitVaults(n, r, a, T)
           vr == [v \in Vaults |-> n.vault_routes[v] + DueToVaults(r, a, T)[v]]
<1>2. /\ d = [total |-> n.total, pool |-> n.pool - s, processed |-> n.processed + s,
              operator_rewards |-> n.operator_rewards, vault_routes |-> vr, last |-> n.last]
      /\ s \in Nat
  BY <1>1, VisitVaultsIs
<1>3. WholeNcnPass(n, r) = [d EXCEPT !.operator_rewards = @ + d.pool, !.processed = @ + d.pool,
                                     !.pool = 0, !.last = NoLast]
  BY DEF WholeNcnPass, OperatorRemainder
<1> HIDE DEF d, vr
<1>4. WholeNcnPass(n, r) = [total |-> n.total, pool |-> 0, processed |-> (n.processed + s) + (n.pool - s),
                            operator_rewards |-> n.operator_rewards + (n.pool - s), vault_routes |-> vr,
                            last |-> NoLast]
  BY <1>2, <1>3
<1>5. (n.processed + s) + (n.pool - s) = n.processed + n.pool
  <2>1. n.processed \in Nat /\ n.pool \in Nat
    BY DEF NcnRecords
  <2> QED  BY <1>2, <2>1
<1> QED  BY <1>2, <1>4, <1>5 DEF vr

LEMMA FreshNcnPlan ==
    ASSUME NEW r \in Routers, NEW n \in NcnRecords, n.last = NoLast,
           VaultsDue(n, r, Todo(n, r)) <= n.pool
    PROVE  NcnPlan(n, r) = WholeNcnPass(n, r)
<1> DEFINE T == Todo(n, r)
           a == NcnRewardsToProcess(n)
           s == SumOf(On(VaultShares(r, a), T))
           vr == [v \in Vaults |-> n.vault_routes[v] + DueToVaults(r, a, T)[v]]
           due == SumOver(LAMBDA i : VaultShare(r, n.pool, i), Entries(r))
           to(v) == SumOver(LAMBDA i : VaultShare(r, n.pool, i), {i \in Entries(r) : Delegations[r[1]][i].vault = v})
<1>1. a = n.pool /\ T = Entries(r) /\ a \in Nat /\ T \in SUBSET Entries(r)
  <2>1. a = n.pool /\ StartIndex(n) = 1 /\ n.pool \in Nat
    BY DEF NcnRewardsToProcess, StartIndex, still_routing, NcnRecords
  <2>2. \A i \in Entries(r) : i \in Nat /\ i >= 1
    <3>1. r[1] \in Operators
      BY DEF Routers
    <3>2. PICK m \in Nat : DOMAIN Delegations[r[1]] = 1 .. m
      BY <3>1, RoutingAssumption
    <3> QED  BY <3>2 DEF Entries
  <2> QED  BY <2>1, <2>2 DEF Todo, Entries
<1>2. s <= n.pool
  <2>1. VaultsDue(n, r, T) = s
    <3> HIDE DEF T, a
    <3> QED  BY <1>1, VaultsDueIs DEF a
  <2> QED  BY <2>1
<1>3. ASSUME NEW S \in SUBSET Entries(r)
      PROVE  SumOver(LAMBDA i : VaultShare(r, n.pool, i), S) = SumOf(On(VaultShares(r, a), S))
  <2>1. On(VaultShares(r, a), S) = [i \in S |-> VaultShare(r, n.pool, i)]
    BY <1>1 DEF On, VaultShares
  <2> QED  BY <2>1 DEF SumOver
<1>4. due = s
  <2> HIDE DEF T, a
  <2> QED  BY <1>1, <1>3
<1>5. ASSUME NEW v \in Vaults  PROVE to(v) = DueToVaults(r, a, T)[v]
  <2> DEFINE S == {i \in T : Delegations[r[1]][i].vault = v}
  <2>1. S \in SUBSET Entries(r) /\ S = {i \in Entries(r) : Delegations[r[1]][i].vault = v}
    <3> HIDE DEF T
    <3> QED  BY <1>1
  <2>2. DueToVaults(r, a, T)[v] = SumOf(On(VaultShares(r, a), S))
    <3> HIDE DEF T, a
    <3> QED  BY DEF DueToVaults
  <2>3. SumOver(LAMBDA i : VaultShare(r, n.pool, i), S) = SumOf(On(VaultShares(r, a), S))
    <3> HIDE DEF S, a
    <3> QED  BY <1>3, <2>1
  <2> HIDE DEF S, a, T
  <2> QED  BY <2>1, <2>2, <2>3
<1>6. NcnPlan(n, r) = [n EXCEPT !.pool = 0, !.processed = @ + n.pool, !.operator_rewards = @ + n.pool - due,
                                !.vault_routes = [v \in Vaults |-> n.vault_routes[v] + to(v)]]
  BY DEF NcnPlan, Entries
<1>7. [v \in Vaults |-> n.vault_routes[v] + to(v)] = vr
  <2> HIDE DEF to, a, T
  <2> QED  BY <1>5
<1>8. WholeNcnPass(n, r) = [total |-> n.total, pool |-> 0, processed |-> n.processed + n.pool,
                            operator_rewards |-> n.operator_rewards + (n.pool - s),
                            vault_routes |-> vr, last |-> NoLast] /\ s \in Nat
  <2> HIDE DEF T, a, s
  <2> QED  BY <1>2, WholeNcnPassIs DEF T, a, s
<1> HIDE DEF due, to, vr, s
<1>9. NcnPlan(n, r) = [n EXCEPT !.pool = 0, !.processed = @ + n.pool, !.operator_rewards = @ + n.pool - s,
                                !.vault_routes = vr]
  BY <1>4, <1>6, <1>7
<1>10. n = [total |-> n.total, pool |-> n.pool, processed |-> n.processed,
            operator_rewards |-> n.operator_rewards, vault_routes |-> n.vault_routes, last |-> n.last]
  BY NcnIsRecord
<1>11. NcnPlan(n, r) = [total |-> n.total, pool |-> 0, processed |-> n.processed + n.pool,
                        operator_rewards |-> n.operator_rewards + n.pool - s, vault_routes |-> vr, last |-> NoLast]
  BY <1>9, <1>10
<1>12. n.operator_rewards + n.pool - s = n.operator_rewards + (n.pool - s)
  <2>1. n.operator_rewards \in Nat /\ n.pool \in Nat
    BY DEF NcnRecords
  <2> QED  BY <1>8, <2>1
<1> QED  BY <1>8, <1>11, <1>12

LEMMA VaultSliceKeepsWhole ==
    ASSUME NEW r \in Routers, NEW m \in NcnRecords, NEW k \in Nat,
           VaultsDue(m, r, Todo(m, r)) <= m.pool,
           NEW c, c = RouteVaultSlice(m, r, k)
    PROVE  /\ still_routing(c) => WholeNcnPass(c, r) = WholeNcnPass(m, r)
           /\ still_routing(m) /\ ~ still_routing(c) => c = WholeNcnPass(m, r)
<1> DEFINE a == NcnRewardsToProcess(m)
           V == VaultSlice(m, r, k)
           T == Todo(m, r)
           f == VaultShares(r, a)
           s == SumOf(On(f, V))
           t == SumOf(On(f, T))
           u == SumOf(On(f, T \ V))
           d == VisitVaults(m, r, a, V)
<1>1. a \in Nat /\ StartIndex(m) \in Nat
  BY NcnRewardsType
<1>2. T \in SUBSET Entries(r) /\ V \in SUBSET T
  BY DEF Todo, VaultSlice, Entries
<1>3. f \in [Entries(r) -> Nat] /\ IsFiniteSet(Entries(r)) /\ Entries(r) \subseteq Nat
  BY <1>1, VaultSharesFit
<1>4. t = s + u /\ s \in Nat /\ u \in Nat
  <2> HIDE DEF f, T, V
  <2>1. /\ SumOf(On(f, T)) = SumOf(On(f, V)) + SumOf(On(f, T \ V))
        /\ SumOf(On(f, V)) \in Nat /\ SumOf(On(f, T \ V)) \in Nat
    BY <1>2, <1>3, SumPartsAll, Zenon
  <2> QED  BY <2>1
<1>5. t <= m.pool /\ m.pool \in Nat /\ m.processed \in Nat /\ m.operator_rewards \in Nat /\ m.total \in Nat
      /\ m.vault_routes \in [Vaults -> Nat]
  <2>1. VaultsDue(m, r, T) = t
    <3> HIDE DEF T
    <3> QED  BY <1>1, <1>2, VaultsDueIs
  <2> QED  BY <2>1 DEF NcnRecords
<1>6. CASE a = 0
  <2>1. c = m
    BY <1>6 DEF RouteVaultSlice
  <2> QED  BY <2>1
<1>7. CASE a # 0 /\ V = T
  <2>1. c = OperatorRemainder(VisitVaults(m, r, a, V))
    BY <1>7 DEF RouteVaultSlice
  <2>2. c = WholeNcnPass(m, r)
    <3> HIDE DEF V, a
    <3> QED  BY <1>7, <2>1 DEF WholeNcnPass, a
  <2>3. WholeNcnPass(m, r).last = NoLast
    <3> HIDE DEF T, a, t
    <3> QED  BY <1>5, WholeNcnPassIs DEF T, a, t
  <2> QED  BY <2>2, <2>3 DEF still_routing
<1>8. CASE a # 0 /\ V # T
  <2> DEFINE pos == [rewards |-> a, index |-> StartIndex(m) + k]
             vr == [v \in Vaults |-> m.vault_routes[v] + DueToVaults(r, a, V)[v]]
             L == T \ V
  <2>1. c = [d EXCEPT !.last = pos]
    BY <1>8 DEF RouteVaultSlice
  <2>2. pos \in [rewards : Nat, index : Nat] /\ pos # NoLast /\ pos.rewards = a /\ pos.index = StartIndex(m) + k
    BY <1>1 DEF NoLast
  <2>3. V \in SUBSET Entries(r) /\ s <= m.pool /\ L \in SUBSET Entries(r)
    <3>1. s <= m.pool
      <4> HIDE DEF s, t, u
      <4> QED  BY <1>4, <1>5
    <3> QED  BY <1>2, <3>1
  <2>4. /\ d \in NcnRecords
        /\ d = [total |-> m.total, pool |-> m.pool - s, processed |-> m.processed + s,
                operator_rewards |-> m.operator_rewards, vault_routes |-> vr, last |-> m.last]
    <3> HIDE DEF V, a, d, s
    <3> QED  BY <1>1, <2>3, VisitVaultsIs DEF d, s
  <2> HIDE DEF pos, d, vr, s
  <2>5. /\ c \in NcnRecords /\ c.total = m.total /\ c.pool = m.pool - s /\ c.processed = m.processed + s
        /\ c.operator_rewards = m.operator_rewards /\ c.vault_routes = vr /\ c.last = pos
    <3>1. /\ c \in NcnRecords /\ c.total = d.total /\ c.pool = d.pool /\ c.processed = d.processed
          /\ c.operator_rewards = d.operator_rewards /\ c.vault_routes = d.vault_routes /\ c.last = pos
      BY <2>1, <2>2, <2>4 DEF NcnRecords
    <3> QED  BY <2>4, <3>1
  <2>6. still_routing(c) /\ StartIndex(c) = StartIndex(m) + k /\ NcnRewardsToProcess(c) = a
    BY <2>2, <2>5 DEF still_routing, StartIndex, NcnRewardsToProcess
  <2>7. Todo(c, r) = L
    BY <1>1, <1>3, <2>6 DEF Todo, VaultSlice, Entries
  <2>8. u <= c.pool
    <3> HIDE DEF t, u
    <3> QED  BY <1>4, <1>5, <2>5
  <2> DEFINE vb == [v \in Vaults |-> m.vault_routes[v] + DueToVaults(r, a, T)[v]]
             vc == [v \in Vaults |-> c.vault_routes[v] + DueToVaults(r, a, L)[v]]
  <2>9. vb = vc
    <3> SUFFICES ASSUME NEW v \in Vaults
                 PROVE  m.vault_routes[v] + DueToVaults(r, a, T)[v] = c.vault_routes[v] + DueToVaults(r, a, L)[v]
      OBVIOUS
    <3> DEFINE Of(X) == {i \in X : Delegations[r[1]][i].vault = v}
               A == Of(V)
               B == Of(T)
               x == SumOf(On(f, A))
               y == SumOf(On(f, B \ A))
               z == SumOf(On(f, B))
    <3>1. B \in SUBSET Entries(r) /\ A \in SUBSET B /\ Of(L) = B \ A
      <4> HIDE DEF V, T
      <4> QED  BY <1>2
    <3>2. /\ DueToVaults(r, a, T)[v] = z /\ DueToVaults(r, a, V)[v] = x /\ DueToVaults(r, a, L)[v] = SumOf(On(f, Of(L)))
      <4> HIDE DEF V, T, L, a
      <4> QED  BY DEF DueToVaults
    <3>3. DueToVaults(r, a, L)[v] = y
      <4> HIDE DEF A, B, f, Of, L, a
      <4> QED  BY <3>1, <3>2
    <3>4. z = x + y /\ x \in Nat /\ y \in Nat
      <4> HIDE DEF A, B, f
      <4>1. /\ SumOf(On(f, B)) = SumOf(On(f, A)) + SumOf(On(f, B \ A))
            /\ SumOf(On(f, A)) \in Nat /\ SumOf(On(f, B \ A)) \in Nat
        BY <1>3, <3>1, SumPartsAll, Zenon
      <4> QED  BY <4>1
    <3>5. c.vault_routes[v] = m.vault_routes[v] + x /\ m.vault_routes[v] \in Nat
      <4>1. c.vault_routes[v] = m.vault_routes[v] + DueToVaults(r, a, V)[v]
        BY <2>5 DEF vr
      <4> QED  BY <1>5, <3>2, <4>1
    <3> DEFINE p == DueToVaults(r, a, T)[v]
               q == DueToVaults(r, a, L)[v]
    <3>6. p = x + y /\ q = y
      BY <3>2, <3>3, <3>4
    <3> HIDE DEF x, y, z, p, q
    <3>7. m.vault_routes[v] + p = c.vault_routes[v] + q
      BY <3>4, <3>5, <3>6
    <3> QED  BY <3>7 DEF p, q
  <2>10. WholeNcnPass(m, r) = [total |-> m.total, pool |-> 0, processed |-> m.processed + m.pool,
                               operator_rewards |-> m.operator_rewards + (m.pool - t), vault_routes |-> vb,
                               last |-> NoLast]
    <3> HIDE DEF T, a, t
    <3> QED  BY <1>5, WholeNcnPassIs DEF T, a, t
  <2>11. WholeNcnPass(c, r) = [total |-> c.total, pool |-> 0, processed |-> c.processed + c.pool,
                               operator_rewards |-> c.operator_rewards + (c.pool - u), vault_routes |-> vc,
                               last |-> NoLast]
    <3>1. u = SumOf(On(VaultShares(r, a), L))
      OBVIOUS
    <3> HIDE DEF L, a, u
    <3> QED  BY <2>5, <2>6, <2>7, <2>8, <3>1, WholeNcnPassIs
  <2>12. /\ c.processed + c.pool = m.processed + m.pool
         /\ c.operator_rewards + (c.pool - u) = m.operator_rewards + (m.pool - t)
    <3> HIDE DEF t, u
    <3> QED  BY <1>4, <1>5, <2>5
  <2> HIDE DEF vb, vc, t, u
  <2> QED  BY <2>5, <2>6, <2>9, <2>10, <2>11, <2>12
<1> QED  BY <1>6, <1>7, <1>8

-----------------------------------------------------------------------------
(* Slices agree with the plan                                              *)

\* The plan of a pass in progress is what the rest of the pass would do at once.
PlanOf(p) == p = [base |-> p.base, ncn |-> p.ncn] /\ p.ncn = [r \in Routers |-> p.ncn[r]]
BasePlanInv == still_routing(base) => plan.base = WholePass(base)
NcnPlanInv == \A r \in Routers : still_routing(ncn[r]) => plan.ncn[r] = WholeNcnPass(ncn[r], r)
PlanInv == PlanOf(plan) /\ BasePlanInv /\ NcnPlanInv

\* The last slice of a pass ends as planned.
BaseEndsAsPlanned == still_routing(base) /\ ~ still_routing(base') => base' = plan.base
NcnEndsAsPlanned ==
    \A r \in Routers : still_routing(ncn[r]) /\ ~ still_routing(ncn'[r]) => ncn'[r] = plan.ncn[r]

LEMMA StartsFresh ==
    ASSUME NEW b \in BaseRecords, ~ still_routing(b)
    PROVE  StartBasePass(b).last = NoLast
<1> DEFINE n == receiver - (b.pool + b.processed)
           total == b.total + n
           pool == b.pool + n
           d == [total |-> total, pool |-> pool, processed |-> b.processed,
                 base_rewards |-> b.base_rewards, group_rewards |-> b.group_rewards,
                 routes |-> b.routes, last |-> b.last]
           br == Plus([d.base_rewards EXCEPT
                         ![Dao] = @ + (pool - (SumOf(Parts(BaseFee, pool)) + SumOf(Parts(NcnFee, pool))))],
                      Parts(BaseFee, pool))
           gr == Plus(d.group_rewards, Parts(NcnFee, pool))
           processed == b.processed + pool
<1>1. b = [total |-> b.total, pool |-> b.pool, processed |-> b.processed,
           base_rewards |-> b.base_rewards, group_rewards |-> b.group_rewards,
           routes |-> b.routes, last |-> b.last]
  BY BaseIsRecord
<1>2. BaseIncoming(b) = [b EXCEPT !.total = total, !.pool = pool]
  BY DEF BaseIncoming
<1>3. BaseIncoming(b) = d
  <2> HIDE DEF total, pool
  <2> QED  BY <1>1, <1>2
<1>4. StartBasePass(b) = SplitPool(d)
  <2> HIDE DEF d
  <2> QED  BY <1>3 DEF StartBasePass
<1>5. SplitPool(d) = [d EXCEPT !.pool = 0, !.processed = processed, !.base_rewards = br, !.group_rewards = gr]
  <2> HIDE DEF pool, total
  <2> QED  BY DEF SplitPool
<1> HIDE DEF pool, total, processed, br, gr
<1>6. SplitPool(d).last = b.last
  BY <1>5
<1> QED  BY <1>4, <1>6 DEF still_routing

\* A pass stops half way only when there were rewards to route.
LEMMA RoutingHasTotal ==
    ASSUME LedgersInv, VotesSound, NEW k \in Nat, RouteBaseRewards(k), BaseRouter \notin closed,
           still_routing(base) => base.total > 0
    PROVE  still_routing(base') => base'.total > 0
<1> DEFINE d == StartBasePass(base)
           j == AtLeastOne(k)
<1>1. base' = RouteSlice(d, j) /\ (still_routing(base) \/ PoolFits(BaseIncoming(base))) /\ j \in Nat
  BY DEF RouteBaseRewards, AtLeastOne
<1>2. receiver \in Nat /\ receiver >= base.processed /\ BaseSound(base) /\ base.pool = 0 /\ base \in BaseRecords
  BY DEF LedgersInv, FundsInv, BaseInv, BaseSound
<1>3. /\ d \in BaseRecords /\ d.processed = Assigned(d) /\ PassFits(d)
      /\ d.total = base.total + (d.processed - base.processed)
  BY <1>1, <1>2, StartBasePassSound
<1>4. still_routing(base) => d = base
  BY DEF StartBasePass
<1>5. ~ still_routing(base) => d.last = NoLast
  BY <1>2, StartsFresh
<1> HIDE DEF d, j
<1>6. base'.total = d.total /\ (still_routing(base') => Pending(d) # {})
  BY <1>1, <1>3, RouteSliceSound
<1>7. CASE still_routing(base)
  BY <1>4, <1>6, <1>7
<1>8. CASE ~ still_routing(base) /\ still_routing(base')
  <2>1. PICK p \in Groups \X WinningVotes : RewardsToProcess(d, p[1]) > 0
    BY <1>6, <1>8 DEF Pending
  <2> DEFINE g == p[1]
  <2>2. g \in Groups /\ d.group_rewards[g] > 0
    BY <1>5, <1>8, <2>1 DEF RewardsToProcess, still_routing
  <2> HIDE DEF g
  <2>3. /\ d.base_rewards \in [BaseGroups -> Nat] /\ d.group_rewards \in [Groups -> Nat]
        /\ d.routes \in [Routers -> Nat] /\ d.processed \in Nat
    BY <1>3 DEF BaseRecords
  <2>4. SumOf(d.base_rewards) \in Nat /\ SumOf(d.group_rewards) \in Nat /\ SumOf(d.routes) \in Nat
    BY <2>3, FiniteSets, SumType
  <2>5. SumOf(d.group_rewards) >= d.group_rewards[g]
    BY <2>2, <2>3, FiniteSets, SumTake
  <2>6. d.processed > 0
    BY <1>3, <2>2, <2>3, <2>4, <2>5 DEF Assigned
  <2>7. base.total >= base.processed /\ base.total \in Nat /\ base.processed \in Nat
    BY LedgerTypes DEF LedgersInv, ProgressInv
  <2> QED  BY <1>3, <1>6, <2>3, <2>6, <2>7
<1> QED  BY <1>7, <1>8

LEMMA SameWhole ==
    ASSUME Votes' = Votes, NEW c, base' = c
    PROVE  WholePass(base)' = WholePass(c) /\ still_routing(base)' = still_routing(c)
BY DEF WholePass, Visit, Pending, Routed, RouteShare, RewardsToProcess, WinningVotes, WinningWeight,
       still_routing, SumOver

\* route_base_rewards
LEMMA RouteBaseAgrees ==
    ASSUME VotesSound, BaseInv, receiver \in Nat, PlanInv, NEW k \in Nat, RouteBaseRewards(k)
    PROVE  /\ PlanOf(plan)' /\ plan'.ncn = plan.ncn /\ BasePlanInv'
           /\ BaseEndsAsPlanned
<1> DEFINE d == StartBasePass(base)
           j == AtLeastOne(k)
           c == RouteSlice(d, j)
<1>1. /\ Votes' = Votes /\ base' = c /\ receiver >= base.pool + base.processed
      /\ still_routing(base) \/ PoolFits(BaseIncoming(base))
      /\ plan' = IF still_routing(base) THEN plan ELSE [plan EXCEPT !.base = BasePlan(d)]
  BY DEF RouteBaseRewards
<1>2. BaseSound(base) /\ base.pool = 0 /\ base \in BaseRecords /\ base.processed \in Nat /\ j \in Nat
  BY DEF BaseInv, BaseSound, BaseRecords, AtLeastOne
<1>3. d \in BaseRecords /\ d.processed = Assigned(d) /\ PassFits(d)
  <2>1. receiver >= base.processed
    BY <1>1, <1>2
  <2> QED  BY <1>1, <1>2, <2>1, StartBasePassSound
<1>4. IF still_routing(c) THEN WholePass(c) = WholePass(d) ELSE c = WholePass(d)
  <2> HIDE DEF d, j
  <2> QED  BY <1>2, <1>3, SliceKeepsWhole
<1>5. plan = [base |-> plan.base, ncn |-> plan.ncn] /\ plan.ncn = [r \in Routers |-> plan.ncn[r]]
  BY DEF PlanInv, PlanOf
<1>6. plan'.base = WholePass(d) /\ plan'.ncn = plan.ncn /\ plan' = [base |-> plan'.base, ncn |-> plan'.ncn]
  <2>1. CASE still_routing(base)
    <3>1. d = base /\ plan' = plan
      BY <1>1, <2>1 DEF StartBasePass
    <3> QED  BY <1>5, <2>1, <3>1 DEF PlanInv, BasePlanInv
  <2>2. CASE ~ still_routing(base)
    <3>1. d.last = NoLast
      BY <1>2, <2>2, StartsFresh
    <3>2. BasePlan(d) = WholePass(d)
      <4> HIDE DEF d
      <4> QED  BY <1>3, <3>1, FreshPlan
    <3> DEFINE w == BasePlan(d)
    <3>3. plan' = [plan EXCEPT !.base = w]
      BY <1>1, <2>2
    <3> HIDE DEF w
    <3>4. plan' = [base |-> w, ncn |-> plan.ncn]
      BY <1>5, <3>3
    <3> QED  BY <3>2, <3>4 DEF w
  <2> QED  BY <2>1, <2>2
<1>7. BaseEndsAsPlanned
  <2> SUFFICES ASSUME still_routing(base), ~ still_routing(base')  PROVE base' = plan.base
    BY DEF BaseEndsAsPlanned
  <2>1. d = base /\ plan.base = WholePass(base)
    BY DEF StartBasePass, PlanInv, BasePlanInv
  <2>2. ~ still_routing(c)
    BY <1>1
  <2> QED  BY <1>1, <1>4, <2>1, <2>2
<1> HIDE DEF c, d
<1>8. BasePlanInv'
  <2>1. WholePass(base)' = WholePass(c) /\ still_routing(base)' = still_routing(c)
    BY <1>1, SameWhole
  <2> QED  BY <1>4, <1>6, <2>1 DEF BasePlanInv
<1>9. PlanOf(plan)'
  BY <1>5, <1>6 DEF PlanOf
<1> QED  BY <1>6, <1>7, <1>8, <1>9

\* route_ncn_rewards
LEMMA RouteNcnAgrees ==
    ASSUME NcnInv, ncn_receiver \in [Routers -> Nat], PlanInv, NEW r \in Routers, NEW k \in Nat, RouteNcnRewards(r, k)
    PROVE  /\ PlanOf(plan)' /\ plan'.base = plan.base /\ NcnPlanInv'
           /\ NcnEndsAsPlanned
<1> DEFINE m == StartNcnPass(ncn[r], r)
           j == AtLeastOne(k)
           c == RouteVaultSlice(m, r, j)
<1>1. /\ ncn' = [ncn EXCEPT ![r] = c] /\ ncn_receiver[r] >= ncn[r].pool + ncn[r].processed
      /\ plan' = IF still_routing(ncn[r]) THEN plan ELSE [plan EXCEPT !.ncn[r] = NcnPlan(m, r)]
  BY DEF RouteNcnRewards
<1>2. /\ NcnSound(ncn[r], r) /\ ncn \in [Routers -> NcnRecords] /\ ncn[r] \in NcnRecords
      /\ ncn_receiver[r] \in Nat /\ j \in Nat
  BY DEF NcnInv, AtLeastOne
<1>3. m \in NcnRecords /\ VaultsDue(m, r, Todo(m, r)) <= m.pool
  BY <1>1, <1>2, StartNcnPassSound
<1>4. /\ still_routing(c) => WholeNcnPass(c, r) = WholeNcnPass(m, r)
      /\ still_routing(m) /\ ~ still_routing(c) => c = WholeNcnPass(m, r)
  <2> HIDE DEF m, j
  <2> QED  BY <1>2, <1>3, VaultSliceKeepsWhole
<1>5. plan = [base |-> plan.base, ncn |-> plan.ncn] /\ plan.ncn = [s \in Routers |-> plan.ncn[s]]
  BY DEF PlanInv, PlanOf
<1>6. /\ plan' = [base |-> plan.base, ncn |-> plan'.ncn] /\ plan'.ncn = [s \in Routers |-> plan'.ncn[s]]
      /\ plan'.ncn[r] = WholeNcnPass(m, r) /\ \A s \in Routers : s # r => plan'.ncn[s] = plan.ncn[s]
  <2>1. CASE still_routing(ncn[r])
    <3>1. m = ncn[r] /\ plan' = plan
      BY <1>1, <2>1 DEF StartNcnPass
    <3> QED  BY <1>5, <2>1, <3>1 DEF PlanInv, NcnPlanInv
  <2>2. CASE ~ still_routing(ncn[r])
    <3>1. m.last = NoLast
      <4> DEFINE n == ncn[r]
                 inc == ncn_receiver[r] - (n.pool + n.processed)
                 fee == Share(n.pool + inc, OperatorFee[r[1]], MaxBps)
                 x1 == n.total + inc
                 x2 == n.pool + inc - fee
                 x3 == n.processed + fee
                 x4 == n.operator_rewards + fee
      <4>1. m = [n EXCEPT !.total = x1, !.pool = x2, !.processed = x3, !.operator_rewards = x4]
        BY <2>2 DEF StartNcnPass
      <4>2. n \in NcnRecords /\ n.last = NoLast
        BY <1>2, <2>2 DEF still_routing
      <4>3. n = [total |-> n.total, pool |-> n.pool, processed |-> n.processed,
                 operator_rewards |-> n.operator_rewards, vault_routes |-> n.vault_routes, last |-> n.last]
        <5> HIDE DEF n
        <5> QED  BY <4>2, NcnIsRecord
      <4> HIDE DEF n, x1, x2, x3, x4, m
      <4> QED  BY <4>1, <4>2, <4>3
    <3>2. NcnPlan(m, r) = WholeNcnPass(m, r)
      <4> HIDE DEF m
      <4> QED  BY <1>3, <3>1, FreshNcnPlan
    <3> DEFINE w == NcnPlan(m, r)
    <3>3. plan' = [plan EXCEPT !.ncn[r] = w]
      BY <1>1, <2>2
    <3> HIDE DEF w
    <3>4. plan' = [base |-> plan.base, ncn |-> [plan.ncn EXCEPT ![r] = w]]
      BY <1>5, <3>3
    <3>5. /\ plan'.ncn = [s \in Routers |-> plan'.ncn[s]] /\ plan'.ncn[r] = w
          /\ \A s \in Routers : s # r => plan'.ncn[s] = plan.ncn[s]
      BY <1>5, <3>4
    <3> QED  BY <3>2, <3>4, <3>5 DEF w
  <2> QED  BY <2>1, <2>2
<1>7. ncn'[r] = c /\ \A s \in Routers : s # r => ncn'[s] = ncn[s]
  BY <1>1, <1>2
<1>8. NcnEndsAsPlanned
  <2> SUFFICES ASSUME NEW s \in Routers, still_routing(ncn[s]), ~ still_routing(ncn'[s])
               PROVE  ncn'[s] = plan.ncn[s]
    BY DEF NcnEndsAsPlanned
  <2>1. s = r
    BY <1>7
  <2>2. m = ncn[r] /\ plan.ncn[r] = WholeNcnPass(ncn[r], r)
    BY <2>1 DEF StartNcnPass, PlanInv, NcnPlanInv
  <2> HIDE DEF c
  <2>3. ~ still_routing(c)
    BY <1>7, <2>1
  <2> QED  BY <1>4, <1>7, <2>1, <2>2, <2>3
<1> HIDE DEF c, m
<1>9. NcnPlanInv'
  <2> SUFFICES ASSUME NEW s \in Routers, still_routing(ncn'[s])  PROVE plan'.ncn[s] = WholeNcnPass(ncn'[s], s)
    BY DEF NcnPlanInv
  <2> QED  BY <1>4, <1>6, <1>7 DEF PlanInv, NcnPlanInv
<1>10. PlanOf(plan)' /\ plan'.base = plan.base
  BY <1>6 DEF PlanOf
<1> QED  BY <1>8, <1>9, <1>10

\* A router that pays is not routing, and does not start to.
LEMMA PaymentsAgree ==
    ASSUME BaseInv, NcnInv, PlanInv, plan' = plan,
           (Votes' = Votes /\ base' = base) \/ (~ still_routing(base) /\ base'.last = base.last),
           \A r \in Routers : ncn'[r] = ncn[r] \/ (~ still_routing(ncn[r]) /\ ncn'[r].last = ncn[r].last)
    PROVE  PlanInv' /\ BaseEndsAsPlanned /\ NcnEndsAsPlanned
<1>1. BasePlanInv' /\ BaseEndsAsPlanned
  <2>1. CASE Votes' = Votes /\ base' = base
    <3>1. WholePass(base)' = WholePass(base) /\ still_routing(base)' = still_routing(base)
      BY <2>1, SameWhole
    <3> QED  BY <2>1, <3>1 DEF PlanInv, BasePlanInv, BaseEndsAsPlanned
  <2>2. CASE ~ still_routing(base) /\ base'.last = base.last
    BY <2>2 DEF BasePlanInv, BaseEndsAsPlanned, still_routing
  <2> QED  BY <2>1, <2>2
<1>2. NcnPlanInv' /\ NcnEndsAsPlanned
  <2>1. ASSUME NEW r \in Routers
        PROVE  /\ still_routing(ncn'[r]) => plan'.ncn[r] = WholeNcnPass(ncn'[r], r)
               /\ still_routing(ncn[r]) /\ ~ still_routing(ncn'[r]) => ncn'[r] = plan.ncn[r]
    <3>1. CASE ncn'[r] = ncn[r]
      BY <3>1 DEF PlanInv, NcnPlanInv
    <3>2. CASE ~ still_routing(ncn[r]) /\ ncn'[r].last = ncn[r].last
      BY <3>2 DEF still_routing
    <3> QED  BY <3>1, <3>2
  <2> QED  BY <2>1 DEF NcnPlanInv, NcnEndsAsPlanned
<1>3. PlanOf(plan)'
  BY DEF PlanInv, PlanOf
<1> QED  BY <1>1, <1>2, <1>3 DEF PlanInv

\* Each instruction keeps the plan, and the last slice of a pass ends as planned.
LEMMA NextAgrees ==
    ASSUME VotesSound, BaseInv, NcnInv, receiver \in Nat, ncn_receiver \in [Routers -> Nat], PlanInv, Next
    PROVE  PlanInv' /\ BaseEndsAsPlanned /\ NcnEndsAsPlanned
<1>0. BaseIterations \subseteq Nat /\ NcnIterations \subseteq Nat /\ base \in BaseRecords /\ ncn \in [Routers -> NcnRecords]
  BY RoutingAssumption DEF BaseInv, BaseSound, NcnInv
<1> DEFINE Good == PlanInv' /\ BaseEndsAsPlanned /\ NcnEndsAsPlanned
<1>1. ASSUME NEW n \in Deposits, Deposit(n)  PROVE Good
  <2>1. Votes' = Votes /\ plan' = plan /\ base' = base /\ ncn' = ncn
    BY <1>1 DEF Deposit
  <2> QED  BY <2>1, PaymentsAgree
<1>2. ASSUME NEW k \in BaseIterations, RouteBaseRewards(k)  PROVE Good
  <2>1. ncn' = ncn
    BY <1>2 DEF RouteBaseRewards
  <2>2. PlanOf(plan)' /\ plan'.ncn = plan.ncn /\ BasePlanInv' /\ BaseEndsAsPlanned
    <3>1. k \in Nat
      BY <1>0
    <3> QED  BY <1>2, <3>1, RouteBaseAgrees
  <2>3. NcnPlanInv' /\ NcnEndsAsPlanned
    BY <2>1, <2>2 DEF PlanInv, NcnPlanInv, NcnEndsAsPlanned
  <2> QED  BY <2>2, <2>3 DEF PlanInv
<1>3. ASSUME NEW b \in BaseGroups, DistributeBaseRewards(b)  PROVE Good
  <2>1. /\ Votes' = Votes /\ plan' = plan /\ ncn' = ncn /\ ~ still_routing(base)
        /\ base' = [base EXCEPT !.base_rewards[b] = 0, !.processed = @ - base.base_rewards[b]]
    BY <1>3 DEF DistributeBaseRewards, DistributeAllowed
  <2>2. base'.last = base.last
    BY <1>0, <2>1 DEF BaseRecords
  <2> QED  BY <2>1, <2>2, PaymentsAgree
<1>4. ASSUME NEW r \in Routers, DistributeBaseNcnRewardRoute(r)  PROVE Good
  <2>1. /\ Votes' = Votes /\ plan' = plan /\ ncn' = ncn /\ ~ still_routing(base)
        /\ base' = [base EXCEPT !.routes[r] = 0, !.processed = @ - base.routes[r]]
    BY <1>4 DEF DistributeBaseNcnRewardRoute, DistributeAllowed
  <2>2. base'.last = base.last
    BY <1>0, <2>1 DEF BaseRecords
  <2> QED  BY <2>1, <2>2, PaymentsAgree
<1>5. ASSUME NEW r \in Routers, NEW k \in NcnIterations, RouteNcnRewards(r, k)  PROVE Good
  <2>1. Votes' = Votes /\ base' = base
    BY <1>5 DEF RouteNcnRewards
  <2>2. PlanOf(plan)' /\ plan'.base = plan.base /\ NcnPlanInv' /\ NcnEndsAsPlanned
    <3>1. k \in Nat
      BY <1>0
    <3> QED  BY <1>5, <3>1, RouteNcnAgrees
  <2>3. BasePlanInv' /\ BaseEndsAsPlanned
    <3>1. WholePass(base)' = WholePass(base) /\ still_routing(base)' = still_routing(base)
      BY <2>1, SameWhole
    <3> QED  BY <2>1, <2>2, <3>1 DEF PlanInv, BasePlanInv, BaseEndsAsPlanned
  <2> QED  BY <2>2, <2>3 DEF PlanInv
<1>6. ASSUME NEW r \in Routers, DistributeNcnOperatorRewards(r)  PROVE Good
  <2>1. /\ Votes' = Votes /\ plan' = plan /\ base' = base /\ ~ still_routing(ncn[r])
        /\ ncn' = [ncn EXCEPT ![r].operator_rewards = 0, ![r].processed = @ - ncn[r].operator_rewards]
    BY <1>6 DEF DistributeNcnOperatorRewards, DistributeAllowed, PayFrom
  <2>2. ncn'[r].last = ncn[r].last /\ \A s \in Routers : s # r => ncn'[s] = ncn[s]
    BY <1>0, <2>1 DEF NcnRecords
  <2>3. \A s \in Routers : ncn'[s] = ncn[s] \/ (~ still_routing(ncn[s]) /\ ncn'[s].last = ncn[s].last)
    BY <2>1, <2>2
  <2> QED  BY <2>1, <2>3, PaymentsAgree
<1>7. ASSUME NEW r \in Routers, NEW v \in Vaults, DistributeNcnVaultRewards(r, v)  PROVE Good
  <2>1. /\ Votes' = Votes /\ plan' = plan /\ base' = base /\ ~ still_routing(ncn[r])
        /\ ncn' = [ncn EXCEPT ![r].vault_routes[v] = 0, ![r].processed = @ - ncn[r].vault_routes[v]]
    BY <1>7 DEF DistributeNcnVaultRewards, DistributeAllowed, PayFrom
  <2>2. ncn'[r].last = ncn[r].last /\ \A s \in Routers : s # r => ncn'[s] = ncn[s]
    BY <1>0, <2>1 DEF NcnRecords
  <2>3. \A s \in Routers : ncn'[s] = ncn[s] \/ (~ still_routing(ncn[s]) /\ ncn'[s].last = ncn[s].last)
    BY <2>1, <2>2
  <2> QED  BY <2>1, <2>3, PaymentsAgree
<1> QED  BY <1>1, <1>2, <1>3, <1>4, <1>5, <1>6, <1>7 DEF Next

\* What the keeper does to the routers is an instruction of Next, or closes one.
LEMMA StepIsInstruction ==
    ASSUME [KNext]_allvars
    PROVE  Next \/ UNCHANGED <<Votes, base, ncn, plan>>
<1> DEFINE Good == Next \/ UNCHANGED <<Votes, base, ncn, plan>>
<1>1. ASSUME NEW i, Transaction(i)  PROVE Good
  <2>1. CASE Read(i)
    BY <2>1 DEF Read, vars
  <2>2. CASE CloseRouter(i)
    BY <2>2 DEF CloseRouter
  <2>3. CASE Pay(i)
    <3>1. CASE route_base_rewards
      BY <3>1 DEF route_base_rewards, Next
    <3>2. CASE \E b \in BaseGroups : distribute_base_rewards(b)
      BY <3>2 DEF distribute_base_rewards, Next
    <3>3. CASE \E r \in Routers : distribute_base_ncn_rewards(r)
      BY <3>3 DEF distribute_base_ncn_rewards, Next
    <3>4. CASE \E r \in Routers : route_ncn_rewards(r)
      BY <3>4 DEF route_ncn_rewards, Next
    <3>5. CASE \E r \in Routers : distribute_ncn_operator_rewards(r)
      BY <3>5 DEF distribute_ncn_operator_rewards, Next
    <3>6. CASE \E r \in Routers, v \in Vaults : distribute_ncn_vault_rewards(r, v)
      BY <3>6 DEF distribute_ncn_vault_rewards, Next
    <3> QED  BY <2>3, <3>1, <3>2, <3>3, <3>4, <3>5, <3>6 DEF Pay
  <2> QED  BY <1>1, <2>1, <2>2, <2>3 DEF Transaction
<1>2. CASE StartCrank \/ Skip \/ Refused \/ CloseOpens
  BY <1>2 DEF StartCrank, Skip, Refused, CloseOpens, vars
<1>3. CASE Confirmed
  BY <1>1, <1>3 DEF Confirmed
<1>4. ASSUME NEW landed \in BOOLEAN, Fails(landed)  PROVE Good
  <2>1. CASE Transaction(Head(todo))
    BY <1>1, <2>1
  <2>2. CASE UNCHANGED <<vars, accounts>>
    BY <2>2 DEF vars
  <2> QED  BY <1>4, <2>1, <2>2 DEF Fails
<1>5. ASSUME NEW n \in Deposits, Claim(n)  PROVE Good
  BY <1>5 DEF Claim, Next
<1>6. CASE Anybody
  BY <1>6 DEF Anybody
<1>7. CASE UNCHANGED allvars
  BY <1>7 DEF allvars, vars
<1> QED  BY <1>2, <1>3, <1>4, <1>5, <1>6, <1>7 DEF KNext, Keeper

LEMMA StepAgrees ==
    ASSUME IInv, PlanInv, [KNext]_allvars
    PROVE  PlanInv' /\ BaseEndsAsPlanned /\ NcnEndsAsPlanned
<1>1. /\ VotesSound /\ BaseInv /\ NcnInv /\ receiver \in Nat /\ ncn_receiver \in [Routers -> Nat]
  BY FinalVotesAreSound DEF IInv, ControlInv, FundsInv
<1>2. CASE Next
  BY <1>1, <1>2, NextAgrees
<1>3. CASE UNCHANGED <<Votes, base, ncn, plan>>
  BY <1>1, <1>3, PaymentsAgree
<1> QED  BY <1>2, <1>3, StepIsInstruction

LEMMA InitAgrees == ASSUME RoutersInit  PROVE PlanInv
<1>1. /\ base.last = NoLast /\ \A r \in Routers : ncn[r].last = NoLast
      /\ plan = [base |-> base, ncn |-> ncn] /\ ncn = [r \in Routers |-> ncn[r]]
  BY DEF RoutersInit
<1> QED  BY <1>1 DEF PlanInv, PlanOf, BasePlanInv, NcnPlanInv, still_routing

\* A routing pass in progress always leads to what one undisturbed pass from its
\* start pays: WholePass and WholeNcnPass of the saved positions stay the plan.
THEOREM PlansAreKept == KSpec => []PlanInv
<1>1. IInv /\ PlanInv /\ [KNext]_allvars => PlanInv'
  BY StepAgrees
<1>2. KInit => PlanInv
  BY InitAgrees DEF KInit, Init
<1> QED  BY <1>1, <1>2, RewardsInvariant, PTL DEF KSpec

\* However route_base_rewards and route_ncn_rewards cut a pass into slices, and
\* whatever arrives or is paid in between, the pass ends with exactly the ledger
\* that one undisturbed pass would have left.
THEOREM SlicesAlwaysAgree == KSpec => SlicesAgree
<1>1. ASSUME IInv, PlanInv, [KNext]_allvars
      PROVE  [/\ still_routing(base) /\ ~ still_routing(base') => base' = plan.base
              /\ \A r \in Routers :
                    still_routing(ncn[r]) /\ ~ still_routing(ncn'[r]) => ncn'[r] = plan.ncn[r]]_vars
  BY <1>1, StepAgrees DEF BaseEndsAsPlanned, NcnEndsAsPlanned
<1> QED  BY <1>1, PlansAreKept, RewardsInvariant, PTL DEF KSpec, SlicesAgree
=============================================================================
