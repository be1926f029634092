-------------------------- MODULE BallotBoxProofs --------------------------
(***************************************************************************)
(* Proofs that the ballot box of every NCN epoch, for any operators,       *)
(* weights, roots and array length, keeps the properties of module         *)
(* BallotBox; that the votes do not move under the routing of rewards, and *)
(* that routing which reads them slice by slice neither sticks nor differs *)
(* from one that reads them once (VotingAndRouting).                       *)
(***************************************************************************)
EXTENDS VotingAndRouting, FiniteSetTheorems, FunctionTheorems, WellFoundedInduction, TLAPS

USE DEF NoIndex, NotReached

-----------------------------------------------------------------------------
(* Minima and maxima of sets of naturals                                   *)

\* A non-empty set of naturals has a least element: what `find` and the scan
\* loops over the arrays rely on.
LEMMA MinExists ==
    ASSUME NEW S, S \subseteq Nat, S # {}
    PROVE  \E x \in S : \A y \in S : x <= y
<1> DEFINE Less == {ss \in Nat \X Nat : ss[1] < ss[2]}
<1>1. IsWellFoundedOn(Less, Nat)
  BY NatLessThanWellFounded, Zenon DEF OpToRel
<1>2. PICK x \in S : \A y \in S : ~ (<<y, x>> \in Less)
  <2> HIDE DEF Less
  <2> QED  BY <1>1, WFMin, Zenon
<1>3. ASSUME NEW y \in S  PROVE x <= y
  <2>1. x \in Nat /\ y \in Nat
    OBVIOUS
  <2>2. ~ (y < x)
    BY <1>2, <2>1
  <2> QED  BY <2>1, <2>2
<1> QED  BY <1>3

\* First returns an element of the set it searches.
LEMMA FirstIn ==
    ASSUME NEW S, S \subseteq Nat, S # {}
    PROVE  First(S) \in S /\ \A j \in S : First(S) <= j
BY MinExists DEF First

-----------------------------------------------------------------------------
(* Weights of sets of operators                                            *)

\* The units of weight of one operator, and how many there are.
LEMMA OperatorUnits ==
    ASSUME NEW c \in Components, NEW o \in Operators
    PROVE  /\ IsFiniteSet({o} \X (1 .. Weight[o][c]))
           /\ Cardinality({o} \X (1 .. Weight[o][c])) = Weight[o][c]
<1>1. Weight[o][c] \in Nat
  BY OperatorsAssumption DEF StakeWeights
<1>2. IsFiniteSet(1 .. Weight[o][c]) /\ Cardinality(1 .. Weight[o][c]) = Weight[o][c]
  <2>1. ASSUME NEW n \in Nat  PROVE IsFiniteSet(1 .. n) /\ Cardinality(1 .. n) = n
    BY FS_Interval
  <2> QED  BY <1>1, <2>1
<1>3. IsFiniteSet({o}) /\ Cardinality({o}) = 1
  BY FS_Singleton
<1>4. /\ IsFiniteSet({o} \X (1 .. Weight[o][c]))
      /\ Cardinality({o} \X (1 .. Weight[o][c])) = 1 * Weight[o][c]
  <2> DEFINE n == 1 .. Weight[o][c]
  <2>1. IsFiniteSet({o}) /\ IsFiniteSet(n) /\ Cardinality({o}) = 1 /\ Cardinality(n) = Weight[o][c]
    BY <1>2, <1>3
  <2> HIDE DEF n
  <2>2. IsFiniteSet({o} \X n) /\ Cardinality({o} \X n) = Cardinality({o}) * Cardinality(n)
    BY <2>1, FS_Product, Zenon
  <2> QED  BY <2>1, <2>2 DEF n
<1> QED  BY <1>1, <1>4

\* Any set of operators has finitely many units of weight.
LEMMA StakeUnitsFinite ==
    ASSUME NEW c \in Components, NEW S \in SUBSET Operators
    PROVE  IsFiniteSet(StakeUnits(c, S)) /\ WeightOf(c, S) \in Nat
<1> DEFINE f == [o \in S |-> {o} \X (1 .. Weight[o][c])]
           T == {{o} \X (1 .. Weight[o][c]) : o \in S}
<1>1. IsFiniteSet(S)
  BY OperatorsAssumption, FS_Subset
<1>2. f \in Surjection(S, T)
  BY DEF Surjection
<1>3. IsFiniteSet(T)
  <2> HIDE DEF f, T
  <2> QED  BY <1>1, <1>2, FS_Surjection
<1>4. \A t \in T : IsFiniteSet(t)
  BY OperatorUnits
<1>5. IsFiniteSet(UNION T)
  <2> HIDE DEF T
  <2> QED  BY <1>3, <1>4, FS_UNION
<1> QED  BY <1>5, FS_CardinalityType DEF StakeUnits, WeightOf

\* Disjoint sets of operators have disjoint units, so weights add up.
LEMMA WeightOfUnion ==
    ASSUME NEW c \in Components, NEW S \in SUBSET Operators, NEW T \in SUBSET Operators,
           S \cap T = {}
    PROVE  WeightOf(c, S \cup T) = WeightOf(c, S) + WeightOf(c, T)
<1>1. StakeUnits(c, S \cup T) = StakeUnits(c, S) \cup StakeUnits(c, T)
  BY DEF StakeUnits
<1>2. StakeUnits(c, S) \cap StakeUnits(c, T) = {}
  BY DEF StakeUnits
<1>3. /\ IsFiniteSet(StakeUnits(c, S)) /\ Cardinality(StakeUnits(c, S)) \in Nat
      /\ IsFiniteSet(StakeUnits(c, T)) /\ Cardinality(StakeUnits(c, T)) \in Nat
  BY StakeUnitsFinite DEF WeightOf
<1>4. Cardinality(StakeUnits(c, S) \cup StakeUnits(c, T))
        = Cardinality(StakeUnits(c, S)) + Cardinality(StakeUnits(c, T)) - Cardinality({})
  BY <1>2, <1>3, FS_Union
<1>5. Cardinality({}) = 0
  BY FS_EmptySet
<1>6. Cardinality(StakeUnits(c, S) \cup StakeUnits(c, T))
        = Cardinality(StakeUnits(c, S)) + Cardinality(StakeUnits(c, T))
  BY <1>3, <1>4, <1>5
<1> QED  BY <1>1, <1>6, Zenon DEF WeightOf

LEMMA WeightOfSingleton ==
    ASSUME NEW c \in Components, NEW o \in Operators
    PROVE  WeightOf(c, {o}) = Weight[o][c] /\ Weight[o][c] \in Nat
<1>1. StakeUnits(c, {o}) = {o} \X (1 .. Weight[o][c])
  BY DEF StakeUnits
<1>2. Weight[o][c] \in Nat
  BY OperatorsAssumption DEF StakeWeights
<1> QED  BY <1>1, <1>2, OperatorUnits DEF WeightOf

LEMMA WeightOfEmpty ==
    ASSUME NEW c \in Components
    PROVE  WeightOf(c, {}) = 0
<1>1. StakeUnits(c, {}) = {}
  BY DEF StakeUnits
<1> QED  BY <1>1, FS_EmptySet DEF WeightOf

\* What increment_tally must add for a vote by o ...
LEMMA WeightOfAdd ==
    ASSUME NEW c \in Components, NEW S \in SUBSET Operators, NEW o \in Operators, o \notin S
    PROVE  WeightOf(c, S \cup {o}) = WeightOf(c, S) + Weight[o][c]
<1>1. S \cap {o} = {} /\ {o} \in SUBSET Operators
  OBVIOUS
<1>2. WeightOf(c, S \cup {o}) = WeightOf(c, S) + WeightOf(c, {o})
  BY <1>1, WeightOfUnion
<1>3. WeightOf(c, {o}) = Weight[o][c]
  BY WeightOfSingleton
<1> QED  BY <1>2, <1>3

\* ... and decrement_tally must take away when o leaves.
LEMMA WeightOfRemove ==
    ASSUME NEW c \in Components, NEW S \in SUBSET Operators, NEW o \in S
    PROVE  /\ WeightOf(c, S \ {o}) = WeightOf(c, S) - Weight[o][c]
           /\ Weight[o][c] <= WeightOf(c, S)
<1>1. (S \ {o}) \cup {o} = S /\ S \ {o} \in SUBSET Operators /\ o \in Operators
  OBVIOUS
<1>2. WeightOf(c, S) = WeightOf(c, S \ {o}) + Weight[o][c]
  BY <1>1, WeightOfAdd
<1>3. WeightOf(c, S \ {o}) \in Nat /\ Weight[o][c] \in Nat
  BY <1>1, StakeUnitsFinite, WeightOfSingleton
<1> QED  BY <1>2, <1>3

\* The weights of two disjoint sets of operators stay within the total.
LEMMA WeightOfDisjoint ==
    ASSUME NEW c \in Components, NEW S \in SUBSET Operators, NEW T \in SUBSET Operators,
           S \cap T = {}
    PROVE  WeightOf(c, S) + WeightOf(c, T) <= WeightOf(c, Operators)
<1>1. StakeUnits(c, S \cup T) \subseteq StakeUnits(c, Operators)
  BY DEF StakeUnits
<1>2. IsFiniteSet(StakeUnits(c, Operators))
  BY StakeUnitsFinite
<1>3. WeightOf(c, S \cup T) <= WeightOf(c, Operators)
  BY <1>1, <1>2, FS_Subset DEF WeightOf
<1> QED  BY <1>3, WeightOfUnion

-----------------------------------------------------------------------------
(* Two thirds of the stake                                                 *)

LEMMA DivAtLeast ==
    ASSUME NEW x \in Nat, NEW y \in Nat, y > 0, NEW m \in Nat
    PROVE  x \div y >= m <=> x >= m * y
<1> DEFINE q == x \div y
<1>1. q \in Int /\ y * q <= x /\ x < y * q + y
  BY SMT
<1> HIDE DEF q
<1>2. ASSUME q >= m  PROVE x >= m * y
  <2>1. y * q >= m * y
    BY <1>1, <1>2
  <2> QED  BY <1>1, <2>1
<1>3. ASSUME ~ (q >= m)  PROVE ~ (x >= m * y)
  <2>1. y * (q + 1) <= m * y
    BY <1>1, <1>3
  <2>2. y * (q + 1) = y * q + y
    BY <1>1
  <2> QED  BY <1>1, <2>1, <2>2
<1> QED  BY <1>2, <1>3 DEF q

LEMMA TotalStakeType == TotalStake \in Nat
BY StakeUnitsFinite, OperatorsAssumption DEF TotalStake

\* The integer form of the test tally_votes makes.
LEMMA ShareIff ==
    ASSUME NEW w \in Nat, TotalStake > 0
    PROVE  IsConsensusShare(w) <=> w * Precision >= ((2 * Precision) \div 3) * TotalStake
<1>1. w * Precision \in Nat /\ (2 * Precision) \div 3 \in Nat
  BY LimitsAssumption
<1> QED  BY <1>1, DivAtLeast, TotalStakeType DEF IsConsensusShare

LEMMA ShareMonotone ==
    ASSUME NEW w \in Nat, NEW x \in Nat, TotalStake > 0, w <= x, IsConsensusShare(w)
    PROVE  IsConsensusShare(x)
<1>1. w * Precision <= x * Precision
  BY LimitsAssumption
<1>2. w * Precision \in Nat /\ x * Precision \in Nat
      /\ ((2 * Precision) \div 3) * TotalStake \in Nat
  BY LimitsAssumption, TotalStakeType
<1> QED  BY <1>1, <1>2, ShareIff

\* Rounding down never lets two disjoint sets of operators both reach two
\* thirds: this is where the precision of PreciseNumber matters.
LEMMA NoTwoShares ==
    ASSUME NEW w \in Nat, NEW x \in Nat, TotalStake > 0, w + x <= TotalStake,
           IsConsensusShare(w), IsConsensusShare(x)
    PROVE  FALSE
<1> DEFINE m == (2 * Precision) \div 3
<1>1. m \in Nat /\ 3 * m >= 2 * Precision - 2
  BY LimitsAssumption
<1>2. w * Precision >= m * TotalStake /\ x * Precision >= m * TotalStake
  BY ShareIff
<1> HIDE DEF m
<1>3. (w + x) * Precision <= TotalStake * Precision
  BY LimitsAssumption, TotalStakeType
<1>4. (w + x) * Precision = w * Precision + x * Precision
  BY LimitsAssumption
<1>5. TotalStake * Precision >= 2 * (m * TotalStake)
  BY <1>1, <1>2, <1>3, <1>4, LimitsAssumption, TotalStakeType
<1>6. 2 * (m * TotalStake) = TotalStake * (2 * m)
  BY <1>1, TotalStakeType
<1>7. 2 * m > Precision
  BY <1>1, LimitsAssumption
<1>8. TotalStake * (2 * m) > TotalStake * Precision
  BY <1>1, <1>7, TotalStakeType, LimitsAssumption
<1> QED  BY <1>1, <1>5, <1>6, <1>8, TotalStakeType, LimitsAssumption

\* No stake, no consensus.
LEMMA ZeroIsNoShare ==
    ASSUME TotalStake > 0
    PROVE  ~ IsConsensusShare(0)
<1>1. 0 + 0 <= TotalStake
  BY TotalStakeType
<1> QED  BY <1>1, NoTwoShares

-----------------------------------------------------------------------------
(* Where cast_vote writes                                                  *)

LEMMA IndexFacts == Index \subseteq Nat /\ IsFiniteSet(Index) /\ NoIndex \notin Index
BY LimitsAssumption, FS_Interval DEF Index

\* The scan over operator_votes stops at o's own vote or, when o has none, at
\* the first free position.
LEMMA VoteSlotCases ==
    ASSUME TypeOK, VotesWellFormed, NEW o \in Operators, VoteSlots(o) # {},
           NEW v, v = First(VoteSlots(o))
    PROVE  /\ v \in Index
           /\ \/ operator_votes[v].operator = o /\ v \in 1 .. operators_voted
              \/ /\ operator_votes[v].operator # o
                 /\ v = operators_voted + 1
                 /\ \A u \in 1 .. operators_voted : operator_votes[u].operator # o
<1>1. VoteSlots(o) \subseteq Nat
  BY IndexFacts DEF VoteSlots
<1>2. v \in VoteSlots(o) /\ \A j \in VoteSlots(o) : v <= j
  BY <1>1, FirstIn
<1>3. v \in Index
  BY <1>2 DEF VoteSlots
<1>4. CASE operator_votes[v].operator = o
  <2>1. v <= operators_voted
    BY <1>3, <1>4, OperatorsAssumption DEF VotesWellFormed, EmptyVote
  <2> QED  BY <1>3, <1>4, <2>1, LimitsAssumption DEF Index, TypeOK
<1>5. CASE operator_votes[v].operator # o
  <2>1. operator_votes[v].ballot_index = NoIndex
    BY <1>2, <1>5 DEF VoteSlots
  <2>2. v > operators_voted
    BY <1>3, <2>1, IndexFacts DEF VotesWellFormed, TypeOK
  <2>3. ASSUME NEW u \in 1 .. operators_voted  PROVE operator_votes[u].operator # o
    <3>1. u \in Index /\ u < v
      BY <2>2, <1>3, LimitsAssumption DEF Index, TypeOK, VotesWellFormed
    <3>2. u \notin VoteSlots(o)
      BY <3>1, <1>2, <1>3, IndexFacts
    <3> QED  BY <3>1, <3>2 DEF VoteSlots
  <2>4. operators_voted + 1 \in Index /\ ~ (operators_voted + 1 <= operators_voted)
    BY <2>2, <1>3, LimitsAssumption DEF Index, TypeOK
  <2>5. operators_voted + 1 \in VoteSlots(o)
    BY <2>4 DEF VoteSlots, VotesWellFormed, EmptyVote
  <2>6. v = operators_voted + 1
    BY <2>2, <2>5, <1>2, <1>3, IndexFacts DEF TypeOK
  <2> QED  BY <1>3, <1>5, <2>3, <2>6
<1> QED  BY <1>4, <1>5

\* The tally a vote for r goes to: r's own, or a free one if r has none.
LEMMA TallySlotCases ==
    ASSUME TypeOK, NEW r \in Roots, TallySlots(r) # {}, NEW t, t = First(TallySlots(r))
    PROVE  /\ t \in Index
           /\ \/ TalliesFor(r) # {} /\ ballot_tallies[t].ballot = r
              \/ TalliesFor(r) = {} /\ ballot_tallies[t].ballot = ZeroRoot
<1>1. TallySlots(r) \subseteq Nat
  BY IndexFacts DEF TallySlots, TalliesFor
<1>2. t \in TallySlots(r)
  BY <1>1, FirstIn
<1> QED  BY <1>2 DEF TallySlots, TalliesFor

-----------------------------------------------------------------------------
(* What cast_vote does to the set of voters of each tally                  *)

LEMMA VotersSubset == \A i : VotersFor(i) \in SUBSET Operators
BY DEF VotersFor

\* An operator is a voter of the tally its vote points at and of no other.
LEMMA VoterOfOne ==
    ASSUME TypeOK, VotesWellFormed, NEW o \in Operators, VoteSlots(o) # {},
           NEW v, v = First(VoteSlots(o))
    PROVE  IF operator_votes[v].operator = o
           THEN /\ operator_votes[v].ballot_index \in Index
                /\ operator_votes[v].stake_weights = Weight[o]
                /\ o \in VotersFor(operator_votes[v].ballot_index)
                /\ \A i \in Index \ {operator_votes[v].ballot_index} : o \notin VotersFor(i)
           ELSE \A i \in Index : o \notin VotersFor(i)
<1>1. /\ v \in Index
      /\ \/ operator_votes[v].operator = o /\ v \in 1 .. operators_voted
         \/ /\ operator_votes[v].operator # o
            /\ \A u \in 1 .. operators_voted : operator_votes[u].operator # o
  BY VoteSlotCases
<1>2. \A u \in Index : operator_votes[u].operator = o => u \in 1 .. operators_voted
  BY LimitsAssumption, OperatorsAssumption DEF VotesWellFormed, EmptyVote, Index, TypeOK
<1>3. \A u \in Index : operator_votes[u].operator = o => u = v
  BY <1>1, <1>2 DEF VotesWellFormed
<1>4. CASE operator_votes[v].operator = o
  <2>1. operator_votes[v].ballot_index \in Index /\ operator_votes[v].stake_weights = Weight[o]
    BY <1>1, <1>4 DEF VotesWellFormed
  <2> QED  BY <1>1, <1>3, <1>4, <2>1 DEF VotersFor
<1>5. CASE operator_votes[v].operator # o
  BY <1>3, <1>5 DEF VotersFor
<1> QED  BY <1>4, <1>5

\* After o's vote for the ballot at t, o is a voter of t and of no other tally.
LEMMA VotersAfter ==
    ASSUME TypeOK, VotesWellFormed, NEW o \in Operators, NEW r \in Roots, RecordVote(o, r),
           NEW t, t = First(TallySlots(r)), NEW i \in Index
    PROVE  VotersFor(i)' = IF i = t THEN VotersFor(i) \cup {o} ELSE VotersFor(i) \ {o}
<1> DEFINE v == First(VoteSlots(o))
<1>1. /\ VoteSlots(o) # {}
      /\ operator_votes' = [operator_votes EXCEPT ![v] =
              [operator |-> o, ballot_index |-> t, stake_weights |-> Weight[o]]]
  BY DEF RecordVote
<1>2. /\ v \in Index
      /\ \/ operator_votes[v].operator = o /\ v \in 1 .. operators_voted
         \/ /\ operator_votes[v].operator # o
            /\ v = operators_voted + 1
            /\ \A u \in 1 .. operators_voted : operator_votes[u].operator # o
  BY <1>1, VoteSlotCases
<1> HIDE DEF v
<1>3. /\ operator_votes'[v].operator = o /\ operator_votes'[v].ballot_index = t
      /\ \A u \in Index \ {v} : operator_votes'[u] = operator_votes[u]
  BY <1>1, <1>2 DEF TypeOK
<1>4. \A u \in Index : operator_votes[u].operator = o => u = v
  BY <1>2, LimitsAssumption, OperatorsAssumption DEF VotesWellFormed, EmptyVote, Index, TypeOK
<1>5. ASSUME NEW p \in Operators \ {o}
      PROVE  p \in VotersFor(i)' <=> p \in VotersFor(i)
  <2>1. operator_votes[v].operator # p
    BY <1>2, LimitsAssumption, OperatorsAssumption DEF VotesWellFormed, EmptyVote, Index, TypeOK
  <2> QED  BY <1>2, <1>3, <2>1 DEF VotersFor
<1>6. o \in VotersFor(i)' <=> i = t
  BY <1>2, <1>3, <1>4 DEF VotersFor
<1>7. VotersFor(i)' \subseteq Operators /\ VotersFor(i) \subseteq Operators
  BY DEF VotersFor
<1> QED  BY <1>5, <1>6, <1>7

-----------------------------------------------------------------------------
(* What cast_vote does to the tallies                                      *)

\* increment_or_create_ballot_tally: a fresh tally starts from nothing, so
\* creating one and incrementing one have the same effect.
LEMMA AddedTally ==
    ASSUME TypeOK, TallyMatchesVotes, NEW o \in Operators, NEW r \in Roots,
           TallySlots(r) # {}, NEW t, t = First(TallySlots(r)),
           NEW a, a = IncrementOrCreate(r, Weight[o])
    PROVE  /\ a \in [Index -> Tally]
           /\ a[t].ballot = r
           /\ a[t].tally = ballot_tallies[t].tally + 1
           /\ \A c \in Components : a[t].stake_weights[c]
                    = ballot_tallies[t].stake_weights[c] + Weight[o][c]
           /\ \A i \in Index \ {t} : a[i] = ballot_tallies[i]
<1>1. /\ t \in Index
      /\ \/ TalliesFor(r) # {} /\ ballot_tallies[t].ballot = r
         \/ TalliesFor(r) = {} /\ ballot_tallies[t].ballot = ZeroRoot
  BY TallySlotCases
<1>2. Weight[o] \in [Components -> Nat] /\ ballot_tallies \in [Index -> Tally]
      /\ ballot_tallies[t] \in Tally /\ ballot_tallies[t].stake_weights \in [Components -> Nat]
  BY <1>1, OperatorsAssumption DEF TypeOK, Tally, StakeWeights
<1>3. CASE TalliesFor(r) # {} /\ ballot_tallies[t].ballot = r
  <2>1. a = [ballot_tallies EXCEPT ![t] =
                [ballot |-> r, stake_weights |-> Add(@.stake_weights, Weight[o]),
                 tally |-> @.tally + 1]]
    BY <1>3 DEF IncrementOrCreate
  <2>2. Add(ballot_tallies[t].stake_weights, Weight[o]) \in [Components -> Nat]
    BY <1>2 DEF Add
  <2>3. a[t] = [ballot |-> r, tally |-> ballot_tallies[t].tally + 1,
                stake_weights |-> Add(ballot_tallies[t].stake_weights, Weight[o])]
    BY <1>1, <1>2, <1>3, <2>1 DEF Tally
  <2>4. a[t] \in Tally
    BY <1>2, <2>2, <2>3 DEF Tally, StakeWeights
  <2>5. a \in [Index -> Tally] /\ \A i \in Index \ {t} : a[i] = ballot_tallies[i]
    BY <1>1, <1>2, <2>1, <2>4
  <2> QED  BY <2>3, <2>5 DEF Add
<1>4. CASE TalliesFor(r) = {} /\ ballot_tallies[t].ballot = ZeroRoot
  <2>1. a = [ballot_tallies EXCEPT ![t] = [ballot |-> r, stake_weights |-> Weight[o], tally |-> 1]]
    BY <1>4 DEF IncrementOrCreate
  <2>2. VotersFor(t) = {}
    BY <1>1, <1>4 DEF TallyMatchesVotes, is_valid
  <2>3. ballot_tallies[t].tally = 0
    BY <1>1, <2>2, FS_EmptySet DEF TallyMatchesVotes
  <2>4. \A c \in Components : ballot_tallies[t].stake_weights[c] = 0
    <3> SUFFICES ASSUME NEW c \in Components  PROVE ballot_tallies[t].stake_weights[c] = 0
      OBVIOUS
    <3>1. ballot_tallies[t].stake_weights[c] = WeightOf(c, VotersFor(t))
      BY <1>1 DEF TallyMatchesVotes
    <3>2. WeightOf(c, {}) = 0
      BY WeightOfEmpty
    <3> QED  BY <2>2, <3>1, <3>2
  <2>5. a[t] = [ballot |-> r, stake_weights |-> Weight[o], tally |-> 1]
    BY <1>1, <1>2, <2>1
  <2>6. a[t] \in Tally
    BY <1>2, <2>5 DEF Tally, StakeWeights
  <2>7. a \in [Index -> Tally] /\ \A i \in Index \ {t} : a[i] = ballot_tallies[i]
    BY <1>1, <1>2, <2>1, <2>6
  <2> QED  BY <1>2, <2>3, <2>4, <2>5, <2>7
<1> QED  BY <1>1, <1>3, <1>4

\* Every tally after the vote is the one its new set of voters determines.
LEMMA TallyAfter ==
    ASSUME TypeOK, VotesWellFormed, TallyMatchesVotes, NEW o \in Operators, NEW r \in Roots,
           RecordVote(o, r), NEW t, t = First(TallySlots(r)), NEW i \in Index
    PROVE  /\ ballot_tallies' \in [Index -> Tally]
           /\ ballot_tallies'[i].tally = Cardinality(VotersFor(i)')
           /\ \A c \in Components :
                 ballot_tallies'[i].stake_weights[c] = WeightOf(c, VotersFor(i)')
           /\ ballot_tallies'[i].ballot = IF VotersFor(i)' = {} THEN ZeroRoot
                                         ELSE IF i = t THEN r ELSE ballot_tallies[i].ballot
<1> DEFINE v == First(VoteSlots(o))
           old == operator_votes[v]
           a == IncrementOrCreate(r, Weight[o])
           p == old.ballot_index
           Reduced(j) == [ballot |-> a[j].ballot, tally |-> a[j].tally - 1,
                          stake_weights |-> Sub(a[j].stake_weights, Weight[o])]
<1>1. /\ TallySlots(r) # {} /\ VoteSlots(o) # {}
      /\ \/ /\ old.operator = o
            /\ ballot_tallies' = Withdraw(a, p, old.stake_weights)
         \/ /\ old.operator # o
            /\ ballot_tallies' = a
  BY DEF RecordVote
<1>2. /\ v \in Index
      /\ \/ old.operator = o /\ v \in 1 .. operators_voted
         \/ /\ old.operator # o
            /\ \A u \in 1 .. operators_voted : operator_votes[u].operator # o
  BY <1>1, VoteSlotCases
<1>3. /\ t \in Index
      /\ a \in [Index -> Tally]
      /\ a[t].ballot = r
      /\ a[t].tally = ballot_tallies[t].tally + 1
      /\ \A c \in Components : a[t].stake_weights[c]
              = ballot_tallies[t].stake_weights[c] + Weight[o][c]
      /\ \A j \in Index \ {t} : a[j] = ballot_tallies[j]
  BY <1>1, AddedTally, TallySlotCases
<1> HIDE DEF a
<1>4. \A j \in Index : VotersFor(j)' = IF j = t THEN VotersFor(j) \cup {o} ELSE VotersFor(j) \ {o}
  BY VotersAfter
<1>5. \A j \in Index : /\ VotersFor(j) \in SUBSET Operators
                       /\ IsFiniteSet(VotersFor(j))
                       /\ Cardinality(VotersFor(j)) \in Nat
  BY VotersSubset, OperatorsAssumption, FS_Subset, FS_CardinalityType
<1>6. \A j \in Index : /\ ballot_tallies[j].tally = Cardinality(VotersFor(j))
                       /\ \A c \in Components :
                             ballot_tallies[j].stake_weights[c] = WeightOf(c, VotersFor(j))
                       /\ ballot_tallies[j].ballot # ZeroRoot <=> VotersFor(j) # {}
  BY DEF TallyMatchesVotes, is_valid
<1>7. r # ZeroRoot
  BY RootsAssumption
<1>10. CASE old.operator # o
  <2>1. o \notin VotersFor(i) /\ ballot_tallies' = a
    BY <1>1, <1>10, VoterOfOne
  <2>2. CASE i = t
    <3>1. VotersFor(i)' = VotersFor(i) \cup {o}
      BY <1>4, <2>2
    <3>2. Cardinality(VotersFor(i)') = Cardinality(VotersFor(i)) + 1
      BY <3>1, <2>1, <1>5, FS_AddElement
    <3>3. \A c \in Components : WeightOf(c, VotersFor(i)') = WeightOf(c, VotersFor(i)) + Weight[o][c]
      BY <3>1, <2>1, <1>5, WeightOfAdd
    <3> QED  BY <1>3, <1>6, <2>1, <2>2, <3>1, <3>2, <3>3
  <2>3. CASE i # t
    <3>1. VotersFor(i)' = VotersFor(i)
      BY <1>4, <2>1, <2>3
    <3> QED  BY <1>3, <1>6, <2>1, <2>3, <3>1
  <2> QED  BY <2>2, <2>3
<1>11. CASE old.operator = o
  <2>1. /\ p \in Index /\ o \in VotersFor(p)
        /\ old.stake_weights = Weight[o]
        /\ \A j \in Index \ {p} : o \notin VotersFor(j)
    BY <1>1, <1>11, VoterOfOne
  <2>2. /\ ballot_tallies' = Withdraw(a, p, Weight[o])
    BY <1>1, <1>11, <2>1
  <2> HIDE DEF p
  <2>3. \A j \in Index \ {p} : o \notin VotersFor(j)
    BY <2>1
  <2>4. /\ \A j \in Index \ {p} : ballot_tallies'[j] = a[j]
        /\ ballot_tallies'[p] = IF a[p].tally = 1 THEN DefaultTally
                                ELSE Reduced(p)
    BY <1>3, <2>1, <2>2 DEF Withdraw
  <2>5. ballot_tallies' \in [Index -> Tally]
    <3>1. DefaultTally \in Tally
      BY DEF DefaultTally, Tally, ZeroWeights, StakeWeights
    <3>2. a[p] \in Tally /\ a[p].tally >= 1
      <4>1. a[p].tally >= 1
        <5>1. Cardinality(VotersFor(p)) >= 1
          BY <1>5, <2>1, FS_EmptySet
        <5> QED  BY <1>3, <1>5, <1>6, <2>1, <5>1
      <4> QED  BY <1>3, <2>1, <4>1
    <3>3. \A c \in Components : a[p].stake_weights[c] >= Weight[o][c]
      <4> TAKE c \in Components
      <4>1. /\ WeightOf(c, VotersFor(p)) >= Weight[o][c]
            /\ WeightOf(c, VotersFor(p)) \in Nat /\ Weight[o][c] \in Nat
        BY <1>5, <2>1, WeightOfRemove, StakeUnitsFinite, WeightOfSingleton
      <4>2. a[p].stake_weights[c] = IF p = t THEN WeightOf(c, VotersFor(p)) + Weight[o][c]
                                             ELSE WeightOf(c, VotersFor(p))
        BY <1>3, <1>6, <2>1
      <4> QED  BY <4>1, <4>2
    <3>4. Sub(a[p].stake_weights, Weight[o]) \in StakeWeights
      BY <3>2, <3>3, OperatorsAssumption DEF Sub, StakeWeights, Tally
    <3>5. Reduced(p) \in Tally
      BY <3>2, <3>4 DEF Tally
    <3> QED  BY <1>3, <2>1, <2>2, <3>1, <3>5 DEF Withdraw
  <2>6. CASE i = t /\ i = p
    <3>1. VotersFor(i)' = VotersFor(i) /\ VotersFor(i) # {}
      BY <1>4, <2>1, <2>6
    <3>2. a[i].tally = Cardinality(VotersFor(i)) + 1 /\ a[i].tally # 1
      BY <1>3, <1>5, <1>6, <2>6, <3>1, FS_EmptySet
    <3>3. ballot_tallies'[i] = Reduced(i)
      BY <2>4, <2>6, <3>2
    <3>4. \A c \in Components : Sub(a[i].stake_weights, Weight[o])[c] = WeightOf(c, VotersFor(i))
      <4> TAKE c \in Components
      <4>1. WeightOf(c, VotersFor(i)) \in Nat /\ Weight[o][c] \in Nat
        BY <1>5, StakeUnitsFinite, WeightOfSingleton
      <4>2. a[i].stake_weights[c] = WeightOf(c, VotersFor(i)) + Weight[o][c]
        BY <1>3, <1>6, <2>6
      <4> QED  BY <4>1, <4>2 DEF Sub
    <3>5. a[i] \in Tally
      BY <1>3
    <3>6. /\ ballot_tallies'[i].tally = a[i].tally - 1
          /\ ballot_tallies'[i].stake_weights = Sub(a[i].stake_weights, Weight[o])
          /\ ballot_tallies'[i].ballot = r
      BY <1>3, <2>6, <3>3, <3>5 DEF Tally
    <3> QED  BY <1>5, <2>5, <2>6, <3>1, <3>2, <3>4, <3>6
  <2>7. CASE i = t /\ i # p
    <3>1. o \notin VotersFor(i) /\ VotersFor(i)' = VotersFor(i) \cup {o}
      BY <1>4, <2>3, <2>7
    <3>2. Cardinality(VotersFor(i)') = Cardinality(VotersFor(i)) + 1
      BY <3>1, <1>5, FS_AddElement
    <3>3. \A c \in Components : WeightOf(c, VotersFor(i)') = WeightOf(c, VotersFor(i)) + Weight[o][c]
      BY <3>1, <1>5, WeightOfAdd
    <3>4. ballot_tallies'[i] = a[t]
      BY <2>4, <2>7
    <3>5. VotersFor(i)' # {}
      BY <3>1
    <3>6. /\ a[t].tally = Cardinality(VotersFor(i)) + 1
          /\ \A c \in Components : a[t].stake_weights[c] = WeightOf(c, VotersFor(i)) + Weight[o][c]
          /\ a[t].ballot = r
      BY <1>3, <1>6, <2>7
    <3> QED  BY <2>5, <2>7, <3>2, <3>3, <3>4, <3>5, <3>6
  <2>8. CASE i # t /\ i = p
    <3>1. o \in VotersFor(i) /\ VotersFor(i)' = VotersFor(i) \ {o}
      BY <1>4, <2>1, <2>8
    <3>2. IsFiniteSet(VotersFor(i)')
          /\ Cardinality(VotersFor(i)') = Cardinality(VotersFor(i)) - 1
      BY <3>1, <1>5, FS_RemoveElement
    <3>3. \A c \in Components : WeightOf(c, VotersFor(i)') = WeightOf(c, VotersFor(i)) - Weight[o][c]
      BY <3>1, <1>5, WeightOfRemove
    <3>4. a[i] = ballot_tallies[i] /\ a[i].tally = Cardinality(VotersFor(i)) /\ a[i] \in Tally
      BY <1>3, <1>6, <2>8
    <3>5. CASE a[i].tally = 1
      <4>1. Cardinality(VotersFor(i)') = 0
        BY <3>2, <3>4, <3>5
      <4>2. VotersFor(i)' = {}
        BY <3>2, <4>1, FS_EmptySet
      <4>3. ballot_tallies'[i] = DefaultTally
        BY <2>4, <2>8, <3>5
      <4> QED  BY <2>5, <4>1, <4>2, <4>3, WeightOfEmpty DEF DefaultTally, ZeroWeights
    <3>6. CASE a[i].tally # 1
      <4>1. VotersFor(i)' # {}
        BY <1>5, <3>2, <3>4, <3>6, FS_EmptySet
      <4>2. /\ ballot_tallies'[i].tally = a[i].tally - 1
            /\ ballot_tallies'[i].stake_weights = Sub(a[i].stake_weights, Weight[o])
            /\ ballot_tallies'[i].ballot = a[i].ballot
        BY <2>4, <2>8, <3>4, <3>6 DEF Tally
      <4>3. \A c \in Components : Sub(a[i].stake_weights, Weight[o])[c] = WeightOf(c, VotersFor(i)')
        BY <1>6, <3>3, <3>4 DEF Sub
      <4> QED  BY <2>5, <2>8, <3>2, <3>4, <4>1, <4>2, <4>3
    <3> QED  BY <3>5, <3>6
  <2>9. CASE i # t /\ i # p
    <3>1. VotersFor(i)' = VotersFor(i)
      BY <1>4, <2>3, <2>9
    <3> QED  BY <1>3, <1>6, <2>4, <2>5, <2>9, <3>1
  <2> QED  BY <2>6, <2>7, <2>8, <2>9
<1> QED  BY <1>10, <1>11

\* A tally is in use after the vote exactly when it has voters.
LEMMA TallyInUseAfter ==
    ASSUME TypeOK, VotesWellFormed, TallyMatchesVotes, NEW o \in Operators, NEW r \in Roots,
           RecordVote(o, r), NEW i \in Index
    PROVE  is_valid(ballot_tallies'[i].ballot) <=> VotersFor(i)' # {}
<1> DEFINE t == First(TallySlots(r))
<1>1. ballot_tallies'[i].ballot = IF VotersFor(i)' = {} THEN ZeroRoot
                                  ELSE IF i = t THEN r ELSE ballot_tallies[i].ballot
  BY TallyAfter
<1>2. VotersFor(i)' = IF i = t THEN VotersFor(i) \cup {o} ELSE VotersFor(i) \ {o}
  BY VotersAfter
<1> HIDE DEF t
<1>3. VotersFor(i) # {} => ballot_tallies[i].ballot # ZeroRoot
  BY DEF TallyMatchesVotes, is_valid
<1> QED  BY <1>1, <1>2, <1>3, RootsAssumption DEF is_valid

LEMMA TallyMatchesVotesAfter ==
    ASSUME TypeOK, VotesWellFormed, TallyMatchesVotes, NEW o \in Operators, NEW r \in Roots,
           RecordVote(o, r)
    PROVE  TallyMatchesVotes'
<1> DEFINE t == First(TallySlots(r))
<1>1. ASSUME NEW i \in Index
      PROVE  /\ ballot_tallies'[i].tally = Cardinality(VotersFor(i)')
             /\ \A c \in Components :
                   ballot_tallies'[i].stake_weights[c] = WeightOf(c, VotersFor(i)')
             /\ is_valid(ballot_tallies'[i].ballot) <=> VotersFor(i)' # {}
  BY TallyAfter, TallyInUseAfter
<1>2. ASSUME NEW i \in Index, NEW j \in Index, is_valid(ballot_tallies'[i].ballot),
             ballot_tallies'[i].ballot = ballot_tallies'[j].ballot
      PROVE  i = j
  <2>1. \A k \in Index : is_valid(ballot_tallies'[k].ballot)
           => ballot_tallies'[k].ballot = IF k = t THEN r ELSE ballot_tallies[k].ballot
    BY TallyAfter, TallyInUseAfter
  <2>2. /\ ballot_tallies'[i].ballot = IF i = t THEN r ELSE ballot_tallies[i].ballot
        /\ ballot_tallies'[j].ballot = IF j = t THEN r ELSE ballot_tallies[j].ballot
        /\ ballot_tallies'[i].ballot # ZeroRoot
    BY <1>2, <2>1 DEF is_valid
  <2>3. /\ t \in Index
        /\ \/ TalliesFor(r) # {} /\ ballot_tallies[t].ballot = r
           \/ TalliesFor(r) = {} /\ ballot_tallies[t].ballot = ZeroRoot
    BY TallySlotCases DEF RecordVote
  <2> HIDE DEF t
  <2>4. \A k \in Index \ {t} : ballot_tallies[k].ballot # r
    BY <2>3, RootsAssumption DEF TalliesFor, TallyMatchesVotes, is_valid
  <2>5. \A k, l \in Index : ballot_tallies[k].ballot # ZeroRoot
                /\ ballot_tallies[k].ballot = ballot_tallies[l].ballot => k = l
    BY DEF TallyMatchesVotes, is_valid
  <2> QED  BY <1>2, <2>2, <2>4, <2>5
<1> QED  BY <1>1, <1>2 DEF TallyMatchesVotes, is_valid, VotersFor

LEMMA VotesWellFormedAfter ==
    ASSUME TypeOK, VotesWellFormed, TallyMatchesVotes, NEW o \in Operators, NEW r \in Roots,
           RecordVote(o, r)
    PROVE  VotesWellFormed' /\ operator_votes' \in [Index -> Vote] /\ operators_voted' \in Nat
<1> DEFINE v == First(VoteSlots(o))
           t == First(TallySlots(r))
           new == [operator |-> o, ballot_index |-> t, stake_weights |-> Weight[o]]
<1>1. /\ VoteSlots(o) # {} /\ TallySlots(r) # {}
      /\ operator_votes' = [operator_votes EXCEPT ![v] = new]
      /\ \/ operator_votes[v].operator = o /\ operators_voted' = operators_voted
         \/ operator_votes[v].operator # o /\ operators_voted' = operators_voted + 1
  BY DEF RecordVote
<1>2. /\ v \in Index
      /\ \/ operator_votes[v].operator = o /\ v \in 1 .. operators_voted
         \/ /\ operator_votes[v].operator # o
            /\ v = operators_voted + 1
            /\ \A u \in 1 .. operators_voted : operator_votes[u].operator # o
  BY <1>1, VoteSlotCases
<1>3. t \in Index
  BY <1>1, TallySlotCases
<1>4. new \in Vote
  BY <1>3, OperatorsAssumption DEF Vote
<1>5. ASSUME NEW i \in Index  PROVE is_valid(ballot_tallies'[i].ballot) <=> VotersFor(i)' # {}
  BY TallyInUseAfter
<1> HIDE DEF v, t
<1>6. /\ operator_votes' \in [Index -> Vote]
      /\ operator_votes'[v] = new
      /\ \A u \in Index \ {v} : operator_votes'[u] = operator_votes[u]
  BY <1>1, <1>2, <1>4 DEF TypeOK
<1>7. /\ operators_voted' \in Nat /\ operators_voted' <= MaxOperators
      /\ \A u \in Index : u <= operators_voted' <=> (u <= operators_voted \/ u = v)
  <2>1. operators_voted \in Nat /\ operators_voted <= MaxOperators /\ MaxOperators \in Nat
    BY LimitsAssumption DEF TypeOK, VotesWellFormed
  <2>2. CASE operators_voted' = operators_voted /\ v \in 1 .. operators_voted
    BY <2>1, <2>2 DEF Index
  <2>3. CASE operators_voted' = operators_voted + 1 /\ v = operators_voted + 1
    BY <1>2, <2>1, <2>3 DEF Index
  <2> QED  BY <1>1, <1>2, <2>2, <2>3
<1>8. ASSUME NEW u \in Index, u <= operators_voted'
      PROVE  /\ operator_votes'[u].operator \in Operators
             /\ operator_votes'[u].ballot_index \in Index
             /\ operator_votes'[u].stake_weights = Weight[operator_votes'[u].operator]
             /\ is_valid(ballot_tallies'[operator_votes'[u].ballot_index].ballot)
  <2>1. /\ operator_votes'[u].operator \in Operators
        /\ operator_votes'[u].ballot_index \in Index
        /\ operator_votes'[u].stake_weights = Weight[operator_votes'[u].operator]
    BY <1>3, <1>6, <1>7, <1>8 DEF VotesWellFormed
  <2>2. PICK j \in Index : j = operator_votes'[u].ballot_index
    BY <2>1
  <2>3. operator_votes'[u].operator \in VotersFor(j)'
    BY <2>1, <2>2 DEF VotersFor
  <2> QED  BY <1>5, <2>1, <2>2, <2>3
<1>9. ASSUME NEW u \in Index, ~ (u <= operators_voted')
      PROVE  operator_votes'[u] = EmptyVote
  BY <1>6, <1>7, <1>9 DEF VotesWellFormed
<1>10. ASSUME NEW u \in 1 .. operators_voted', NEW w \in 1 .. operators_voted',
              operator_votes'[u].operator = operator_votes'[w].operator
       PROVE  u = w
  <2>1. u \in Index /\ w \in Index
    BY <1>7, LimitsAssumption DEF Index
  <2>2. \A x \in 1 .. operators_voted : operator_votes[x].operator = o => x = v
    BY <1>2 DEF VotesWellFormed
  <2>3. /\ u \in 1 .. operators_voted \/ u = v
        /\ w \in 1 .. operators_voted \/ w = v
    BY <1>7, <2>1, LimitsAssumption DEF Index, TypeOK
  <2> QED  BY <1>6, <1>10, <2>1, <2>2, <2>3 DEF VotesWellFormed
<1>11. (EmptyVote)' = EmptyVote
  BY DEF EmptyVote, ZeroWeights
<1> QED  BY <1>6, <1>7, <1>8, <1>9, <1>10 DEF VotesWellFormed, is_valid

LEMMA UniqueBallotsAfter ==
    ASSUME TypeOK, VotesWellFormed, TallyMatchesVotes, UniqueBallotsCounted,
           NEW o \in Operators, NEW r \in Roots, RecordVote(o, r)
    PROVE  UniqueBallotsCounted' /\ unique_ballots' \in Nat
<1> DEFINE v == First(VoteSlots(o))
           t == First(TallySlots(r))
           old == operator_votes[v]
           p == old.ballot_index
           a == IncrementOrCreate(r, Weight[o])
           created == IF TalliesFor(r) = {} THEN 1 ELSE 0
           Used == {i \in Index : VotersFor(i) # {}}
           Mid == Used \cup {t}
<1>1. /\ VoteSlots(o) # {} /\ TallySlots(r) # {}
      /\ \/ /\ old.operator = o
            /\ unique_ballots' = unique_ballots + created - (IF a[p].tally = 1 THEN 1 ELSE 0)
         \/ /\ old.operator # o
            /\ unique_ballots' = unique_ballots + created
  BY DEF RecordVote
<1>2. IF old.operator = o
      THEN p \in Index /\ o \in VotersFor(p) /\ \A i \in Index \ {p} : o \notin VotersFor(i)
      ELSE \A i \in Index : o \notin VotersFor(i)
  BY <1>1, VoterOfOne
<1>3. /\ t \in Index
      /\ created = IF t \in Used THEN 0 ELSE 1
  <2>1. /\ t \in Index
        /\ \/ TalliesFor(r) # {} /\ ballot_tallies[t].ballot = r
           \/ TalliesFor(r) = {} /\ ballot_tallies[t].ballot = ZeroRoot
    BY <1>1, TallySlotCases
  <2> QED  BY <2>1, RootsAssumption DEF TallyMatchesVotes, is_valid
<1>4. \A i \in Index : VotersFor(i)' = IF i = t THEN VotersFor(i) \cup {o} ELSE VotersFor(i) \ {o}
  BY VotersAfter
<1>5. \A i \in Index : is_valid(ballot_tallies'[i].ballot) <=> VotersFor(i)' # {}
  BY TallyInUseAfter
<1>6. unique_ballots = Cardinality(Used)
  <2>1. Used = {i \in Index : is_valid(ballot_tallies[i].ballot)}
    BY DEF TallyMatchesVotes
  <2> QED  BY <2>1 DEF UniqueBallotsCounted
<1>7. IsFiniteSet(Used) /\ Cardinality(Used) \in Nat
  BY IndexFacts, FS_Subset, FS_CardinalityType
<1>8. /\ IsFiniteSet(Mid) /\ Cardinality(Mid) = Cardinality(Used) + created
  <2> HIDE DEF Used, created, t
  <2> QED  BY <1>3, <1>7, FS_AddElement
<1>9. \A i \in Index : a[i].tally = ballot_tallies[i].tally + (IF i = t THEN 1 ELSE 0)
  <2>1. /\ a[t].tally = ballot_tallies[t].tally + 1
        /\ \A i \in Index \ {t} : a[i] = ballot_tallies[i]
    BY <1>1, AddedTally
  <2> QED  BY <2>1 DEF TypeOK, Tally
<1>10. \A i \in Index : /\ IsFiniteSet(VotersFor(i))
                        /\ Cardinality(VotersFor(i)) \in Nat
                        /\ ballot_tallies[i].tally = Cardinality(VotersFor(i))
  BY VotersSubset, OperatorsAssumption, FS_Subset, FS_CardinalityType DEF TallyMatchesVotes
<1> HIDE DEF v, t, a, created
<1>11. CASE old.operator # o
  <2>1. \A i \in Index : o \notin VotersFor(i)
    BY <1>2, <1>11
  <2>2. Mid = {i \in Index : is_valid(ballot_tallies'[i].ballot)}
    BY <1>3, <1>4, <1>5, <2>1
  <2>3. unique_ballots' = Cardinality(Mid)
    BY <1>1, <1>6, <1>8, <1>11
  <2> HIDE DEF Mid
  <2>4. Cardinality(Mid) \in Nat
    BY <1>8, FS_CardinalityType
  <2> QED  BY <2>2, <2>3, <2>4 DEF UniqueBallotsCounted, is_valid
<1>12. CASE old.operator = o
  <2>1. p \in Index /\ o \in VotersFor(p)
    BY <1>2, <1>12
  <2>2. \A i \in Index \ {p} : o \notin VotersFor(i)
    BY <1>2, <1>12
  <2> DEFINE After == {i \in Index : is_valid(ballot_tallies'[i].ballot)}
  <2>3. unique_ballots' = Cardinality(Mid) - (IF a[p].tally = 1 THEN 1 ELSE 0)
    <3>1. unique_ballots' = unique_ballots + created - (IF a[p].tally = 1 THEN 1 ELSE 0)
      BY <1>1, <1>12
    <3>2. unique_ballots + created = Cardinality(Mid)
      BY <1>6, <1>8
    <3>3. created \in Int /\ unique_ballots \in Int
      BY DEF created, TypeOK
    <3> HIDE DEF Mid, p
    <3> QED  BY <3>1, <3>2, <3>3
  <2>4. CASE a[p].tally = 1
    <3>1. p # t /\ VotersFor(p) = {o}
      <4>1. Cardinality(VotersFor(p)) >= 1
        BY <1>10, <2>1, FS_EmptySet
      <4>2. p # t /\ Cardinality(VotersFor(p)) = 1
        BY <1>9, <1>10, <2>1, <2>4, <4>1
      <4> QED  BY <1>10, <2>1, <4>2, FS_Singleton
    <3>2. After = Mid \ {p}
      BY <1>3, <1>4, <1>5, <2>1, <2>2, <3>1
    <3>3. p \in Mid
      BY <2>1
    <3> HIDE DEF Mid, After
    <3>4. Cardinality(Mid \ {p}) = Cardinality(Mid) - 1 /\ IsFiniteSet(Mid \ {p})
      BY <1>8, <3>3, FS_RemoveElement
    <3>5. unique_ballots' = Cardinality(After) /\ Cardinality(After) \in Nat
      BY <2>3, <2>4, <3>2, <3>4, FS_CardinalityType
    <3> QED  BY <3>5 DEF UniqueBallotsCounted, After, is_valid
  <2>5. CASE a[p].tally # 1
    <3>1. p = t \/ VotersFor(p) \ {o} # {}
      <4>1. SUFFICES ASSUME p # t, VotersFor(p) = {o}  PROVE FALSE
        BY <2>1
      <4>2. Cardinality(VotersFor(p)) = 1
        BY <4>1, FS_Singleton
      <4>3. a[p].tally = ballot_tallies[p].tally + 0
        BY <1>9, <2>1, <4>1
      <4> QED  BY <1>10, <2>1, <2>5, <4>2, <4>3
    <3>2. After = Mid
      BY <1>3, <1>4, <1>5, <2>1, <2>2, <3>1
    <3> HIDE DEF Mid, After
    <3>3. unique_ballots' = Cardinality(After) /\ Cardinality(After) \in Nat
      BY <1>8, <2>3, <2>5, <3>2, FS_CardinalityType
    <3> QED  BY <3>3 DEF UniqueBallotsCounted, After, is_valid
  <2> QED  BY <2>4, <2>5
<1> QED  BY <1>11, <1>12

-----------------------------------------------------------------------------
(* What tally_votes decides                                                *)

\* max_by_key finds a heaviest tally.
LEMMA MaxTallyIsHeaviest ==
    ASSUME NEW t \in [Index -> Tally], Index # {}, NEW B \in Nat,
           \A j \in Index : t[j].stake_weights[Stake] <= B
    PROVE  /\ MaxTally(t) \in Index
           /\ \A j \in Index : t[j].stake_weights[Stake] <= t[MaxTally(t)].stake_weights[Stake]
<1> DEFINE w(j) == t[j].stake_weights[Stake]
<1>1. \A j \in Index : w(j) \in Nat /\ w(j) <= B
  BY OperatorsAssumption DEF Tally, StakeWeights
<1>2. PICK k \in Index : \A j \in Index : w(j) <= w(k)
  <2> DEFINE Gaps == {B - w(j) : j \in Index}
  <2>1. Gaps \subseteq Nat /\ Gaps # {}
    BY <1>1
  <2>2. PICK g \in Gaps : \A h \in Gaps : g <= h
    <3> HIDE DEF Gaps
    <3> QED  BY <2>1, MinExists
  <2>3. PICK k \in Index : g = B - w(k)
    BY <2>2
  <2>4. \A j \in Index : B - w(k) <= B - w(j)
    BY <2>2, <2>3
  <2> HIDE DEF w
  <2> QED  BY <1>1, <2>4
<1>3. PICK i \in Index : \A j \in Index : w(j) < w(i) \/ (w(j) = w(i) /\ j <= i)
  <2> DEFINE Last == {MaxOperators - j : j \in {l \in Index : w(l) = w(k)}}
  <2>1. Last \subseteq Nat /\ Last # {}
    BY LimitsAssumption DEF Index
  <2>2. PICK g \in Last : \A h \in Last : g <= h
    <3> HIDE DEF Last
    <3> QED  BY <2>1, MinExists
  <2>3. PICK i \in Index : w(i) = w(k) /\ g = MaxOperators - i
    BY <2>2
  <2>4. \A j \in Index : w(j) = w(k) => MaxOperators - i <= MaxOperators - j
    BY <2>2, <2>3
  <2> HIDE DEF w
  <2>5. \A j \in Index : w(j) = w(k) => j <= i
    BY <2>4, LimitsAssumption DEF Index
  <2>6. ASSUME NEW j \in Index  PROVE w(j) < w(i) \/ (w(j) = w(i) /\ j <= i)
    BY <1>1, <1>2, <2>3, <2>5
  <2> QED  BY <2>6
<1>4. /\ MaxTally(t) \in Index
      /\ \A j \in Index : \/ w(j) < w(MaxTally(t))
                          \/ w(j) = w(MaxTally(t)) /\ j <= MaxTally(t)
  BY <1>3 DEF MaxTally
<1> QED  BY <1>1, <1>4

\* Two disjoint sets of operators cannot both hold two thirds of the stake.
LEMMA DisjointShares ==
    ASSUME NEW S \in SUBSET Operators, NEW T \in SUBSET Operators, S \cap T = {},
           TotalStake > 0,
           IsConsensusShare(WeightOf(Stake, S)), IsConsensusShare(WeightOf(Stake, T))
    PROVE  FALSE
<1>1. WeightOf(Stake, S) \in Nat /\ WeightOf(Stake, T) \in Nat
  BY StakeUnitsFinite, OperatorsAssumption
<1>2. WeightOf(Stake, S) + WeightOf(Stake, T) <= TotalStake
  BY WeightOfDisjoint, OperatorsAssumption DEF TotalStake
<1> QED  BY <1>1, <1>2, NoTwoShares

LEMMA VotersDisjoint ==
    ASSUME TypeOK, VotesWellFormed, NEW i \in Index, NEW j \in Index, i # j
    PROVE  VotersFor(i) \cap VotersFor(j) = {}
<1>1. \A u \in Index : operator_votes[u].operator \in Operators => u \in 1 .. operators_voted
  BY LimitsAssumption, OperatorsAssumption DEF VotesWellFormed, EmptyVote, Index, TypeOK
<1>2. \A u, v \in Index : /\ operator_votes[u].operator \in Operators
                          /\ operator_votes[u].operator = operator_votes[v].operator
                          => u = v
  BY <1>1 DEF VotesWellFormed
<1> QED  BY <1>2 DEF VotersFor

\* The facts about the tallies after a vote on which the decision rests: each
\* holds the stake of its voters, which are disjoint from every other tally's.
LEMMA StakeAfter ==
    ASSUME TypeOK, VotesWellFormed, TallyMatchesVotes, NEW o \in Operators, NEW r \in Roots,
           RecordVote(o, r)
    PROVE  /\ \A i \in Index :
                 /\ VotersFor(i)' \in SUBSET Operators
                 /\ ballot_tallies'[i].stake_weights[Stake] = WeightOf(Stake, VotersFor(i)')
                 /\ WeightOf(Stake, VotersFor(i)') \in Nat
                 /\ WeightOf(Stake, VotersFor(i)') <= TotalStake
           /\ \A i, j \in Index : i # j => VotersFor(i)' \cap VotersFor(j)' = {}
<1>1. ASSUME NEW i \in Index
      PROVE  /\ VotersFor(i)' \in SUBSET Operators
             /\ ballot_tallies'[i].stake_weights[Stake] = WeightOf(Stake, VotersFor(i)')
             /\ WeightOf(Stake, VotersFor(i)') \in Nat
             /\ WeightOf(Stake, VotersFor(i)') <= TotalStake
  <2>1. VotersFor(i)' \in SUBSET Operators
    BY DEF VotersFor
  <2>2. ballot_tallies'[i].stake_weights[Stake] = WeightOf(Stake, VotersFor(i)')
    BY TallyAfter, OperatorsAssumption
  <2>3. WeightOf(Stake, VotersFor(i)') \in Nat
    BY <2>1, StakeUnitsFinite, OperatorsAssumption
  <2>4. WeightOf(Stake, VotersFor(i)') + WeightOf(Stake, {}) <= TotalStake
    BY <2>1, WeightOfDisjoint, OperatorsAssumption DEF TotalStake
  <2>5. WeightOf(Stake, {}) = 0
    BY WeightOfEmpty, OperatorsAssumption
  <2> QED  BY <2>1, <2>2, <2>3, <2>4, <2>5
<1>2. ASSUME NEW i \in Index, NEW j \in Index, i # j
      PROVE  VotersFor(i)' \cap VotersFor(j)' = {}
  <2> DEFINE t == First(TallySlots(r))
  <2>1. /\ VotersFor(i)' = IF i = t THEN VotersFor(i) \cup {o} ELSE VotersFor(i) \ {o}
        /\ VotersFor(j)' = IF j = t THEN VotersFor(j) \cup {o} ELSE VotersFor(j) \ {o}
    BY VotersAfter
  <2>2. VotersFor(i) \cap VotersFor(j) = {}
    BY <1>2, VotersDisjoint
  <2> QED  BY <1>2, <2>1, <2>2
<1> QED  BY <1>1, <1>2

\* Once a vote has decided the epoch, a further vote leaves the winner, and the
\* winner keeps its voters, its tally and its two thirds.
LEMMA VoteAfterConsensus ==
    ASSUME TypeOK, VotesWellFormed, TallyMatchesVotes, WinnerHasTally, ConsensusIsKept,
           NEW o \in Operators, NEW r \in Roots, RecordVote(o, r), TallyVotes,
           slot_consensus_reached # NotReached
    PROVE  /\ UNCHANGED <<slot_consensus_reached, winning_ballot>>
           /\ \E k \in Index :
                 /\ ballot_tallies'[k].ballot = winning_ballot
                 /\ IsConsensusShare(ballot_tallies'[k].stake_weights[Stake])
<1> DEFINE t == First(TallySlots(r))
           v == First(VoteSlots(o))
<1>1. UNCHANGED <<slot_consensus_reached, winning_ballot>>
  BY DEF TallyVotes
<1>2. TotalStake > 0 /\ winning_ballot # ZeroRoot
  BY DEF ConsensusIsKept, WinnerHasTally, is_consensus_reached, is_valid
<1>3. PICK k \in Index : /\ ballot_tallies[k].ballot = winning_ballot
                        /\ IsConsensusShare(ballot_tallies[k].stake_weights[Stake])
  BY DEF ConsensusIsKept
<1>4. operator_votes[v].operator # o /\ VoteSlots(o) # {} /\ TallySlots(r) # {}
  BY DEF RecordVote, RevoteAllowed, is_consensus_reached
<1>5. o \notin VotersFor(k)
  BY <1>4, VoterOfOne
<1>6. /\ VotersFor(k)' = IF k = t THEN VotersFor(k) \cup {o} ELSE VotersFor(k)
      /\ VotersFor(k) # {} /\ VotersFor(k) \in SUBSET Operators
      /\ ballot_tallies[k].stake_weights[Stake] = WeightOf(Stake, VotersFor(k))
  BY <1>2, <1>3, <1>5, VotersAfter, VotersSubset, OperatorsAssumption
     DEF TallyMatchesVotes, is_valid
<1>7. ballot_tallies'[k].ballot = winning_ballot
  <2>1. ballot_tallies'[k].ballot = IF VotersFor(k)' = {} THEN ZeroRoot
                                    ELSE IF k = t THEN r ELSE ballot_tallies[k].ballot
    BY TallyAfter
  <2>2. ballot_tallies[t].ballot \in {r, ZeroRoot}
    BY <1>4, TallySlotCases
  <2> HIDE DEF t
  <2> QED  BY <1>2, <1>3, <1>6, <2>1, <2>2
<1>8. WeightOf(Stake, VotersFor(k)) <= WeightOf(Stake, VotersFor(k)')
  <2>1. WeightOf(Stake, VotersFor(k)) \in Nat /\ Weight[o][Stake] \in Nat
    BY <1>6, StakeUnitsFinite, WeightOfSingleton, OperatorsAssumption
  <2>2. CASE k = t
    <3>1. WeightOf(Stake, VotersFor(k) \cup {o}) = WeightOf(Stake, VotersFor(k)) + Weight[o][Stake]
      BY <1>5, <1>6, WeightOfAdd, OperatorsAssumption
    <3> HIDE DEF t
    <3> QED  BY <1>6, <2>1, <2>2, <3>1
  <2>3. CASE k # t
    <3> HIDE DEF t
    <3> QED  BY <1>6, <2>1, <2>3
  <2> QED  BY <2>2, <2>3
<1>9. IsConsensusShare(ballot_tallies'[k].stake_weights[Stake])
  <2>1. /\ ballot_tallies'[k].stake_weights[Stake] = WeightOf(Stake, VotersFor(k)')
        /\ WeightOf(Stake, VotersFor(k)') \in Nat
    BY StakeAfter
  <2>2. WeightOf(Stake, VotersFor(k)) \in Nat
    BY <1>6, StakeUnitsFinite, OperatorsAssumption
  <2> QED  BY <1>2, <1>3, <1>6, <1>8, <2>1, <2>2, ShareMonotone
<1> QED  BY <1>1, <1>7, <1>9

\* tally_votes on an undecided box: it takes the ballot that reaches two thirds
\* if there is one, and otherwise no ballot has reached them.
LEMMA VoteBeforeConsensus ==
    ASSUME TypeOK, VotesWellFormed, TallyMatchesVotes,
           NEW o \in Operators, NEW r \in Roots, RecordVote(o, r), TallyVotes,
           slot_consensus_reached = NotReached, winning_ballot = ZeroRoot
    PROVE  /\ TotalStake > 0
           /\ \/ /\ slot_consensus_reached' = slot
                 /\ \E k \in Index :
                       /\ ballot_tallies'[k].ballot = winning_ballot'
                       /\ winning_ballot' \in Roots
                       /\ IsConsensusShare(ballot_tallies'[k].stake_weights[Stake])
              \/ /\ UNCHANGED <<slot_consensus_reached, winning_ballot>>
                 /\ \A i \in Index : ~ IsConsensusShare(ballot_tallies'[i].stake_weights[Stake])
<1> DEFINE k == MaxTally(ballot_tallies')
           W(i) == ballot_tallies'[i].stake_weights[Stake]
<1>1. /\ TotalStake > 0
      /\ IF IsConsensusShare(W(k))
         THEN slot_consensus_reached' = slot /\ winning_ballot' = ballot_tallies'[k].ballot
         ELSE UNCHANGED <<slot_consensus_reached, winning_ballot>>
  BY DEF TallyVotes, is_valid
<1>2. First(TallySlots(r)) \in Index
  BY TallySlotCases DEF RecordVote
<1>3. /\ ballot_tallies' \in [Index -> Tally]
      /\ \A i \in Index : W(i) \in Nat /\ W(i) <= TotalStake
  BY <1>2, TallyAfter, StakeAfter
<1>4. k \in Index /\ \A j \in Index : W(j) <= W(k)
  <2>1. Index # {}
    BY <1>2
  <2> QED  BY <1>3, <2>1, MaxTallyIsHeaviest, TotalStakeType
<1>5. CASE IsConsensusShare(W(k))
  <2>1. W(k) # 0
    BY <1>1, <1>5, ZeroIsNoShare
  <2>3. PICK j \in Index : j = k
    BY <1>4
  <2>4. VotersFor(j)' # {}
    <3>1. W(j) = WeightOf(Stake, VotersFor(j)')
      BY TallyAfter, OperatorsAssumption
    <3>2. WeightOf(Stake, {}) = 0
      BY WeightOfEmpty, OperatorsAssumption
    <3> QED  BY <2>1, <2>3, <3>1, <3>2
  <2>5. ballot_tallies'[j].ballot # ZeroRoot /\ ballot_tallies'[j].ballot \in Roots \cup {ZeroRoot}
    BY <1>3, <2>4, TallyInUseAfter DEF is_valid, Tally
  <2> QED  BY <1>1, <1>5, <2>3, <2>5
<1>6. CASE ~ IsConsensusShare(W(k))
  <2>1. ASSUME NEW i \in Index, IsConsensusShare(W(i))  PROVE FALSE
    BY <1>1, <1>3, <1>4, <1>6, <2>1, ShareMonotone
  <2> QED  BY <1>1, <1>6, <2>1
<1> QED  BY <1>5, <1>6

-----------------------------------------------------------------------------
(* The inductive invariant                                                 *)

\* No conjunct but the type invariant is inductive alone: tallies rest on the
\* votes, the decision on the tallies, and the epoch state and the uploads on
\* the decision.
IInv ==
    /\ TypeOK
    /\ VotesWellFormed
    /\ TallyMatchesVotes
    /\ UniqueBallotsCounted
    /\ WinnerHasTally
    /\ SupermajorityWins
    /\ ConsensusIsKept
    /\ EpochStateAgrees
    /\ UploadsMatchWinner

\* A fresh ballot box satisfies the invariant.
LEMMA InitInv == Init => IInv
<1> SUFFICES ASSUME Init  PROVE IInv
  OBVIOUS
<1>1. TypeOK
  BY LimitsAssumption
     DEF Init, TypeOK, Vote, Tally, EmptyVote, DefaultTally, ZeroWeights, StakeWeights
<1>2. \A i \in Index : VotersFor(i) = {}
  BY IndexFacts DEF Init, VotersFor, EmptyVote
<1>3. VotesWellFormed
  BY LimitsAssumption DEF Init, VotesWellFormed, Index
<1>4. TallyMatchesVotes
  <2>1. \A i \in Index : ballot_tallies[i] = DefaultTally
    BY DEF Init
  <2>2. Cardinality({}) = 0 /\ \A c \in Components : WeightOf(c, {}) = 0
    BY FS_EmptySet, WeightOfEmpty
  <2> QED  BY <1>2, <2>1, <2>2 DEF TallyMatchesVotes, DefaultTally, ZeroWeights, is_valid
<1>5. UniqueBallotsCounted
  <2>1. {i \in Index : is_valid(ballot_tallies[i].ballot)} = {}
    BY DEF Init, DefaultTally, is_valid
  <2>2. Cardinality({}) = 0
    BY FS_EmptySet
  <2> QED  BY <2>1, <2>2 DEF UniqueBallotsCounted, Init
<1>6. SupermajorityWins
  <2>1. \A i \in Index : ballot_tallies[i].stake_weights[Stake] = 0
    BY OperatorsAssumption DEF Init, DefaultTally, ZeroWeights
  <2> QED  BY <2>1, ZeroIsNoShare DEF SupermajorityWins
<1>7. WinnerHasTally /\ ConsensusIsKept /\ EpochStateAgrees /\ UploadsMatchWinner
  BY DEF Init, WinnerHasTally, ConsensusIsKept, EpochStateAgrees, UploadsMatchWinner,
         is_consensus_reached, tie_breaker_set, is_valid
<1> QED  BY <1>1, <1>3, <1>4, <1>5, <1>6, <1>7 DEF IInv

\* process_cast_vote keeps the invariant.
LEMMA CastVoteInv ==
    ASSUME IInv, NEW o \in Operators, NEW r \in Roots \cup {ZeroRoot}, CastVote(o, r)
    PROVE  IInv'
<1> USE DEF IInv
<1>1. r \in Roots /\ RecordVote(o, r) /\ TallyVotes
  BY DEF CastVote, is_valid
<1>2. VotesWellFormed' /\ operator_votes' \in [Index -> Vote] /\ operators_voted' \in Nat
  BY <1>1, VotesWellFormedAfter
<1>3. TallyMatchesVotes'
  BY <1>1, TallyMatchesVotesAfter
<1>4. UniqueBallotsCounted' /\ unique_ballots' \in Nat
  BY <1>1, UniqueBallotsAfter
<1>5. ballot_tallies' \in [Index -> Tally]
  <2>1. First(TallySlots(r)) \in Index
    BY <1>1, TallySlotCases DEF RecordVote
  <2> QED  BY <1>1, <2>1, TallyAfter
<1>6. \/ /\ slot_consensus_reached # NotReached
         /\ UNCHANGED <<slot_consensus_reached, winning_ballot>>
         /\ winning_ballot \in Roots
         /\ TotalStake > 0
         /\ \E k \in Index : /\ ballot_tallies'[k].ballot = winning_ballot'
                             /\ IsConsensusShare(ballot_tallies'[k].stake_weights[Stake])
      \/ /\ slot_consensus_reached = NotReached /\ winning_ballot = ZeroRoot
         /\ slot_consensus_reached' = slot
         /\ winning_ballot' \in Roots
         /\ TotalStake > 0
         /\ \E k \in Index : /\ ballot_tallies'[k].ballot = winning_ballot'
                             /\ IsConsensusShare(ballot_tallies'[k].stake_weights[Stake])
      \/ /\ slot_consensus_reached = NotReached /\ winning_ballot = ZeroRoot
         /\ UNCHANGED <<slot_consensus_reached, winning_ballot>>
         /\ \A i \in Index : ~ IsConsensusShare(ballot_tallies'[i].stake_weights[Stake])
  <2>1. CASE slot_consensus_reached # NotReached
    <3>1. winning_ballot \in Roots /\ TotalStake > 0
      BY <2>1 DEF TypeOK, WinnerHasTally, ConsensusIsKept, is_consensus_reached, is_valid
    <3> QED  BY <1>1, <2>1, <3>1, VoteAfterConsensus
  <2>2. CASE slot_consensus_reached = NotReached
    <3>1. winning_ballot = ZeroRoot
      BY <2>2 DEF CastVote, is_voting_valid, tie_breaker_set, is_valid
    <3> QED  BY <1>1, <2>2, <3>1, VoteBeforeConsensus
  <2> QED  BY <2>1, <2>2
<1>7. slot_consensus_reached' # NotReached \/ winning_ballot' # ZeroRoot
        => \E k \in Index : /\ ballot_tallies'[k].ballot = winning_ballot'
                            /\ winning_ballot' \in Roots
  BY <1>6
<1>8. WinnerHasTally'
  BY <1>7, RootsAssumption DEF WinnerHasTally, is_consensus_reached, is_valid, TalliesFor
<1>9. ConsensusIsKept'
  BY <1>6 DEF ConsensusIsKept, TotalStake
<1>10. SupermajorityWins'
  <2> SUFFICES ASSUME NEW i \in Index, TotalStake > 0,
                      IsConsensusShare(ballot_tallies'[i].stake_weights[Stake])
               PROVE  /\ slot_consensus_reached' # NotReached
                      /\ winning_ballot' = ballot_tallies'[i].ballot
    BY DEF SupermajorityWins, TotalStake, IsConsensusShare
  <2>1. PICK k \in Index : /\ ballot_tallies'[k].ballot = winning_ballot'
                          /\ IsConsensusShare(ballot_tallies'[k].stake_weights[Stake])
    BY <1>6
  <2>2. i = k
    <3>1. SUFFICES ASSUME i # k  PROVE FALSE
      OBVIOUS
    <3>2. /\ VotersFor(i)' \in SUBSET Operators /\ VotersFor(k)' \in SUBSET Operators
          /\ VotersFor(i)' \cap VotersFor(k)' = {}
          /\ ballot_tallies'[i].stake_weights[Stake] = WeightOf(Stake, VotersFor(i)')
          /\ ballot_tallies'[k].stake_weights[Stake] = WeightOf(Stake, VotersFor(k)')
      BY <1>1, <3>1, StakeAfter
    <3> QED  BY <2>1, <3>2, DisjointShares
  <2>3. slot_consensus_reached' # NotReached
    BY <1>6 DEF TypeOK
  <2> QED  BY <2>1, <2>2, <2>3
<1>11. /\ epoch_state' = [(IF is_consensus_reached' /\ epoch_state.slot_consensus_reached = NotReached
                            THEN [epoch_state EXCEPT !.slot_consensus_reached = slot]
                            ELSE epoch_state) EXCEPT !.voting_tally = operators_voted']
       /\ UNCHANGED <<uploads, config, slot>>
  BY DEF CastVote, MarkConsensus
<1>12. EpochStateAgrees'
  BY <1>2, <1>6, <1>11, RootsAssumption
     DEF EpochStateAgrees, TypeOK, is_consensus_reached, tie_breaker_set, is_valid
<1>13. UploadsMatchWinner'
  BY <1>6, <1>11 DEF UploadsMatchWinner, is_valid
<1>14. TypeOK'
  <2>1. /\ slot_consensus_reached' \in Nat \cup {NotReached}
        /\ winning_ballot' \in Roots \cup {ZeroRoot}
    BY <1>6 DEF TypeOK
  <2>2. epoch_state' \in [slot_consensus_reached : Nat \cup {NotReached},
                          was_tie_breaker_set : BOOLEAN, voting_tally : Nat, upload_tally : Nat]
    <3>1. slot \in Nat /\ operators_voted' \in Nat
      BY <1>2, LimitsAssumption DEF TypeOK
    <3>2. epoch_state \in [slot_consensus_reached : Nat \cup {NotReached},
                           was_tie_breaker_set : BOOLEAN, voting_tally : Nat, upload_tally : Nat]
      BY DEF TypeOK
    <3> QED  BY <1>11, <3>1, <3>2
  <2>3. /\ uploads' \subseteq Roots \cup {ZeroRoot}
        /\ config' \in [valid_slots_after_consensus : ValidSlots, epochs_before_stall : StallEpochs]
        /\ slot' \in 0 .. MaxSlot
    BY <1>11 DEF TypeOK
  <2> QED  BY <1>2, <1>4, <1>5, <2>1, <2>2, <2>3 DEF TypeOK
<1> QED  BY <1>2, <1>3, <1>4, <1>8, <1>9, <1>10, <1>12, <1>13, <1>14

\* process_admin_set_tie_breaker keeps the invariant: it only runs on an
\* undecided box, so no ballot has two thirds, and it picks a tallied root.
LEMMA TieBreakerInv ==
    ASSUME IInv, NEW r \in Roots \cup {ZeroRoot}, AdminSetTieBreaker(r)
    PROVE  IInv'
<1> USE DEF IInv
<1>1. /\ slot_consensus_reached = NotReached /\ winning_ballot = ZeroRoot
      /\ r \in Roots
      /\ \E i \in Index : ballot_tallies[i].ballot = r
      /\ winning_ballot' = r
      /\ UNCHANGED <<operator_votes, ballot_tallies, operators_voted, unique_ballots,
                     slot_consensus_reached, uploads, config, slot>>
  BY DEF AdminSetTieBreaker, TieBreakerAllowed, is_consensus_reached, is_valid, has_ballot
<1>2. epoch_state' = [epoch_state EXCEPT !.slot_consensus_reached = slot,
                                         !.was_tie_breaker_set = TRUE]
  BY <1>1 DEF AdminSetTieBreaker, EpochStateAgrees, is_consensus_reached, is_valid
<1>3. TypeOK'
  <2>1. slot \in Nat
    BY LimitsAssumption DEF TypeOK
  <2> QED  BY <1>1, <1>2, <2>1 DEF TypeOK
<1>4. /\ VotesWellFormed' /\ TallyMatchesVotes' /\ UniqueBallotsCounted'
  <2>1. VotesWellFormed'
    BY <1>1 DEF VotesWellFormed, is_valid
  <2>2. TallyMatchesVotes'
    <3>1. TallyMatchesVotes /\ UNCHANGED <<operator_votes, ballot_tallies>>
      BY <1>1
    <3> HIDE DEF IInv
    <3> QED  BY <3>1 DEF TallyMatchesVotes, is_valid, VotersFor
  <2>3. UniqueBallotsCounted'
    BY <1>1 DEF UniqueBallotsCounted, is_valid
  <2> QED  BY <2>1, <2>2, <2>3
<1>5. WinnerHasTally' /\ ConsensusIsKept' /\ UploadsMatchWinner'
  BY <1>1, RootsAssumption DEF WinnerHasTally, ConsensusIsKept, UploadsMatchWinner, is_valid,
         is_consensus_reached, TalliesFor
<1>6. SupermajorityWins'
  BY <1>1 DEF SupermajorityWins, IsConsensusShare, TotalStake
<1>7. EpochStateAgrees'
  <2>1. slot \in Nat
    BY LimitsAssumption DEF TypeOK
  <2> QED  BY <1>1, <1>2, <2>1, RootsAssumption
           DEF EpochStateAgrees, TypeOK, is_consensus_reached, tie_breaker_set, is_valid
<1> QED  BY <1>3, <1>4, <1>5, <1>6, <1>7

\* Steps that leave the ballot box alone keep what the invariant says of it.
LEMMA BoxUnchangedInv ==
    ASSUME IInv, UNCHANGED box
    PROVE  /\ VotesWellFormed' /\ TallyMatchesVotes' /\ UniqueBallotsCounted'
           /\ WinnerHasTally' /\ SupermajorityWins' /\ ConsensusIsKept'
           /\ (is_consensus_reached' <=> is_consensus_reached)
           /\ (tie_breaker_set' <=> tie_breaker_set)
<1>1. UNCHANGED <<operator_votes, ballot_tallies, operators_voted, unique_ballots,
                  slot_consensus_reached, winning_ballot>>
  BY DEF box
<1>2. VotesWellFormed'
  BY <1>1 DEF IInv, VotesWellFormed, is_valid
<1>3. TallyMatchesVotes'
  BY <1>1 DEF IInv, TallyMatchesVotes, is_valid, VotersFor
<1>4. UniqueBallotsCounted'
  BY <1>1 DEF IInv, UniqueBallotsCounted, is_valid
<1>5. (is_consensus_reached' <=> is_consensus_reached) /\ (tie_breaker_set' <=> tie_breaker_set)
  BY <1>1 DEF is_consensus_reached, tie_breaker_set, is_valid
<1>6. WinnerHasTally'
  BY <1>1 DEF IInv, WinnerHasTally, is_consensus_reached, is_valid, TalliesFor
<1>7. SupermajorityWins'
  BY <1>1 DEF IInv, SupermajorityWins, IsConsensusShare, TotalStake
<1>8. ConsensusIsKept'
  BY <1>1 DEF IInv, ConsensusIsKept, TalliesFor, IsConsensusShare, TotalStake, is_valid
<1> QED  BY <1>2, <1>3, <1>4, <1>5, <1>6, <1>7, <1>8

\* process_set_merkle_root keeps the invariant.
LEMMA SetMerkleRootInv ==
    ASSUME IInv, SetMerkleRoot
    PROVE  IInv'
<1> USE DEF IInv
<1>1. /\ is_valid(winning_ballot) /\ is_consensus_reached
      /\ uploads' = uploads \cup {winning_ballot}
      /\ epoch_state' = [epoch_state EXCEPT !.upload_tally = @ + 1]
      /\ UNCHANGED <<box, config, slot>>
  BY DEF SetMerkleRoot, MerkleRootUploadAllowed, WinnerHasTally
<1>2. TypeOK'
  BY <1>1 DEF TypeOK, box
<1>3. UploadsMatchWinner'
  BY <1>1 DEF UploadsMatchWinner, box, is_valid
<1>4. EpochStateAgrees'
  BY <1>1, BoxUnchangedInv DEF EpochStateAgrees, TypeOK, box
<1> QED  BY <1>1, <1>2, <1>3, <1>4, BoxUnchangedInv

\* The clock, the admin's parameters and stuttering keep the invariant.
LEMMA EnvironmentInv ==
    ASSUME IInv, AdminSetParameters \/ Tick \/ UNCHANGED vars
    PROVE  IInv'
<1> USE DEF IInv
<1>1. UNCHANGED <<box, epoch_state, uploads>>
  BY DEF AdminSetParameters, Tick, vars
<1>2. TypeOK'
  BY <1>1, LimitsAssumption DEF TypeOK, box, AdminSetParameters, Tick, vars
<1>3. UploadsMatchWinner' /\ EpochStateAgrees'
  BY <1>1, BoxUnchangedInv DEF UploadsMatchWinner, EpochStateAgrees, box, is_valid
<1> QED  BY <1>1, <1>2, <1>3, BoxUnchangedInv

\* Every reachable state of a ballot box satisfies the invariant.
THEOREM BallotBoxInvariant == Spec => []IInv
<1>1. Init => IInv
  BY InitInv
<1>2. IInv /\ [Next]_vars => IInv'
  <2> SUFFICES ASSUME IInv, [Next]_vars  PROVE IInv'
    OBVIOUS
  <2>1. ASSUME NEW o \in Operators, NEW r \in Roots \cup {ZeroRoot}, CastVote(o, r)
        PROVE  IInv'
    BY <2>1, CastVoteInv
  <2>2. ASSUME NEW r \in Roots \cup {ZeroRoot}, AdminSetTieBreaker(r)
        PROVE  IInv'
    BY <2>2, TieBreakerInv
  <2>3. CASE SetMerkleRoot
    BY <2>3, SetMerkleRootInv
  <2>4. CASE AdminSetParameters \/ Tick \/ UNCHANGED vars
    BY <2>4, EnvironmentInv
  <2> QED  BY <2>1, <2>2, <2>3, <2>4 DEF Next
<1> QED  BY <1>1, <1>2, PTL DEF Spec

\* Every tally of every reachable ballot box is the count and weight of the
\* votes that point at it.
THEOREM TalliesAreExact == Spec => []TallyMatchesVotes
<1>1. IInv => TallyMatchesVotes
  BY DEF IInv
<1> QED  BY <1>1, BallotBoxInvariant, PTL

\* cast_vote: the vote array is filled from the front, with one vote of each
\* operator, and no vote points at a tally that was wiped or reused.
THEOREM VotesAreWellFormed == Spec => []VotesWellFormed
<1>1. IInv => VotesWellFormed
  BY DEF IInv
<1> QED  BY <1>1, BallotBoxInvariant, PTL

\* The hand-kept unique_ballots is the number of tallies in use.
THEOREM BallotsAreCounted == Spec => []UniqueBallotsCounted
<1>1. IInv => UniqueBallotsCounted
  BY DEF IInv
<1> QED  BY <1>1, BallotBoxInvariant, PTL

\* tally_votes: a ballot with two thirds of the stake is the recorded winner.
THEOREM ConsensusIsSound == Spec => []SupermajorityWins
<1>1. IInv => SupermajorityWins
  BY DEF IInv
<1> QED  BY <1>1, BallotBoxInvariant, PTL

\* Late votes never take a recorded winner's two thirds away.
THEOREM ConsensusLasts == Spec => []ConsensusIsKept
<1>1. IInv => ConsensusIsKept
  BY DEF IInv
<1> QED  BY <1>1, BallotBoxInvariant, PTL

\* get_winning_ballot_tally finds a tally for every winner.
THEOREM WinnersHaveTallies == Spec => []WinnerHasTally
<1>1. IInv => WinnerHasTally
  BY DEF IInv
<1> QED  BY <1>1, BallotBoxInvariant, PTL

\* As soon as somebody voted, a tie breaker has a root to choose.
THEOREM StallsAreResolvable == Spec => []StallIsResolvable
<1>1. IInv => StallIsResolvable
  <2> SUFFICES ASSUME IInv, operators_voted > 0  PROVE \E r \in Roots : has_ballot(r)
    BY DEF StallIsResolvable
  <2>1. 1 \in Index /\ 1 <= operators_voted
    BY LimitsAssumption DEF IInv, TypeOK, VotesWellFormed, Index
  <2>2. PICK i \in Index : is_valid(ballot_tallies[i].ballot)
    BY <2>1 DEF IInv, VotesWellFormed
  <2>3. ballot_tallies[i].ballot \in Roots
    BY <2>2 DEF IInv, TypeOK, Tally, is_valid
  <2> QED  BY <2>2, <2>3 DEF has_ballot
<1> QED  BY <1>1, BallotBoxInvariant, PTL

\* Everything cast_vote keeps by hand agrees with the votes.
THEOREM VotesAreAlwaysTallied == Spec => []VotesAreTallied
<1>1. IInv => VotesAreTallied
  BY DEF IInv, VotesAreTallied
<1> QED  BY <1>1, BallotBoxInvariant, PTL

\* A consensus is recognised, is kept, and can be forced when it is missing.
THEOREM ConsensusAlwaysHolds == Spec => []ConsensusHolds
<1>1. SupermajorityWins /\ ConsensusIsKept /\ WinnerHasTally /\ StallIsResolvable
        => ConsensusHolds
  BY DEF ConsensusHolds
<1> QED  BY <1>1, ConsensusIsSound, ConsensusLasts, WinnersHaveTallies, StallsAreResolvable, PTL

\* The decision of an epoch never changes once it is made.
THEOREM DecisionsAreFinal == Spec => DecisionIsFinal
<1> DEFINE Final == is_consensus_reached => UNCHANGED <<slot_consensus_reached, winning_ballot,
                                                       epoch_state.slot_consensus_reached>>
<1>1. IInv /\ [Next]_vars => [Final]_vars
  <2> SUFFICES ASSUME IInv, [Next]_vars, is_consensus_reached
               PROVE  UNCHANGED <<slot_consensus_reached, winning_ballot,
                                  epoch_state.slot_consensus_reached>>
    OBVIOUS
  <2>1. ASSUME NEW o \in Operators, NEW r \in Roots \cup {ZeroRoot}, CastVote(o, r)
        PROVE  UNCHANGED <<slot_consensus_reached, winning_ballot,
                           epoch_state.slot_consensus_reached>>
    <3>1. slot_consensus_reached # NotReached
      BY <2>1 DEF CastVote, is_voting_valid, tie_breaker_set, is_consensus_reached
    <3>2. UNCHANGED <<slot_consensus_reached, winning_ballot>>
      BY <2>1, <3>1 DEF CastVote, TallyVotes
    <3>3. epoch_state.slot_consensus_reached # NotReached
      BY DEF IInv, EpochStateAgrees
    <3>4. epoch_state' = [epoch_state EXCEPT !.voting_tally = operators_voted']
      BY <2>1, <3>3 DEF CastVote, MarkConsensus
    <3> QED  BY <3>2, <3>4 DEF IInv, TypeOK
  <2>2. ASSUME NEW r \in Roots \cup {ZeroRoot}, AdminSetTieBreaker(r)  PROVE FALSE
    BY <2>2 DEF AdminSetTieBreaker, TieBreakerAllowed
  <2>3. CASE SetMerkleRoot
    BY <2>3 DEF SetMerkleRoot, box, IInv, TypeOK
  <2>4. CASE AdminSetParameters \/ Tick \/ UNCHANGED vars
    BY <2>4 DEF AdminSetParameters, Tick, vars, box
  <2> QED  BY <2>1, <2>2, <2>3, <2>4 DEF Next
<1> QED  BY <1>1, BallotBoxInvariant, PTL DEF Spec, DecisionIsFinal

\* After the decision recorded votes are frozen, and after a tie breaker the
\* whole box is.
THEOREM VotesAreFrozen == Spec => VotesFrozen
<1> DEFINE Frozen == /\ \A v \in 1 .. operators_voted : operator_votes'[v] = operator_votes[v]
                     /\ tie_breaker_set => UNCHANGED box
<1>1. IInv /\ [Next]_vars => [is_consensus_reached => Frozen]_vars
  <2> SUFFICES ASSUME IInv, [Next]_vars, is_consensus_reached  PROVE Frozen
    OBVIOUS
  <2>1. ASSUME NEW o \in Operators, NEW r \in Roots \cup {ZeroRoot}, CastVote(o, r)
        PROVE  Frozen
    <3> DEFINE w == First(VoteSlots(o))
               new == [operator |-> o, ballot_index |-> First(TallySlots(r)),
                       stake_weights |-> Weight[o]]
    <3>1. ~ tie_breaker_set
      BY <2>1 DEF CastVote, is_voting_valid
    <3>2. /\ VoteSlots(o) # {} /\ operator_votes[w].operator # o
          /\ operator_votes' = [operator_votes EXCEPT ![w] = new]
      BY <2>1 DEF CastVote, RecordVote, RevoteAllowed
    <3>3. w = operators_voted + 1
      BY <3>2, VoteSlotCases DEF IInv
    <3> HIDE DEF w, new
    <3>4. \A v \in 1 .. operators_voted : v \in Index /\ v # w
      BY <3>3, LimitsAssumption DEF IInv, TypeOK, VotesWellFormed, Index
    <3> QED  BY <3>1, <3>2, <3>4 DEF IInv, TypeOK
  <2>2. ASSUME NEW r \in Roots \cup {ZeroRoot}, AdminSetTieBreaker(r)  PROVE FALSE
    BY <2>2 DEF AdminSetTieBreaker, TieBreakerAllowed
  <2>3. CASE SetMerkleRoot \/ AdminSetParameters \/ Tick \/ UNCHANGED vars
    BY <2>3 DEF SetMerkleRoot, AdminSetParameters, Tick, vars, box
  <2> QED  BY <2>1, <2>2, <2>3 DEF Next
<1> QED  BY <1>1, BallotBoxInvariant, PTL DEF Spec, VotesFrozen

\* The epoch state's copy of the decision follows the ballot box.
THEOREM DecisionIsCopied == Spec => []EpochStateAgrees
<1>1. IInv => EpochStateAgrees
  BY DEF IInv
<1> QED  BY <1>1, BallotBoxInvariant, PTL

\* set_merkle_root: all uploads were verified against the one winner.
THEOREM UploadsAgree == Spec => []UploadsMatchWinner
<1>1. IInv => UploadsMatchWinner
  BY DEF IInv
<1> QED  BY <1>1, BallotBoxInvariant, PTL

-----------------------------------------------------------------------------
(* Routing that reads the votes                                            *)

\* Under routing the ballot box behaves as it does alone, so that all of the
\* above holds while rewards are routed.
THEOREM RoutingOnlyReads == CombinedSpec => Spec
<1>1. CombinedInit => Init
  BY DEF CombinedInit
<1>2. [CombinedNext]_all_vars => [Next]_vars
  BY DEF CombinedNext, Voting, Routing, all_vars
<1> QED  BY <1>1, <1>2, PTL DEF CombinedSpec, Spec

\* The router account has its fields, and rewards were routed only after the
\* end of a vote that nobody has reopened.
HasTotal(b) == "total" \in DOMAIN b /\ b = [f \in DOMAIN b |-> b[f]]
VotingIsOver == base.total > 0 /\ ~ raised => ~ is_voting_valid
RoutedInv == HasTotal(base) /\ VotingIsOver

\* While a decided vote is over, votes and winner stay, and it stays over
\* unless the admin gives voters more time.
LEMMA OverStaysOver ==
    ASSUME TypeOK, [Next]_vars, ~ is_voting_valid
    PROVE  /\ UNCHANGED box
           /\ ~ (config'.valid_slots_after_consensus > config.valid_slots_after_consensus)
              => ~ is_voting_valid'
<1>1. is_consensus_reached
  BY DEF is_voting_valid, tie_breaker_set, is_consensus_reached
<1>2. UNCHANGED box /\ slot' \in {slot, slot + 1}
  <2>1. ASSUME NEW o, NEW r, CastVote(o, r)  PROVE FALSE
    BY <2>1 DEF CastVote
  <2>2. ASSUME NEW r, AdminSetTieBreaker(r)  PROVE FALSE
    BY <1>1, <2>2 DEF AdminSetTieBreaker, TieBreakerAllowed
  <2>3. CASE SetMerkleRoot \/ AdminSetParameters \/ Tick \/ UNCHANGED vars
    BY <2>3 DEF SetMerkleRoot, AdminSetParameters, Tick, vars
  <2> QED  BY <2>1, <2>2, <2>3 DEF Next
<1>3. ASSUME ~ (config'.valid_slots_after_consensus > config.valid_slots_after_consensus)
      PROVE  ~ is_voting_valid'
  <2>1. UNCHANGED <<slot_consensus_reached, winning_ballot>>
    BY <1>2 DEF box
  <2>2. CASE tie_breaker_set
    BY <2>1, <2>2 DEF is_voting_valid, tie_breaker_set
  <2>3. CASE ~ tie_breaker_set
    <3>1. ~ (slot <= slot_consensus_reached + config.valid_slots_after_consensus)
      BY <2>3 DEF is_voting_valid
    <3>2. config'.valid_slots_after_consensus \in Nat
      <4>1. config' \in [valid_slots_after_consensus : ValidSlots, epochs_before_stall : StallEpochs]
        <5>1. CASE AdminSetParameters
          BY <5>1 DEF AdminSetParameters
        <5>2. CASE config' = config
          BY <5>2 DEF TypeOK
        <5>3. ASSUME NEW o, NEW r, CastVote(o, r) \/ AdminSetTieBreaker(r)  PROVE config' = config
          BY <5>3 DEF CastVote, AdminSetTieBreaker
        <5> QED  BY <5>1, <5>2, <5>3 DEF Next, SetMerkleRoot, Tick, vars
      <4> QED  BY <4>1, LimitsAssumption
    <3>3. /\ slot \in Nat /\ slot_consensus_reached \in Nat
          /\ config.valid_slots_after_consensus \in Nat
      <4>1. slot_consensus_reached # NotReached
        BY <1>1, <2>3, Zenon DEF tie_breaker_set, is_consensus_reached
      <4>2. slot_consensus_reached \in Nat \cup {NotReached} /\ slot \in Nat
        BY LimitsAssumption DEF TypeOK
      <4>3. config.valid_slots_after_consensus \in Nat
        BY LimitsAssumption DEF TypeOK
      <4> QED  BY <4>1, <4>2, <4>3
    <3>4. ~ (slot' <= slot_consensus_reached + config'.valid_slots_after_consensus)
      BY <1>2, <1>3, <3>1, <3>2, <3>3
    <3> QED  BY <1>1, <2>1, <3>4 DEF is_voting_valid, is_consensus_reached
  <2> QED  BY <2>2, <2>3
<1> QED  BY <1>2, <1>3

\* Routing keeps the fields of the account.
LEMMA RouteKeepsFields ==
    ASSUME NEW b, HasTotal(b), NEW k
    PROVE  HasTotal(R!RouteSlice(R!StartBasePass(b), k))
<1>1. \A c, f, e : HasTotal(c) => HasTotal([c EXCEPT ![f] = e])
  BY DEF HasTotal
<1>2. ASSUME NEW c, HasTotal(c)  PROVE HasTotal(R!BaseIncoming(c)) /\ HasTotal(R!SplitPool(c))
  <2>1. HasTotal(R!BaseIncoming(c))
    BY <1>2 DEF HasTotal, R!BaseIncoming
  <2>2. HasTotal(R!SplitPool(c))
    BY <1>2 DEF HasTotal, R!SplitPool
  <2> QED  BY <2>1, <2>2
<1>3. ASSUME NEW c, HasTotal(c), NEW S, NEW T  PROVE HasTotal(R!Visit(c, S, T))
  <2>1. PICK r, g, d : R!Visit(c, S, T) =
               [c EXCEPT !.routes = r, !.group_rewards = g, !.base_rewards = d]
    BY Zenon DEF R!Visit
  <2> QED  BY <1>3, <2>1 DEF HasTotal
<1>4. ASSUME NEW c, HasTotal(c)  PROVE HasTotal(R!RouteSlice(c, k))
  BY <1>1, <1>3, <1>4 DEF R!RouteSlice
<1> QED  BY <1>2, <1>4 DEF R!StartBasePass

LEMMA RoutedInvInit == CombinedInit => RoutedInv
<1> SUFFICES ASSUME CombinedInit  PROVE RoutedInv
  OBVIOUS
<1>1. base.total = 0 /\ HasTotal(base)
  BY DEF CombinedInit, R!RoutersInit, HasTotal
<1> QED  BY <1>1 DEF RoutedInv, VotingIsOver

LEMMA RoutedInvStep ==
    ASSUME TypeOK, RoutedInv, [CombinedNext]_all_vars
    PROVE  RoutedInv'
<1>1. CASE Voting
  <2>1. base' = base /\ Next
    BY <1>1 DEF Voting, routing
  <2>2. ASSUME base.total > 0, ~ raised'  PROVE ~ is_voting_valid'
    <3>1. /\ ~ raised
          /\ ~ (config'.valid_slots_after_consensus > config.valid_slots_after_consensus)
      BY <1>1, <2>2 DEF Voting
    <3>2. ~ is_voting_valid
      BY <2>2, <3>1 DEF RoutedInv, VotingIsOver
    <3>3. [Next]_vars
      BY <2>1
    <3> QED  BY <3>1, <3>2, <3>3, OverStaysOver
  <2> QED  BY <2>1, <2>2 DEF RoutedInv, VotingIsOver, HasTotal
<1>2. CASE Routing
  <2>1. UNCHANGED vars /\ raised' = raised
    BY <1>2 DEF Routing
  <2>2. is_voting_valid' = is_voting_valid
    BY <2>1 DEF vars, box, is_voting_valid, tie_breaker_set, is_consensus_reached, is_valid
  <2>3. CASE base' = base
    BY <2>1, <2>2, <2>3 DEF RoutedInv, VotingIsOver, HasTotal
  <2>4. ASSUME RoutingAllowed, NEW k, R!RouteBaseRewards(k)  PROVE RoutedInv'
    <3>1. base' = R!RouteSlice(R!StartBasePass(base), R!AtLeastOne(k))
      BY <2>4 DEF R!RouteBaseRewards
    <3>2. HasTotal(base')
      BY <3>1, RouteKeepsFields DEF RoutedInv
    <3> QED  BY <2>2, <2>4, <3>2 DEF RoutedInv, VotingIsOver, RoutingAllowed, HasTotal
  <2>5. ASSUME NEW x, R!DistributeBaseRewards(x) \/ R!DistributeBaseNcnRewardRoute(x)  PROVE RoutedInv'
    <3>1. base'.total = base.total /\ HasTotal(base')
      BY <2>5 DEF RoutedInv, HasTotal, R!DistributeBaseRewards, R!DistributeBaseNcnRewardRoute
    <3> QED  BY <2>1, <2>2, <3>1 DEF RoutedInv, VotingIsOver, HasTotal
  <2>6. ASSUME NEW n, R!Deposit(n)  PROVE base' = base
    BY <2>6 DEF R!Deposit
  <2> QED  BY <1>2, <2>3, <2>4, <2>5, <2>6 DEF Routing
<1>3. CASE UNCHANGED all_vars
  BY <1>3 DEF all_vars, routing, vars, box, RoutedInv, VotingIsOver, HasTotal, is_voting_valid,
              tie_breaker_set, is_consensus_reached, is_valid
<1> QED  BY <1>1, <1>2, <1>3 DEF CombinedNext

\* Once a lamport was routed, no vote, tie breaker, change of parameters or tick
\* changes the votes and the winner the shares follow, unless voters were given
\* more time: route_base_rewards checks the window in every slice, and a window
\* that is over is over for cast_vote and admin_set_tie_breaker too.
THEOREM VotesAreFinalWhenRouted == CombinedSpec => RoutedVotesAreFinal
<1> DEFINE Final == base.total > 0 /\ ~ raised => UNCHANGED VotesNow
<1>1. CombinedSpec => []TypeOK
  <2>1. IInv => TypeOK
    BY DEF IInv
  <2> QED  BY <2>1, RoutingOnlyReads, BallotBoxInvariant, PTL
<1>2. CombinedSpec => []RoutedInv
  BY <1>1, RoutedInvInit, RoutedInvStep, PTL DEF CombinedSpec
<1>3. TypeOK /\ RoutedInv /\ [CombinedNext]_all_vars => [Final]_all_vars
  <2> SUFFICES ASSUME TypeOK, RoutedInv, [CombinedNext]_all_vars, base.total > 0, ~ raised
               PROVE  UNCHANGED VotesNow
    OBVIOUS
  <2>1. ~ is_voting_valid
    BY DEF RoutedInv, VotingIsOver
  <2>2. [Next]_vars
    BY DEF CombinedNext, Voting, Routing, all_vars
  <2>3. UNCHANGED box
    BY <2>1, <2>2, OverStaysOver
  <2> QED  BY <2>3 DEF VotesNow, WinningIndex, TalliesFor, box
<1> QED  BY <1>1, <1>2, <1>3, PTL DEF CombinedSpec, RoutedVotesAreFinal

-----------------------------------------------------------------------------
(* A pass that reads the votes afresh                                      *)

\* The lemmas about the routers, for the votes of this ballot box; the keeper
\* takes no part, and nothing is closed.
K == INSTANCE KeeperRewardsProofs WITH
       Votes <- VotesNow, FinalVotes <- <<>>, alone <- FALSE, todo <- <<>>, copy <- base,
       closing <- FALSE, closed <- {}, late <- 0, swept <- 0, failures <- 0, MaxFailures <- 0

\* Its operators are those of R, from the sums up to the instructions.
LEMMA SameSums == \A f : K!SumOf(f) = R!SumOf(f)
BY Zenon DEF R!SumOf, K!SumOf, R!Cardinality, K!Cardinality, R!Units, K!Units, R!IsFiniteSet, K!IsFiniteSet

LEMMA SameCount == \A S : K!Cardinality(S) = R!Cardinality(S)
BY Zenon DEF R!Cardinality, K!Cardinality, R!IsFiniteSet, K!IsFiniteSet

LEMMA SameSets ==
    K!Groups = R!Groups /\ K!Routers = R!Routers /\ K!WinningVotes = R!WinningVotes /\ K!NoLast = R!NoLast
BY DEF K!Groups, R!Groups, K!Routers, R!Routers, K!WinningVotes, R!WinningVotes, K!NoLast, R!NoLast

LEMMA SameQueries ==
    /\ \A b : K!still_routing(b) = R!still_routing(b)
    /\ \A b, g : K!RewardsToProcess(b, g) = R!RewardsToProcess(b, g)
    /\ \A p, q : K!Before(p, q) = R!Before(p, q)
    /\ \A k : K!AtLeastOne(k) = R!AtLeastOne(k)
    /\ \A b, p : K!SavePosition(b, p) = R!SavePosition(b, p)
<1>1. \A b : K!still_routing(b) = R!still_routing(b)
  BY DEF K!still_routing, R!still_routing, K!NoLast, R!NoLast
<1>2. \A b, g : K!RewardsToProcess(b, g) = R!RewardsToProcess(b, g)
  BY <1>1, Zenon DEF K!RewardsToProcess, R!RewardsToProcess
<1>3. \A p, q : K!Before(p, q) = R!Before(p, q)
  BY DEF K!Before, R!Before
<1>4. \A k : K!AtLeastOne(k) = R!AtLeastOne(k)
  BY DEF K!AtLeastOne, R!AtLeastOne
<1>5. \A b, p : K!SavePosition(b, p) = R!SavePosition(b, p)
  BY <1>2, Zenon DEF K!SavePosition, R!SavePosition
<1> QED  BY <1>1, <1>2, <1>3, <1>4, <1>5

LEMMA SamePending ==
    /\ \A b : K!Pending(b) = R!Pending(b)
    /\ \A S, k : K!FirstOf(S, k) = R!FirstOf(S, k)
<1>1. \A b : K!Pending(b) = R!Pending(b)
  BY SameSets, SameQueries, Zenon DEF K!Pending, R!Pending
<1>2. \A S, k : K!FirstOf(S, k) = R!FirstOf(S, k)
  BY SameCount, SameQueries, Zenon DEF K!FirstOf, R!FirstOf
<1> QED  BY <1>1, <1>2

LEMMA SameShares ==
    /\ \A a, p, w : K!Share(a, p, w) = R!Share(a, p, w)
    /\ \A g : K!WinningWeight(g) = R!WinningWeight(g)
    /\ \A b, p : K!RouteShare(b, p) = R!RouteShare(b, p)
    /\ \A b, V, g : K!Routed(b, V, g) = R!Routed(b, V, g)
<1>1. \A a, p, w : K!Share(a, p, w) = R!Share(a, p, w)
  BY Zenon DEF K!Share, R!Share
<1>2. \A g : K!WinningWeight(g) = R!WinningWeight(g)
  BY SameSets, SameSums, Zenon DEF K!WinningWeight, R!WinningWeight, K!SumOver, R!SumOver
<1>3. \A b, p : K!RouteShare(b, p) = R!RouteShare(b, p)
  BY <1>1, <1>2, SameQueries, Zenon DEF K!RouteShare, R!RouteShare
<1>4. \A b, V, g : K!Routed(b, V, g) = R!Routed(b, V, g)
  BY <1>3, SameSums, Zenon DEF K!Routed, R!Routed, K!SumOver, R!SumOver
<1> QED  BY <1>1, <1>2, <1>3, <1>4

LEMMA SameVisit == \A b, V, F : K!Visit(b, V, F) = R!Visit(b, V, F)
<1> SUFFICES ASSUME NEW b, NEW V, NEW F  PROVE K!Visit(b, V, F) = R!Visit(b, V, F)
  OBVIOUS
<1> DEFINE To(r) == {p \in V : r = <<VotesNow[p[2]].operator, p[1]>>}
           rt == [r \in K!Routers |-> b.routes[r] + K!SumOf([p \in To(r) |-> K!RouteShare(b, p)])]
           gr == [g \in K!Groups |-> IF g \in F THEN 0 ELSE b.group_rewards[g] - K!Routed(b, V, g)]
           dao == K!SumOf([g \in F |-> b.group_rewards[g] - K!Routed(b, V, g)])
           to == [r \in R!Routers |-> b.routes[r] + R!SumOf([p \in To(r) |-> R!RouteShare(b, p)])]
           go == [g \in R!Groups |-> IF g \in F THEN 0 ELSE b.group_rewards[g] - R!Routed(b, V, g)]
           do == R!SumOf([g \in F |-> b.group_rewards[g] - R!Routed(b, V, g)])
<1>1. K!Visit(b, V, F) = [b EXCEPT !.routes = rt, !.group_rewards = gr, !.base_rewards[Dao] = @ + dao]
  BY Zenon DEF K!Visit, K!SumOver
<1>2. R!Visit(b, V, F) = [b EXCEPT !.routes = to, !.group_rewards = go, !.base_rewards[Dao] = @ + do]
  BY Zenon DEF R!Visit, R!SumOver
<1>3. rt = to
  <2> HIDE DEF To
  <2> QED  BY SameSets, SameShares, SameSums, Zenon
<1>4. gr = go
  BY SameSets, SameShares, Zenon
<1>5. dao = do
  BY SameShares, SameSums, Zenon
<1> HIDE DEF rt, gr, dao, to, go, do
<1> QED  BY <1>1, <1>2, <1>3, <1>4, <1>5

LEMMA SameSlice == \A b, k : K!RouteSlice(b, k) = R!RouteSlice(b, k)
<1> SUFFICES ASSUME NEW b, NEW k  PROVE K!RouteSlice(b, k) = R!RouteSlice(b, k)
  OBVIOUS
<1> DEFINE V == K!FirstOf(K!Pending(b), k)
           left == K!Pending(b) \ V
           stop == CHOOSE p \in left : \A q \in left : p = q \/ K!Before(p, q)
           v == R!FirstOf(R!Pending(b), k)
           rest == R!Pending(b) \ v
           next == CHOOSE p \in rest : \A q \in rest : p = q \/ R!Before(p, q)
<1>1. V = v /\ left = rest
  BY SamePending, Zenon
<1>2. stop = next
  <2> HIDE DEF left, rest
  <2> QED  BY <1>1, Zenon DEF K!Before, R!Before
<1>3. K!RouteSlice(b, k) =
        IF left = {} THEN [K!Visit(b, V, K!Groups) EXCEPT !.last = K!NoLast]
        ELSE [K!Visit(b, V, 1 .. stop[1] - 1) EXCEPT !.last = K!SavePosition(b, stop)]
  BY DEF K!RouteSlice
<1>4. R!RouteSlice(b, k) =
        IF rest = {} THEN [R!Visit(b, v, R!Groups) EXCEPT !.last = R!NoLast]
        ELSE [R!Visit(b, v, 1 .. next[1] - 1) EXCEPT !.last = R!SavePosition(b, next)]
  BY DEF R!RouteSlice
<1> HIDE DEF V, left, stop, v, rest, next
<1> QED  BY <1>1, <1>2, <1>3, <1>4, SameSets, SameVisit, SameQueries, Zenon

LEMMA SamePlan == \A b : K!BasePlan(b) = R!BasePlan(b)
<1> SUFFICES ASSUME NEW b  PROVE K!BasePlan(b) = R!BasePlan(b)
  OBVIOUS
<1> DEFINE of(o) == {v \in K!WinningVotes : VotesNow[v].operator = o}
           of2(o) == {v \in R!WinningVotes : VotesNow[v].operator = o}
           due(o, g) == K!SumOf([v \in of(o) |->
                          K!Share(b.group_rewards[g], VotesNow[v].weight[g], K!WinningWeight(g))])
           due2(o, g) == R!SumOf([v \in of2(o) |->
                          R!Share(b.group_rewards[g], VotesNow[v].weight[g], R!WinningWeight(g))])
           rt == [r \in K!Routers |-> b.routes[r] + due(r[1], r[2])]
           rt2 == [r \in R!Routers |-> b.routes[r] + due2(r[1], r[2])]
           gr == [g \in K!Groups |-> 0]
           gr2 == [g \in R!Groups |-> 0]
           dao == K!SumOf([g \in K!Groups |-> b.group_rewards[g] - K!SumOf([o \in Operators |-> due(o, g)])])
           dao2 == R!SumOf([g \in R!Groups |-> b.group_rewards[g] - R!SumOf([o \in Operators |-> due2(o, g)])])
<1>1. K!BasePlan(b) = [b EXCEPT !.routes = rt, !.group_rewards = gr, !.base_rewards[Dao] = @ + dao]
  BY Zenon DEF K!BasePlan, K!SumOver
<1>2. R!BasePlan(b) = [b EXCEPT !.routes = rt2, !.group_rewards = gr2, !.base_rewards[Dao] = @ + dao2]
  BY Zenon DEF R!BasePlan, R!SumOver
<1>3. \A o, g : due(o, g) = due2(o, g)
  <2>1. \A o : of(o) = of2(o)
    BY SameSets, Zenon
  <2> HIDE DEF of, of2
  <2> QED  BY <2>1, SameShares, SameSums, Zenon
<1> HIDE DEF due, due2
<1>4. rt = rt2 /\ gr = gr2
  BY <1>3, SameSets, Zenon
<1>5. dao = dao2
  <2> DEFINE all(g) == K!SumOf([o \in Operators |-> due(o, g)])
             all2(g) == R!SumOf([o \in Operators |-> due2(o, g)])
  <2>1. \A g : all(g) = all2(g)
    BY <1>3, SameSums, Zenon
  <2> HIDE DEF all, all2
  <2>2. K!SumOf([g \in K!Groups |-> b.group_rewards[g] - all(g)])
          = R!SumOf([g \in R!Groups |-> b.group_rewards[g] - all2(g)])
    BY <2>1, SameSets, SameSums, Zenon
  <2> QED  BY <2>2 DEF all, all2
<1> HIDE DEF rt, rt2, gr, gr2, dao, dao2
<1> QED  BY <1>1, <1>2, <1>4, <1>5

LEMMA SameSplit ==
    /\ \A fee, n : K!Parts(fee, n) = R!Parts(fee, n)
    /\ \A f, h : K!Plus(f, h) = R!Plus(f, h)
    /\ \A b : K!BaseIncoming(b) = R!BaseIncoming(b)
    /\ \A b : K!SplitPool(b) = R!SplitPool(b)
    /\ \A b : K!StartBasePass(b) = R!StartBasePass(b)
    /\ \A b : K!PoolFits(b) = R!PoolFits(b)
    /\ \A b, k : K!SliceFits(b, k) = R!SliceFits(b, k)
<1>1. \A fee, n : K!Parts(fee, n) = R!Parts(fee, n)
  BY SameShares, SameSums, Zenon DEF K!Parts, R!Parts, K!TotalFee, R!TotalFee
<1>2. \A f, h : K!Plus(f, h) = R!Plus(f, h)
  BY Zenon DEF K!Plus, R!Plus
<1>3. \A b : K!BaseIncoming(b) = R!BaseIncoming(b)
  BY Zenon DEF K!BaseIncoming, R!BaseIncoming
<1>4. \A b : K!SplitPool(b) = R!SplitPool(b)
  BY <1>1, <1>2, SameSums, Zenon DEF K!SplitPool, R!SplitPool
<1>5. \A b : K!StartBasePass(b) = R!StartBasePass(b)
  BY <1>3, <1>4, SameQueries, Zenon DEF K!StartBasePass, R!StartBasePass
<1>6. \A b : K!PoolFits(b) = R!PoolFits(b)
  BY <1>1, SameSums, Zenon DEF K!PoolFits, R!PoolFits
<1>7. \A b, k : K!SliceFits(b, k) = R!SliceFits(b, k)
  BY SameSets, SamePending, SameShares, Zenon DEF K!SliceFits, R!SliceFits
<1> QED  BY <1>1, <1>2, <1>3, <1>4, <1>5, <1>6, <1>7

LEMMA SameActions ==
    /\ \A n : R!Deposit(n) => K!Deposit(n)
    /\ \A k : R!RouteBaseRewards(k) => K!RouteBaseRewards(k)
    /\ \A b : R!DistributeBaseRewards(b) => K!DistributeBaseRewards(b)
    /\ \A r : R!DistributeBaseNcnRewardRoute(r) => K!DistributeBaseNcnRewardRoute(r)
<1>1. \A n : R!Deposit(n) => K!Deposit(n)
  BY DEF R!Deposit, K!Deposit
<1>2. \A k : R!RouteBaseRewards(k) => K!RouteBaseRewards(k)
  BY SameSplit, SameSlice, SamePlan, SameQueries, Zenon DEF R!RouteBaseRewards, K!RouteBaseRewards
<1>3. \A b : R!DistributeBaseRewards(b) => K!DistributeBaseRewards(b)
  BY SameQueries, Zenon DEF R!DistributeBaseRewards, K!DistributeBaseRewards,
                            R!DistributeAllowed, K!DistributeAllowed
<1>4. \A r : R!DistributeBaseNcnRewardRoute(r) => K!DistributeBaseNcnRewardRoute(r)
  BY SameQueries, Zenon DEF R!DistributeBaseNcnRewardRoute, K!DistributeBaseNcnRewardRoute,
                            R!DistributeAllowed, K!DistributeAllowed
<1> QED  BY <1>1, <1>2, <1>3, <1>4

\* Its assumptions on the constants are those of R.
LEMMA KeeperAssumptions == K!RoutingAssumption /\ K!FailuresAssumption
<1>1. K!FailuresAssumption
  BY DEF K!FailuresAssumption
<1>2. \A S : K!IsFiniteSet(S) = R!IsFiniteSet(S)
  BY Zenon DEF K!IsFiniteSet, R!IsFiniteSet
<1>3. K!Vaults = R!Vaults /\ K!Groups = R!Groups
  BY DEF K!Vaults, R!Vaults, K!Groups, R!Groups
<1> QED  BY <1>1, <1>2, <1>3, CombinedAssumption, Zenon DEF K!RoutingAssumption, R!RoutingAssumption

\* What routing needs to know of the votes: those for the winner are votes of
\* operators, for no empty vote has the index of a tally.
LEMMA VotesAreSound == ASSUME IInv  PROVE K!VotesSound
<1>1. K!WinningVotes = {v \in Index : VotesNow[v].wins}
  BY DEF K!WinningVotes, VotesNow
<1>2. K!WinningVotes \subseteq Index /\ Index \subseteq Nat
  BY <1>1, IndexFacts
<1>3. K!IsFiniteSet(K!WinningVotes)
  <2>1. IsFiniteSet(K!WinningVotes)
    BY <1>2, IndexFacts, FS_Subset
  <2> QED  BY <2>1, Zenon DEF IsFiniteSet, K!IsFiniteSet
<1>4. ASSUME NEW v \in K!WinningVotes
      PROVE  VotesNow[v].operator \in Operators /\ VotesNow[v].weight \in [K!Groups -> Nat]
  <2>1. /\ v \in Index /\ is_valid(winning_ballot) /\ operator_votes[v].ballot_index = WinningIndex
        /\ VotesNow[v].operator = operator_votes[v].operator
        /\ VotesNow[v].weight = [g \in 1 .. GroupCount |-> operator_votes[v].stake_weights[GroupComponent[g]]]
    BY <1>1, <1>4 DEF VotesNow
  <2>2. TalliesFor(winning_ballot) # {} /\ TalliesFor(winning_ballot) \subseteq Index
    BY <2>1 DEF IInv, WinnerHasTally, is_consensus_reached, TalliesFor
  <2>3. WinningIndex \in Index
    BY <2>2, <1>2, FirstIn DEF WinningIndex
  <2>4. operator_votes[v].ballot_index # NoIndex
    BY <2>1, <2>3, IndexFacts
  <2>5. operator_votes[v].operator \in Operators
    BY <2>1, <2>4 DEF IInv, VotesWellFormed, EmptyVote
  <2>6. operator_votes[v].stake_weights \in [Components -> Nat]
    BY <2>1 DEF IInv, TypeOK, Vote, StakeWeights
  <2>7. VotesNow[v].weight \in [1 .. GroupCount -> Nat]
    BY <2>1, <2>6, CombinedAssumption
  <2> QED  BY <2>1, <2>5, <2>7 DEF K!Groups
<1> QED  BY <1>2, <1>3, <1>4 DEF K!VotesSound

\* The invariant of the composition, as long as nobody was given more time: the
\* ledgers are sound and the plan of a pass in progress is what the rest of the
\* pass leads to; and a pass in progress has routed something, so that voting is
\* over and the votes it reads stay.
NcnIdle == \A r \in R!Routers : ~ R!still_routing(ncn[r])
PassInv ==
    /\ K!LedgersInv /\ K!PlanInv
    /\ R!still_routing(base) => base.total > 0
CombinedInv == NcnIdle /\ (raised \/ PassInv)

LEMMA CombinedInvInit == CombinedInit => CombinedInv
<1> SUFFICES ASSUME CombinedInit  PROVE CombinedInv
  OBVIOUS
<1>1. K!RoutersInit
  <2>1. K!Vaults = R!Vaults
    BY DEF K!Vaults, R!Vaults
  <2> QED  BY <2>1, SameSets, Zenon DEF CombinedInit, R!RoutersInit, K!RoutersInit
<1>2. K!LedgersInv /\ K!PlanInv
  BY <1>1, K!InitLedgers, K!InitAgrees, KeeperAssumptions
<1>3. ~ R!still_routing(base) /\ NcnIdle
  BY DEF CombinedInit, R!RoutersInit, R!still_routing, NcnIdle
<1> QED  BY <1>2, <1>3 DEF CombinedInv, PassInv

\* Votes, the clock and the admin: while a pass is in progress they change no
\* vote, and between passes the ledgers do not depend on the votes.
LEMMA VotingKeepsPass ==
    ASSUME TypeOK, RoutedInv, ~ raised, PassInv, [Next]_vars, UNCHANGED routing
    PROVE  PassInv' /\ K!BaseEndsAsPlanned
<1>1. /\ base' = base /\ ncn' = ncn /\ ncn_receiver' = ncn_receiver /\ receiver' = receiver
      /\ paid' = paid /\ deposited' = deposited /\ progress' = progress /\ plan' = plan
  BY DEF routing
<1>2. VotesNow' = VotesNow \/ ~ K!still_routing(base)
  <2> SUFFICES ASSUME K!still_routing(base)  PROVE VotesNow' = VotesNow
    OBVIOUS
  <2>1. ~ is_voting_valid
    BY SameQueries DEF PassInv, RoutedInv, VotingIsOver
  <2>2. UNCHANGED box
    BY <2>1, OverStaysOver
  <2> QED  BY <2>2 DEF VotesNow, WinningIndex, TalliesFor, box
<1>3. K!LedgersInv /\ K!PlanInv /\ K!BaseInv /\ K!NcnInv
  BY DEF PassInv, K!LedgersInv
<1>4. K!LedgersInv'
  BY <1>1, <1>2, <1>3, K!VotesAreOnlyRead, KeeperAssumptions
<1>5. K!PlanInv' /\ K!BaseEndsAsPlanned
  <2>1. (VotesNow' = VotesNow /\ base' = base) \/ (~ K!still_routing(base) /\ base'.last = base.last)
    BY <1>1, <1>2
  <2>2. \A r \in K!Routers : ncn'[r] = ncn[r] \/ (~ K!still_routing(ncn[r]) /\ ncn'[r].last = ncn[r].last)
    BY <1>1
  <2> QED  BY <1>1, <1>3, <2>1, <2>2, K!PaymentsAgree, KeeperAssumptions
<1> QED  BY <1>1, <1>4, <1>5 DEF PassInv, R!still_routing

\* The instructions that route and distribute.
LEMMA RoutingKeepsPass ==
    ASSUME IInv, ~ raised, PassInv, Routing
    PROVE  PassInv' /\ K!BaseEndsAsPlanned
<1>1. K!VotesSound /\ K!LedgersInv /\ K!PlanInv /\ K!BaseInv /\ K!NcnInv
  BY VotesAreSound DEF PassInv, K!LedgersInv
<1>2. receiver \in Nat /\ ncn_receiver \in [K!Routers -> Nat]
  BY <1>1 DEF K!LedgersInv, K!FundsInv
<1>3. BaseIterations \subseteq Nat
  BY CombinedAssumption DEF R!RoutingAssumption
<1>4. \/ \E n \in Deposits : K!Deposit(n)
      \/ \E k \in BaseIterations : K!RouteBaseRewards(k)
      \/ \E b \in BaseGroups : K!DistributeBaseRewards(b)
      \/ \E r \in K!Routers : K!DistributeBaseNcnRewardRoute(r)
  BY SameActions, SameSets, Zenon DEF Routing
<1>5. K!PlanInv' /\ K!BaseEndsAsPlanned
  <2>1. K!Next
    BY <1>4, Zenon DEF K!Next
  <2> QED  BY <1>1, <1>2, <2>1, K!NextAgrees, KeeperAssumptions
<1>6. K!LedgersInv' /\ (R!still_routing(base') => base'.total > 0)
  <2>1. ASSUME NEW n \in Deposits, K!Deposit(n)
        PROVE  K!LedgersInv' /\ (R!still_routing(base') => base'.total > 0)
    <3>1. 0 = IF K!BaseRouter \in {} THEN 0 + n ELSE 0
      OBVIOUS
    <3>2. K!LedgersInv'
      BY <1>1, <2>1, <3>1, K!DepositKeeps, KeeperAssumptions
    <3>3. base' = base
      BY <2>1 DEF K!Deposit
    <3> QED  BY <3>2, <3>3 DEF PassInv
  <2>2. ASSUME NEW k \in BaseIterations, K!RouteBaseRewards(k)
        PROVE  K!LedgersInv' /\ (R!still_routing(base') => base'.total > 0)
    <3>1. k \in Nat
      BY <1>3
    <3>2. K!LedgersInv'
      BY <1>1, <2>2, <3>1, K!RouteBaseKeeps, KeeperAssumptions
    <3>3. K!still_routing(base') => base'.total > 0
      <4>1. K!still_routing(base) => base.total > 0
        BY SameQueries DEF PassInv
      <4> QED  BY <1>1, <2>2, <3>1, <4>1, K!RoutingHasTotal, KeeperAssumptions
    <3> QED  BY <3>2, <3>3, SameQueries
  <2>3. ASSUME NEW b \in BaseGroups, K!DistributeBaseRewards(b)
        PROVE  K!LedgersInv' /\ (R!still_routing(base') => base'.total > 0)
    <3>1. K!LedgersInv'
      BY <1>1, <2>3, K!DistributeBaseKeeps, KeeperAssumptions
    <3>2. /\ ~ K!still_routing(base)
          /\ base' = [base EXCEPT !.base_rewards[b] = 0, !.processed = @ - base.base_rewards[b]]
      BY <2>3 DEF K!DistributeBaseRewards, K!DistributeAllowed
    <3>3. base'.last = base.last
      BY <1>1, <3>2 DEF K!BaseInv, K!BaseSound, K!BaseRecords
    <3> QED  BY <3>1, <3>2, <3>3 DEF K!still_routing, R!still_routing, K!NoLast, R!NoLast
  <2>4. ASSUME NEW r \in K!Routers, K!DistributeBaseNcnRewardRoute(r)
        PROVE  K!LedgersInv' /\ (R!still_routing(base') => base'.total > 0)
    <3>1. K!LedgersInv'
      BY <1>1, <2>4, K!DistributeRouteKeeps, KeeperAssumptions
    <3>2. ~ K!still_routing(base) /\ base' = [base EXCEPT !.routes[r] = 0, !.processed = @ - base.routes[r]]
      BY <2>4 DEF K!DistributeBaseNcnRewardRoute, K!DistributeAllowed
    <3>3. base'.last = base.last
      BY <1>1, <3>2 DEF K!BaseInv, K!BaseSound, K!BaseRecords
    <3> QED  BY <3>1, <3>2, <3>3 DEF K!still_routing, R!still_routing, K!NoLast, R!NoLast
  <2> QED  BY <1>4, <2>1, <2>2, <2>3, <2>4
<1> QED  BY <1>5, <1>6 DEF PassInv, R!still_routing

\* Each step keeps the invariant, and one that ends a pass ends it as planned.
LEMMA CombinedStep ==
    ASSUME IInv, RoutedInv, CombinedInv, [CombinedNext]_all_vars
    PROVE  CombinedInv' /\ (~ raised => K!BaseEndsAsPlanned)
<1>0. TypeOK
  BY DEF IInv
<1>1. NcnIdle'
  <2>1. ncn' = ncn
    BY DEF CombinedNext, Voting, Routing, routing, all_vars, R!Deposit, R!RouteBaseRewards,
           R!DistributeBaseRewards, R!DistributeBaseNcnRewardRoute
  <2> QED  BY <2>1 DEF CombinedInv, NcnIdle, R!still_routing
<1>2. raised => raised'
  BY DEF CombinedNext, Voting, Routing, all_vars
<1>3. ASSUME ~ raised  PROVE PassInv' /\ K!BaseEndsAsPlanned
  <2>1. PassInv
    BY <1>3 DEF CombinedInv
  <2>2. CASE Routing
    BY <1>3, <2>1, <2>2, RoutingKeepsPass
  <2>3. CASE Voting \/ UNCHANGED all_vars
    <3>1. [Next]_vars /\ UNCHANGED routing
      BY <2>3 DEF Voting, all_vars
    <3> QED  BY <1>0, <1>3, <2>1, <3>1, VotingKeepsPass
  <2> QED  BY <2>2, <2>3 DEF CombinedNext
<1> QED  BY <1>1, <1>2, <1>3, Zenon DEF CombinedInv

\* In every state of the composition in which nobody was given more time, the
\* ledgers balance and a pass in progress leads to its plan, although votes are
\* read afresh in every slice.
THEOREM CombinedInvariant == CombinedSpec => [](IInv /\ RoutedInv /\ CombinedInv)
<1>1. CombinedSpec => []IInv
  BY RoutingOnlyReads, BallotBoxInvariant, PTL
<1>2. IInv => TypeOK
  BY DEF IInv
<1>3. IInv /\ RoutedInv /\ [CombinedNext]_all_vars => RoutedInv'
  BY <1>2, RoutedInvStep
<1>4. IInv /\ RoutedInv /\ CombinedInv /\ [CombinedNext]_all_vars => CombinedInv'
  BY CombinedStep
<1> QED  BY <1>1, <1>3, <1>4, RoutedInvInit, CombinedInvInit, PTL DEF CombinedSpec

\* route_ncn_fee_group_rewards never takes more from a group than it has, in any
\* slice of a pass: for every set of operators, weights, fees, window and slice
\* sizes, a started pass cannot get stuck, unless voters were given more time.
THEOREM PassesNeverStick == CombinedSpec => []PassNeverSticks
<1>1. IInv /\ RoutedInv /\ CombinedInv => PassNeverSticks
  <2> SUFFICES ASSUME IInv, CombinedInv, ~ raised  PROVE R!SlicesNeverFail
    BY DEF PassNeverSticks
  <2>1. K!SlicesNeverFail
    <3>1. K!VotesSound /\ K!BaseInv /\ K!NcnInv
      BY VotesAreSound DEF CombinedInv, PassInv, K!LedgersInv
    <3> QED  BY <3>1, K!SoundSlices, KeeperAssumptions
  <2>2. R!still_routing(base) => \A k \in BaseIterations : R!SliceFits(base, R!AtLeastOne(k))
    BY <2>1, SameQueries, SameSplit, Zenon DEF K!SlicesNeverFail
  <2>3. \A r \in R!Routers : ~ R!still_routing(ncn[r])
    BY DEF CombinedInv, NcnIdle
  <2> QED  BY <2>2, <2>3 DEF R!SlicesNeverFail
<1> QED  BY <1>1, CombinedInvariant, PTL

\* A pass cut into slices, with votes, ticks and admin calls between them, ends
\* with exactly the ledger one transaction would have left when the pass began,
\* unless voters were given more time.
THEOREM PassesUseOneTally == CombinedSpec => OneTallyPerPass
<1> DEFINE Planned ==
      R!still_routing(base) /\ ~ R!still_routing(base') /\ ~ raised => base' = plan.base
<1>1. IInv /\ RoutedInv /\ CombinedInv /\ [CombinedNext]_all_vars => [Planned]_all_vars
  <2> SUFFICES ASSUME IInv, RoutedInv, CombinedInv, [CombinedNext]_all_vars, ~ raised,
                      R!still_routing(base), ~ R!still_routing(base')
               PROVE  base' = plan.base
    OBVIOUS
  <2>1. K!BaseEndsAsPlanned
    BY CombinedStep
  <2> QED  BY <2>1, SameQueries DEF K!BaseEndsAsPlanned
<1> QED  BY <1>1, CombinedInvariant, PTL DEF CombinedSpec, OneTallyPerPass
=============================================================================
