-------------------------- MODULE EpochStakeProofs --------------------------
(***************************************************************************)
(* Proofs about the weight table of an epoch and about the stake weights   *)
(* that are taken from it.                                                 *)
(***************************************************************************)
EXTENDS EpochStake, SumTheorems

-----------------------------------------------------------------------------
(* The registry and the weight table: the inductive invariant              *)

\* No vault and no mint is in the registry twice, and each vault has its mint
\* there and is one of the NCN's.
RegistryInv ==
    /\ registry # "ready" => st_mint_list = <<>> /\ vault_list = <<>> /\ table_account = "missing"
    /\ \A i, j \in DOMAIN vault_list : vault_list[i].vault = vault_list[j].vault => i = j
    /\ \A i, j \in DOMAIN st_mint_list : st_mint_list[i].st_mint = st_mint_list[j].st_mint => i = j
    /\ \A i \in DOMAIN vault_list :
          /\ vault_list[i].vault \in ncn_vaults
          /\ \E j \in DOMAIN st_mint_list : st_mint_list[j].st_mint = MintOf[vault_list[i].vault]

\* The table has the same of its copy, and all the vaults that were required.
TableInv ==
    /\ table_account # "ready" => table = <<>>
    /\ table_account # "missing" =>
          \A v \in required : \E i \in DOMAIN vault_list : vault_list[i].vault = v
    /\ table_account = "ready" =>
          /\ \A v \in required : \E i \in DOMAIN vault_registry : vault_registry[i].vault = v
          /\ \A i, j \in DOMAIN table :
                table[i].st_mint_entry.st_mint = table[j].st_mint_entry.st_mint => i = j
          /\ \A i \in DOMAIN vault_registry :
                /\ vault_registry[i].vault \in ncn_vaults
                /\ \E j \in DOMAIN table :
                      table[j].st_mint_entry.st_mint = MintOf[vault_registry[i].vault]
          /\ set_weight_progress = [tally |-> R!weight_count(table), total |-> Len(table)]

WeightsInv == R!TypeOK /\ RegistryInv /\ TableInv

LEMMA EntryTypes ==
    ASSUME R!TypeOK
    PROVE  /\ \A i \in DOMAIN st_mint_list : st_mint_list[i] \in R!StMintEntry
           /\ \A i \in DOMAIN vault_list : vault_list[i] \in R!VaultEntry
           /\ \A i \in DOMAIN vault_registry : vault_registry[i] \in R!VaultEntry
           /\ \A i \in DOMAIN table : table[i] \in R!WeightEntry
           /\ DOMAIN st_mint_list = 1 .. Len(st_mint_list) /\ Len(st_mint_list) \in Nat
           /\ DOMAIN vault_list = 1 .. Len(vault_list) /\ Len(vault_list) \in Nat
           /\ DOMAIN table = 1 .. Len(table) /\ Len(table) \in Nat
<1> DEFINE M == R!StMintEntry
           V == R!VaultEntry
           W == R!WeightEntry
<1>1. st_mint_list \in Seq(M) /\ vault_list \in Seq(V) /\ vault_registry \in Seq(V) /\ table \in Seq(W)
  BY DEF R!TypeOK
<1> HIDE DEF M, V, W
<1>2. /\ \A i \in DOMAIN st_mint_list : st_mint_list[i] \in M
      /\ \A i \in DOMAIN vault_list : vault_list[i] \in V
      /\ \A i \in DOMAIN vault_registry : vault_registry[i] \in V
      /\ \A i \in DOMAIN table : table[i] \in W
  BY <1>1
<1>3. /\ DOMAIN st_mint_list = 1 .. Len(st_mint_list) /\ Len(st_mint_list) \in Nat
      /\ DOMAIN vault_list = 1 .. Len(vault_list) /\ Len(vault_list) \in Nat
      /\ DOMAIN table = 1 .. Len(table) /\ Len(table) \in Nat
  BY <1>1
<1> QED  BY <1>2, <1>3 DEF M, V, W

\* What adding an entry at the end of a list does.
LEMMA Appended ==
    ASSUME NEW E, NEW list \in Seq(E), NEW e \in E, NEW new, new = Append(list, e)
    PROVE  /\ new \in Seq(E) /\ DOMAIN new = DOMAIN list \cup {Len(list) + 1}
           /\ Len(list) + 1 \notin DOMAIN list /\ new[Len(list) + 1] = e
           /\ \A i \in DOMAIN list : new[i] = list[i]
OBVIOUS

-----------------------------------------------------------------------------
(* The registry's handlers                                                 *)

LEMMA RegistryCreatedInv ==
    ASSUME WeightsInv, R!InitializeVaultRegistry \/ R!ReallocVaultRegistry
    PROVE  WeightsInv'
<1>1. /\ registry # "ready" /\ registry' \in R!AccountStates /\ st_mint_list = <<>> /\ vault_list = <<>>
      /\ st_mint_list' = <<>> /\ vault_list' = <<>> /\ table_account = "missing"
      /\ UNCHANGED <<table_account, ncn_vaults, vault_registry, table, set_weight_progress, feed, required, edits, slot>>
  BY DEF R!InitializeVaultRegistry, R!ReallocVaultRegistry, WeightsInv, RegistryInv, R!AccountStates,
         R!lists, R!tables, R!environment
<1>2. R!TypeOK'
  BY <1>1 DEF WeightsInv, R!TypeOK
<1>3. RegistryInv' /\ TableInv'
  BY <1>1 DEF WeightsInv, RegistryInv, TableInv
<1> QED  BY <1>2, <1>3 DEF WeightsInv

LEMMA AdminRegisterStMintInv ==
    ASSUME WeightsInv, NEW entry \in R!StMintEntry, R!AdminRegisterStMint(entry)
    PROVE  WeightsInv'
<1>1. /\ registry = "ready" /\ st_mint_list' = Append(st_mint_list, entry)
      /\ \A i \in DOMAIN st_mint_list : st_mint_list[i].st_mint # entry.st_mint
      /\ UNCHANGED <<registry, vault_list, table_account, ncn_vaults, vault_registry, table,
                     set_weight_progress, feed, required, edits, slot>>
  BY DEF R!AdminRegisterStMint, R!InsertInto, R!has_st_mint, R!MintsOf, R!accounts, R!tables, R!environment
<1>2. /\ st_mint_list' \in Seq(R!StMintEntry)
      /\ DOMAIN st_mint_list' = DOMAIN st_mint_list \cup {Len(st_mint_list) + 1}
      /\ Len(st_mint_list) + 1 \notin DOMAIN st_mint_list /\ st_mint_list'[Len(st_mint_list) + 1] = entry
      /\ \A i \in DOMAIN st_mint_list : st_mint_list'[i] = st_mint_list[i]
  <2> DEFINE E == R!StMintEntry
  <2>1. st_mint_list \in Seq(E) /\ entry \in E
    BY DEF WeightsInv, R!TypeOK
  <2> HIDE DEF E
  <2>2. /\ st_mint_list' \in Seq(E)
        /\ DOMAIN st_mint_list' = DOMAIN st_mint_list \cup {Len(st_mint_list) + 1}
        /\ Len(st_mint_list) + 1 \notin DOMAIN st_mint_list /\ st_mint_list'[Len(st_mint_list) + 1] = entry
        /\ \A i \in DOMAIN st_mint_list : st_mint_list'[i] = st_mint_list[i]
    BY <1>1, <2>1, Appended
  <2> QED  BY <2>2 DEF E
<1>3. R!TypeOK'
  BY <1>1, <1>2 DEF WeightsInv, R!TypeOK
<1>4. RegistryInv'
  BY <1>1, <1>2 DEF WeightsInv, RegistryInv
<1>5. TableInv'
  BY <1>1 DEF WeightsInv, TableInv
<1> QED  BY <1>3, <1>4, <1>5 DEF WeightsInv

LEMMA AdminSetStMintInv ==
    ASSUME WeightsInv, NEW mint, NEW changes \in R!Changes, R!AdminSetStMint(mint, changes)
    PROVE  WeightsInv'
<1>1. PICK i \in DOMAIN st_mint_list :
          st_mint_list' = [st_mint_list EXCEPT ![i] =
              [f \in DOMAIN st_mint_list[i] |->
                  IF f \in DOMAIN changes THEN changes[f] ELSE st_mint_list[i][f]]]
  BY DEF R!AdminSetStMint
<1>2. /\ registry = "ready" /\ edits < MaxEdits /\ edits' = edits + 1
      /\ UNCHANGED <<registry, vault_list, table_account, ncn_vaults, vault_registry, table,
                     set_weight_progress, feed, required, slot>>
  BY DEF R!AdminSetStMint, R!accounts, R!tables, R!environment
<1> DEFINE old == st_mint_list[i]
           new == [f \in DOMAIN old |-> IF f \in DOMAIN changes THEN changes[f] ELSE old[f]]
<1>3. old \in R!StMintEntry
  BY EntryTypes DEF WeightsInv
<1>4. new \in R!StMintEntry /\ new.st_mint = old.st_mint
  BY <1>3 DEF R!StMintEntry, R!Changes
<1> HIDE DEF new
<1>5. st_mint_list' = [st_mint_list EXCEPT ![i] = new]
  BY <1>1 DEF new
<1>6. /\ st_mint_list' \in Seq(R!StMintEntry) /\ DOMAIN st_mint_list' = DOMAIN st_mint_list
      /\ st_mint_list'[i] = new /\ \A j \in DOMAIN st_mint_list : j # i => st_mint_list'[j] = st_mint_list[j]
  <2> DEFINE E == R!StMintEntry
  <2>1. st_mint_list \in Seq(E) /\ new \in E
    BY <1>4 DEF WeightsInv, R!TypeOK
  <2> HIDE DEF E
  <2>2. st_mint_list' \in Seq(E)
    BY <1>5, <2>1
  <2> QED  BY <1>5, <2>1, <2>2 DEF E
<1>7. \A j \in DOMAIN st_mint_list : st_mint_list'[j].st_mint = st_mint_list[j].st_mint
  BY <1>4, <1>6
<1>8. R!TypeOK'
  <2>1. edits' \in 0 .. MaxEdits
    BY <1>2, RegistryAssumption DEF WeightsInv, R!TypeOK
  <2> QED  BY <1>2, <1>6, <2>1 DEF WeightsInv, R!TypeOK
<1>9. RegistryInv'
  BY <1>2, <1>6, <1>7 DEF WeightsInv, RegistryInv
<1>10. TableInv'
  BY <1>2 DEF WeightsInv, TableInv
<1> QED  BY <1>8, <1>9, <1>10 DEF WeightsInv

LEMMA RegisterVaultInv ==
    ASSUME WeightsInv, NEW v \in RegistryVaults, R!RegisterVault(v)
    PROVE  WeightsInv'
<1> DEFINE entry == [vault |-> v, st_mint |-> MintOf[v]]
<1>1. /\ registry = "ready" /\ v \in ncn_vaults /\ vault_list' = Append(vault_list, entry)
      /\ \A i \in DOMAIN vault_list : vault_list[i].vault # v
      /\ \E j \in DOMAIN st_mint_list : st_mint_list[j].st_mint = MintOf[v]
      /\ UNCHANGED <<registry, st_mint_list, table_account, ncn_vaults, vault_registry, table,
                     set_weight_progress, feed, required, edits, slot>>
  BY DEF R!RegisterVault, R!InsertInto, R!has_st_mint, R!MintsOf, R!VaultsOf, R!accounts, R!tables, R!environment
<1>2. /\ vault_list' \in Seq(R!VaultEntry)
      /\ DOMAIN vault_list' = DOMAIN vault_list \cup {Len(vault_list) + 1}
      /\ Len(vault_list) + 1 \notin DOMAIN vault_list /\ vault_list'[Len(vault_list) + 1] = entry
      /\ \A i \in DOMAIN vault_list : vault_list'[i] = vault_list[i]
  <2> DEFINE E == R!VaultEntry
  <2>1. vault_list \in Seq(E) /\ entry \in E
    BY RegistryAssumption DEF WeightsInv, R!TypeOK, R!VaultEntry
  <2> HIDE DEF E, entry
  <2> SUFFICES /\ vault_list' \in Seq(E)
               /\ DOMAIN vault_list' = DOMAIN vault_list \cup {Len(vault_list) + 1}
               /\ Len(vault_list) + 1 \notin DOMAIN vault_list /\ vault_list'[Len(vault_list) + 1] = entry
               /\ \A i \in DOMAIN vault_list : vault_list'[i] = vault_list[i]
    BY DEF E
  <2> QED  BY <1>1, <2>1, Appended
<1>3. entry.vault = v
  OBVIOUS
<1> HIDE DEF entry
<1>4. R!TypeOK'
  BY <1>1, <1>2 DEF WeightsInv, R!TypeOK
<1>5. RegistryInv'
  BY <1>1, <1>2, <1>3 DEF WeightsInv, RegistryInv
<1>6. TableInv'
  BY <1>1, <1>2 DEF WeightsInv, TableInv
<1> QED  BY <1>4, <1>5, <1>6 DEF WeightsInv

-----------------------------------------------------------------------------
(* The weight table's handlers                                             *)

LEMMA SameCardinality ==
    ASSUME NEW S
    PROVE  R!Cardinality(S) = Cardinality(S)
BY DEF R!Cardinality, Cardinality, R!IsFiniteSet, IsFiniteSet

\* Equal counts mean equal sets: the registry has no vault twice.
LEMMA AllRegistered ==
    ASSUME WeightsInv, Cardinality(ncn_vaults) = Len(vault_list), NEW v \in ncn_vaults
    PROVE  \E i \in DOMAIN vault_list : vault_list[i].vault = v
<1> DEFINE D == DOMAIN vault_list
           f == [i \in D |-> vault_list[i].vault]
<1>1. IsFiniteSet(ncn_vaults)
  BY RegistryAssumption, FS_Subset DEF WeightsInv, R!TypeOK
<1>2. Cardinality(D) = Len(vault_list)
  <2>1. D = 1 .. Len(vault_list) /\ Len(vault_list) \in Nat
    BY EntryTypes DEF WeightsInv
  <2>2. \A n \in Nat : Cardinality(1 .. n) = n
    BY FS_Interval
  <2> QED  BY <2>1, <2>2
<1>3. f \in Injection(D, ncn_vaults)
  <2>1. \A i \in D : f[i] \in ncn_vaults
    BY DEF WeightsInv, RegistryInv
  <2>2. \A i, j \in D : f[i] = f[j] => i = j
    BY DEF WeightsInv, RegistryInv
  <2>3. f \in [D -> ncn_vaults]
    BY <2>1
  <2> HIDE DEF f, D
  <2> QED  BY <2>2, <2>3 DEF Injection, IsInjective
<1>4. f \in Surjection(D, ncn_vaults)
  <2> HIDE DEF f, D
  <2> QED  BY <1>1, <1>2, <1>3, FS_Injection
<1> QED  BY <1>4 DEF Surjection

LEMMA InitializeWeightTableInv ==
    ASSUME WeightsInv, R!InitializeWeightTable
    PROVE  WeightsInv'
<1>1. /\ registry = "ready" /\ table_account = "missing" /\ table_account' = "allocated"
      /\ Cardinality(ncn_vaults) = Len(vault_list) /\ required' = ncn_vaults
      /\ UNCHANGED <<registry, st_mint_list, vault_list, ncn_vaults, vault_registry, table,
                     set_weight_progress, feed, edits, slot>>
  BY SameCardinality DEF R!InitializeWeightTable, R!lists, R!tables, R!environment
<1>2. \A v \in ncn_vaults : \E i \in DOMAIN vault_list : vault_list[i].vault = v
  BY <1>1, AllRegistered
<1>3. R!TypeOK'
  BY <1>1 DEF WeightsInv, R!TypeOK, R!AccountStates
<1>4. RegistryInv' /\ TableInv'
  BY <1>1, <1>2 DEF WeightsInv, RegistryInv, TableInv
<1> QED  BY <1>3, <1>4 DEF WeightsInv

\* The entries of a new table are not set.
LEMMA NewTable ==
    ASSUME WeightsInv, NEW t, t = [i \in DOMAIN st_mint_list |-> R!NewWeightEntry(st_mint_list[i])]
    PROVE  /\ t \in Seq(R!WeightEntry) /\ DOMAIN t = DOMAIN st_mint_list
           /\ Len(t) = Len(st_mint_list) /\ R!weight_count(t) = 0
           /\ \A i \in DOMAIN t : t[i].st_mint_entry = st_mint_list[i]
<1>1. DOMAIN st_mint_list = 1 .. Len(st_mint_list) /\ Len(st_mint_list) \in Nat
  BY EntryTypes DEF WeightsInv
<1>2. ASSUME NEW i \in DOMAIN st_mint_list
      PROVE  t[i] \in R!WeightEntry /\ t[i].st_mint_entry = st_mint_list[i] /\ t[i].slot_set = 0
  <2>1. st_mint_list[i] \in R!StMintEntry
    BY EntryTypes DEF WeightsInv
  <2>2. 0 \in 0 .. MaxSlot
    BY RegistryAssumption
  <2> QED  BY <2>1, <2>2 DEF R!NewWeightEntry, R!WeightEntry
<1>3. t \in Seq(R!WeightEntry) /\ Len(t) = Len(st_mint_list)
  <2> DEFINE E == R!WeightEntry
  <2>1. \A i \in 1 .. Len(st_mint_list) : t[i] \in E
    BY <1>1, <1>2
  <2> HIDE DEF E
  <2>2. t \in [1 .. Len(st_mint_list) -> E]
    BY <1>1, <2>1
  <2>3. t \in Seq(E) /\ Len(t) = Len(st_mint_list)
    BY <1>1, <2>2
  <2> QED  BY <2>3 DEF E
<1>4. {i \in DOMAIN t : R!is_set(t[i])} = {}
  BY <1>2 DEF R!is_set
<1>5. R!weight_count(t) = 0
  BY <1>4, FS_EmptySet, SameCardinality DEF R!weight_count
<1> QED  BY <1>2, <1>3, <1>5

LEMMA ReallocWeightTableInv ==
    ASSUME WeightsInv, R!ReallocWeightTable
    PROVE  WeightsInv'
<1>1. /\ table_account = "allocated" /\ table_account' = "ready" /\ vault_registry' = vault_list
      /\ table' = [i \in DOMAIN st_mint_list |-> R!NewWeightEntry(st_mint_list[i])]
      /\ set_weight_progress' = [tally |-> 0, total |-> Len(st_mint_list)]
      /\ UNCHANGED <<registry, st_mint_list, vault_list, ncn_vaults, feed, required, edits, slot>>
  BY DEF R!ReallocWeightTable, R!lists, R!environment
<1>2. /\ table' \in Seq(R!WeightEntry) /\ DOMAIN table' = DOMAIN st_mint_list
      /\ Len(table') = Len(st_mint_list) /\ R!weight_count(table') = 0
      /\ \A i \in DOMAIN table' : table'[i].st_mint_entry = st_mint_list[i]
  BY <1>1, NewTable
<1>3. R!TypeOK'
  <2>1. Len(st_mint_list) \in Nat
    BY EntryTypes DEF WeightsInv
  <2> QED  BY <1>1, <1>2, <2>1 DEF WeightsInv, R!TypeOK, R!AccountStates
<1>4. RegistryInv'
  BY <1>1 DEF WeightsInv, RegistryInv
<1>5. TableInv'
  <2>1. set_weight_progress' = [tally |-> R!weight_count(table'), total |-> Len(table')]
    BY <1>1, <1>2
  <2>2. \A i, j \in DOMAIN table' :
            table'[i].st_mint_entry.st_mint = table'[j].st_mint_entry.st_mint => i = j
    BY <1>2 DEF WeightsInv, RegistryInv
  <2>3. \A v \in required : \E i \in DOMAIN vault_list : vault_list[i].vault = v
    BY <1>1 DEF WeightsInv, TableInv
  <2>4. \A i \in DOMAIN vault_list :
            /\ vault_list[i].vault \in ncn_vaults
            /\ \E j \in DOMAIN table' : table'[j].st_mint_entry.st_mint = MintOf[vault_list[i].vault]
    BY <1>2 DEF WeightsInv, RegistryInv
  <2>5. (R!weight_count(table))' = R!weight_count(table')
    BY DEF R!weight_count, R!is_set
  <2> QED  BY <1>1, <2>1, <2>2, <2>3, <2>4, <2>5 DEF TableInv
<1> QED  BY <1>3, <1>4, <1>5 DEF WeightsInv

LEMMA WeightCountType ==
    ASSUME NEW t \in Seq(R!WeightEntry)
    PROVE  R!weight_count(t) \in Nat
<1> DEFINE S == {i \in DOMAIN t : R!is_set(t[i])}
           E == R!WeightEntry
<1>1. t \in Seq(E)
  OBVIOUS
<1> HIDE DEF E
<1>2. DOMAIN t = 1 .. Len(t) /\ Len(t) \in Nat
  BY <1>1
<1>3. S \in SUBSET (1 .. Len(t))
  BY <1>2
<1>4. IsFiniteSet(1 .. Len(t))
  BY <1>2, FS_Interval
<1> HIDE DEF S
<1>5. Cardinality(S) \in Nat
  BY <1>3, <1>4, FS_Subset, FS_CardinalityType
<1> QED  BY <1>5, SameCardinality DEF S, R!weight_count

\* admin_set_weight and switchboard_set_weight
LEMMA SetWeightInv ==
    ASSUME WeightsInv, table_account = "ready", NEW i \in DOMAIN table,
           NEW weight \in Weights \cup {0} \cup {R!Rounded(p) : p \in Prices}, R!SetWeight(i, weight)
    PROVE  WeightsInv'
<1> DEFINE e == R!WithWeight(table[i], weight)
<1>1. /\ table' = [table EXCEPT ![i] = e]
      /\ set_weight_progress' = [tally |-> R!weight_count(table'), total |-> Len(table)]
      /\ UNCHANGED <<registry, table_account, st_mint_list, vault_list, ncn_vaults, vault_registry,
                     feed, required, edits, slot>>
  BY DEF R!SetWeight, R!accounts, R!lists, R!environment
<1>2. e \in R!WeightEntry /\ e.st_mint_entry = table[i].st_mint_entry
  <2>1. table[i] \in R!WeightEntry
    BY EntryTypes DEF WeightsInv
  <2>2. slot \in 0 .. MaxSlot
    BY RegistryAssumption DEF WeightsInv, R!TypeOK
  <2> QED  BY <2>1, <2>2 DEF R!WithWeight, R!WeightEntry
<1> HIDE DEF e
<1>3. /\ table' \in Seq(R!WeightEntry) /\ DOMAIN table' = DOMAIN table /\ Len(table') = Len(table)
      /\ table'[i] = e /\ \A j \in DOMAIN table : j # i => table'[j] = table[j]
  <2> DEFINE E == R!WeightEntry
  <2>1. table \in Seq(E) /\ e \in E
    BY <1>2 DEF WeightsInv, R!TypeOK
  <2> HIDE DEF E
  <2>2. table' \in Seq(E) /\ Len(table') = Len(table)
    BY <1>1, <2>1
  <2> QED  BY <1>1, <2>1, <2>2 DEF E
<1>4. \A j \in DOMAIN table : table'[j].st_mint_entry = table[j].st_mint_entry
  BY <1>2, <1>3
<1>5. R!TypeOK'
  <2>1. Len(table) \in Nat /\ R!weight_count(table') \in Nat
    BY <1>3, EntryTypes, WeightCountType DEF WeightsInv
  <2>2. set_weight_progress' \in [tally : Nat, total : Nat]
    BY <1>1, <2>1
  <2> QED  BY <1>1, <1>3, <2>2 DEF WeightsInv, R!TypeOK
<1>6. RegistryInv'
  BY <1>1 DEF WeightsInv, RegistryInv
<1>7. TableInv'
  <2>1. (R!weight_count(table))' = R!weight_count(table')
    BY DEF R!weight_count, R!is_set
  <2>2. set_weight_progress' = [tally |-> (R!weight_count(table))', total |-> Len(table')]
    BY <1>1, <1>3, <2>1
  <2>3. \A j, k \in DOMAIN table' :
            table'[j].st_mint_entry.st_mint = table'[k].st_mint_entry.st_mint => j = k
    BY <1>3, <1>4 DEF WeightsInv, TableInv
  <2>4. \A j \in DOMAIN vault_registry :
            /\ vault_registry[j].vault \in ncn_vaults
            /\ \E k \in DOMAIN table' : table'[k].st_mint_entry.st_mint = MintOf[vault_registry[j].vault]
    BY <1>3, <1>4 DEF WeightsInv, TableInv
  <2> QED  BY <1>1, <2>2, <2>3, <2>4 DEF WeightsInv, TableInv
<1> QED  BY <1>5, <1>6, <1>7 DEF WeightsInv

LEMMA AdminSetWeightInv ==
    ASSUME WeightsInv, NEW mint, NEW weight \in Weights, R!AdminSetWeight(mint, weight)
    PROVE  WeightsInv'
<1>1. PICK i \in DOMAIN table : R!SetWeight(i, weight)
  BY DEF R!AdminSetWeight
<1>2. table_account = "ready"
  BY DEF R!AdminSetWeight
<1> QED  BY <1>1, <1>2, SetWeightInv

LEMMA SwitchboardSetWeightInv ==
    ASSUME WeightsInv, NEW mint, R!SwitchboardSetWeight(mint)
    PROVE  WeightsInv'
<1>0. PICK i \in DOMAIN table :
          \E weight \in R!FeedWeights(table[i].st_mint_entry) : R!SetWeight(i, weight)
  BY DEF R!SwitchboardSetWeight
<1>1. PICK weight \in R!FeedWeights(table[i].st_mint_entry) : R!SetWeight(i, weight)
  BY <1>0
<1>2. table_account = "ready"
  BY DEF R!SwitchboardSetWeight
<1>3. weight \in Weights \cup {0} \cup {R!Rounded(p) : p \in Prices}
  <2> DEFINE e == table[i].st_mint_entry
  <2>1. e \in R!StMintEntry
    BY EntryTypes DEF WeightsInv, R!WeightEntry
  <2>2. e.no_feed_weight \in Weights \cup {0} /\ e.switchboard_feed \in Feeds \cup {NoFeed}
    BY <2>1 DEF R!StMintEntry
  <2>3. \A f \in Feeds : feed[f].price \in Prices
    BY DEF WeightsInv, R!TypeOK
  <2> HIDE DEF e
  <2>4. \A w \in R!FeedWeights(e) : w \in Weights \cup {0} \/ \E p \in Prices : w = R!Rounded(p)
    BY <2>2, <2>3 DEF R!FeedWeights
  <2> QED  BY <1>1, <2>4 DEF e
<1> QED  BY <1>1, <1>2, <1>3, SetWeightInv

-----------------------------------------------------------------------------
(* The environment, and the whole specification                            *)

LEMMA SurroundingsInv ==
    ASSUME WeightsInv, (\E v \in RegistryVaults : R!NcnAddsVault(v)) \/ (\E f \in Feeds : R!FeedUpdate(f)) \/ R!Tick
    PROVE  WeightsInv'
<1>1. /\ UNCHANGED <<registry, st_mint_list, vault_list, table_account, vault_registry, table,
                     set_weight_progress, required, edits>>
      /\ ncn_vaults \subseteq ncn_vaults' /\ ncn_vaults' \subseteq RegistryVaults
  BY DEF WeightsInv, R!TypeOK, R!NcnAddsVault, R!FeedUpdate, R!Tick, R!accounts, R!lists, R!tables
<1>2. feed' \in [Feeds -> [price : Prices, slot : 1 .. MaxSlot]] /\ slot' \in 1 .. MaxSlot
  <2>1. feed \in [Feeds -> [price : Prices, slot : 1 .. MaxSlot]] /\ slot \in 1 .. MaxSlot
    BY DEF WeightsInv, R!TypeOK
  <2>2. CASE \E v \in RegistryVaults : R!NcnAddsVault(v)
    BY <2>1, <2>2 DEF R!NcnAddsVault
  <2>3. ASSUME NEW f \in Feeds, R!FeedUpdate(f)
        PROVE  feed' \in [Feeds -> [price : Prices, slot : 1 .. MaxSlot]] /\ slot' = slot
    <3>1. PICK p \in Prices : feed' = [feed EXCEPT ![f] = [price |-> p, slot |-> slot]]
      BY <2>3 DEF R!FeedUpdate
    <3> DEFINE E == [price : Prices, slot : 1 .. MaxSlot]
               r == [price |-> p, slot |-> slot]
    <3>2. feed \in [Feeds -> E] /\ r \in E
      BY <2>1
    <3> HIDE DEF E, r
    <3>3. feed' = [feed EXCEPT ![f] = r]
      BY <3>1 DEF r
    <3>4. feed' \in [Feeds -> E]
      BY <3>2, <3>3
    <3> QED  BY <2>3, <3>4 DEF R!FeedUpdate, E
  <2>4. CASE R!Tick
    BY <2>1, <2>4, RegistryAssumption DEF R!Tick
  <2> QED  BY <2>1, <2>2, <2>3, <2>4
<1>3. R!TypeOK'
  BY <1>1, <1>2 DEF WeightsInv, R!TypeOK
<1>4. RegistryInv'
  BY <1>1 DEF WeightsInv, RegistryInv
<1>5. TableInv'
  BY <1>1 DEF WeightsInv, TableInv, R!weight_count, R!is_set
<1> QED  BY <1>3, <1>4, <1>5 DEF WeightsInv

LEMMA WeightsKept ==
    ASSUME WeightsInv, UNCHANGED registry_vars
    PROVE  WeightsInv'
<1>1. UNCHANGED <<registry, st_mint_list, vault_list, ncn_vaults, table_account, vault_registry,
                  table, set_weight_progress, feed, required, edits, slot>>
  BY DEF registry_vars
<1>2. R!TypeOK'
  BY <1>1 DEF WeightsInv, R!TypeOK
<1>3. RegistryInv' /\ TableInv'
  BY <1>1 DEF WeightsInv, RegistryInv, TableInv, R!weight_count, R!is_set
<1> QED  BY <1>2, <1>3 DEF WeightsInv

LEMMA WeightsStepInv == WeightsInv /\ [StakeNext]_all_vars => WeightsInv'
<1> SUFFICES ASSUME WeightsInv, [StakeNext]_all_vars  PROVE WeightsInv'
  OBVIOUS
<1>1. CASE R!Next
  <2>1. ASSUME NEW m \in Mints, NEW c \in R!Changes, R!AdminSetStMint(m, c)  PROVE WeightsInv'
    BY <2>1, AdminSetStMintInv
  <2>2. ASSUME NEW m \in Mints, NEW w \in Weights, R!AdminSetWeight(m, w)  PROVE WeightsInv'
    BY <2>2, AdminSetWeightInv
  <2>3. ASSUME NEW m \in Mints, R!SwitchboardSetWeight(m)  PROVE WeightsInv'
    BY <2>3, SwitchboardSetWeightInv
  <2>4. ASSUME NEW entry \in R!StMintEntry, R!AdminRegisterStMint(entry)  PROVE WeightsInv'
    BY <2>4, AdminRegisterStMintInv
  <2>5. ASSUME NEW v \in RegistryVaults, R!RegisterVault(v)  PROVE WeightsInv'
    BY <2>5, RegisterVaultInv
  <2> QED  BY <1>1, <2>1, <2>2, <2>3, <2>4, <2>5, RegistryCreatedInv, InitializeWeightTableInv,
              ReallocWeightTableInv, SurroundingsInv DEF R!Next
<1>2. CASE UNCHANGED registry_vars
  BY <1>2, WeightsKept
<1> QED  BY <1>1, <1>2 DEF StakeNext, WeightsStep, SnapshotStep, all_vars

LEMMA WeightsInit == StakeInit => WeightsInv
<1> SUFFICES ASSUME StakeInit  PROVE WeightsInv
  OBVIOUS
<1>1. /\ registry = "missing" /\ table_account = "missing" /\ st_mint_list = <<>> /\ vault_list = <<>>
      /\ ncn_vaults = {} /\ vault_registry = <<>> /\ table = <<>>
      /\ set_weight_progress = [tally |-> 0, total |-> 0]
      /\ feed \in [Feeds -> [price : Prices, slot : {1}]] /\ required = {} /\ edits = 0 /\ slot = 1
  BY DEF StakeInit, R!Init
<1>2. feed \in [Feeds -> [price : Prices, slot : 1 .. MaxSlot]]
  <2>1. 1 \in 1 .. MaxSlot
    BY RegistryAssumption
  <2>2. \A f \in Feeds : feed[f] \in [price : Prices, slot : 1 .. MaxSlot]
    BY <1>1, <2>1
  <2> QED  BY <1>1, <2>2
<1>3. edits \in 0 .. MaxEdits /\ slot \in 1 .. MaxSlot
  BY <1>1, RegistryAssumption
<1>4. R!TypeOK
  BY <1>1, <1>2, <1>3 DEF R!TypeOK, R!AccountStates
<1>5. RegistryInv /\ TableInv
  BY <1>1 DEF RegistryInv, TableInv
<1> QED  BY <1>4, <1>5 DEF WeightsInv

\* Whatever the admin, the NCN and the cranks do, the registry has no vault and
\* no mint twice, and the weight table is a faithful copy of it.
THEOREM WeightsInvariant == StakeSpec => []WeightsInv
BY WeightsInit, WeightsStepInv, PTL DEF StakeSpec

\* The table that initialize_weight_table allowed by comparing two counts, and
\* realloc_weight_table copied later, has every vault the NCN then had, and one
\* weight entry for each of them, for all registries.
THEOREM TablesCoverTheNcn == StakeSpec => []TableCoversNcn
<1>1. WeightsInv => TableCoversNcn
  <2> SUFFICES ASSUME WeightsInv, table_account = "ready"
               PROVE  /\ R!TypeOK
                      /\ required \subseteq R!VaultsOf(vault_registry)
                      /\ R!VaultsOf(vault_registry) \subseteq ncn_vaults
                      /\ \A v \in R!VaultsOf(vault_registry) :
                            R!Cardinality({j \in DOMAIN table : table[j].st_mint_entry.st_mint = MintOf[v]}) = 1
    BY DEF TableCoversNcn, R!TableCoversNcn
  <2>1. R!TypeOK /\ required \subseteq R!VaultsOf(vault_registry) /\ R!VaultsOf(vault_registry) \subseteq ncn_vaults
    BY DEF WeightsInv, TableInv, R!VaultsOf
  <2>2. ASSUME NEW v \in R!VaultsOf(vault_registry)
        PROVE  Cardinality({j \in DOMAIN table : table[j].st_mint_entry.st_mint = MintOf[v]}) = 1
    <3> DEFINE S == {j \in DOMAIN table : table[j].st_mint_entry.st_mint = MintOf[v]}
    <3>1. PICK k \in DOMAIN table : table[k].st_mint_entry.st_mint = MintOf[v]
      BY DEF WeightsInv, TableInv, R!VaultsOf
    <3>2. \A j \in DOMAIN table : table[j].st_mint_entry.st_mint = MintOf[v] => j = k
      BY <3>1 DEF WeightsInv, TableInv
    <3>3. S = {k}
      BY <3>1, <3>2
    <3> HIDE DEF S
    <3>4. Cardinality(S) = 1
      BY <3>3, FS_Singleton
    <3> QED  BY <3>4 DEF S
  <2>3. \A v \in R!VaultsOf(vault_registry) :
            R!Cardinality({j \in DOMAIN table : table[j].st_mint_entry.st_mint = MintOf[v]}) = 1
    BY <2>2, SameCardinality
  <2> QED  BY <2>1, <2>3
<1> QED  BY <1>1, WeightsInvariant, PTL

\* Once every mint of the table has a weight nothing changes the table, neither
\* the admin nor a crank nor a change of the registry, and the epoch state says
\* that it is complete: all snapshots of the epoch use the same weights.
THEOREM FinalizedTablesAreFrozen == StakeSpec => FinalizedTableIsFrozen
<1> DEFINE A == R!finalized => /\ UNCHANGED <<vault_registry, table, set_weight_progress>>
                               /\ set_weight_progress.tally = set_weight_progress.total
<1>1. WeightsInv /\ [StakeNext]_all_vars => [A]_(R!vars)
  <2> SUFFICES ASSUME WeightsInv, [StakeNext]_all_vars, R!finalized
               PROVE  /\ UNCHANGED <<vault_registry, table, set_weight_progress>>
                      /\ set_weight_progress.tally = set_weight_progress.total
    OBVIOUS
  <2>1. table_account = "ready"
    BY DEF R!finalized, WeightsInv, TableInv
  <2>2. set_weight_progress.tally = set_weight_progress.total
    BY <2>1 DEF R!finalized, WeightsInv, TableInv
  <2>3. CASE R!Next
    <3>1. ASSUME NEW i, NEW w, R!SetWeight(i, w)  PROVE FALSE
      BY <3>1 DEF R!SetWeight
    <3>2. ~ R!ReallocWeightTable
      BY <2>1 DEF R!ReallocWeightTable
    <3>3. \A m : ~ R!SwitchboardSetWeight(m) /\ \A w : ~ R!AdminSetWeight(m, w)
      BY <3>1 DEF R!SwitchboardSetWeight, R!AdminSetWeight
    <3> QED  BY <2>2, <2>3, <3>2, <3>3 DEF R!Next, R!InitializeVaultRegistry, R!ReallocVaultRegistry,
                R!AdminRegisterStMint, R!AdminSetStMint, R!RegisterVault, R!NcnAddsVault,
                R!InitializeWeightTable, R!FeedUpdate, R!Tick, R!tables
  <2>4. CASE UNCHANGED registry_vars
    BY <2>2, <2>4 DEF registry_vars
  <2> QED  BY <2>2, <2>3, <2>4 DEF StakeNext, WeightsStep, SnapshotStep, all_vars
<1>2. FinalizedTableIsFrozen <=> [][A]_(R!vars)
  BY DEF FinalizedTableIsFrozen, R!FinalizedTableIsFrozen
<1> QED  BY <1>1, <1>2, WeightsInvariant, PTL DEF StakeSpec

-----------------------------------------------------------------------------
(* The snapshots: the inductive invariant                                  *)

OperatorSnapshots ==
    [is_active : BOOLEAN, vault_operator_delegation_count : 0 .. MAX_VAULTS,
     entries : Seq(Entry), valid_delegations : Nat, stake_weights : StakeWeights]
EpochSnapshots ==
    [operator_count : Operators, operators_registered : Nat, vault_count : Nat,
     valid_delegations : Nat, stake_weights : StakeWeights]
TakenEntry == [epoch : Nat, stake : Nat]

StakeTyped ==
    /\ epoch_snapshot \in {None} \cup EpochSnapshots
    /\ operator_snapshot \in [Operators -> {None} \cup OperatorSnapshots]
    /\ taken \in [Operators -> [Vaults -> {None} \cup TakenEntry]]
    /\ delegation \in [Vaults -> [Operators -> {None} \cup DelegationState]]
    /\ free \in [Vaults -> Nat] /\ updated \in [Vaults -> 0 .. MaxEpoch]
    /\ ncn_operators \in Operators /\ barred \subseteq Vaults \cup Operators
    /\ leaving \in [Vaults \cup Operators -> {"active", "cooldown", "inactive"}]
    /\ events \in 0 .. MaxEvents /\ epoch \in 0 .. MaxEpoch

\* An operator snapshot has different vaults of the table, no more than it
\* expects, and their weights add up to its own.
Column(s, c) == [i \in DOMAIN s.entries |-> s.entries[i].stake_weights[c]]
SnapshotSound(s) ==
    /\ Len(s.entries) <= s.vault_operator_delegation_count
    /\ s.vault_operator_delegation_count = IF s.is_active THEN Cardinality(TableVaults) ELSE 0
    /\ \A i \in DOMAIN s.entries : s.entries[i].vault \in TableVaults
    /\ \A i, j \in DOMAIN s.entries : s.entries[i].vault = s.entries[j].vault => i = j
    /\ \A c \in Components : s.stake_weights[c] = SumOf(Column(s, c))

\* The epoch snapshot counts the final ones, all of operators it expects.
FinalWeights(c) == [o \in FinalOperators |-> operator_snapshot[o].stake_weights[c]]
SnapshotsInv ==
    /\ \A o \in Operators : Exists(operator_snapshot[o]) =>
          /\ SnapshotSound(operator_snapshot[o])
          /\ Exists(epoch_snapshot) /\ o <= epoch_snapshot.operator_count
    /\ Exists(epoch_snapshot) =>
          /\ epoch_snapshot.vault_count = Cardinality(TableVaults)
          /\ epoch_snapshot.operators_registered = Cardinality(FinalOperators)
          /\ \A c \in Components : epoch_snapshot.stake_weights[c] = SumOf(FinalWeights(c))

\* A vault's tokens are where they were or with some operator; what an entry of
\* this epoch counted is still with its operator, since the vault is up to date.
Security(d) == IF Exists(d) THEN total_security(d) ELSE 0
With(v) == [o \in Operators |-> Security(delegation[v][o])]
TakenIn(v, e) == {o \in Operators : Exists(taken[o][v]) /\ taken[o][v].epoch = e}
Counted(v, e) == [o \in TakenIn(v, e) |-> taken[o][v].stake]
TokensInv ==
    /\ \A v \in Vaults : updated[v] <= epoch /\ free[v] + SumOf(With(v)) = Deposits[v]
    /\ \A v \in Vaults, o \in Operators : Exists(taken[o][v]) =>
          /\ Exists(operator_snapshot[o]) /\ contains_vault_index(operator_snapshot[o], v)
          /\ taken[o][v].epoch <= epoch
          /\ taken[o][v].epoch = epoch =>
                updated[v] = epoch /\ taken[o][v].stake <= Security(delegation[v][o])
    /\ \A v \in Vaults, e \in 0 .. epoch : SumOf(Counted(v, e)) <= Deposits[v]

StakeInv == StakeTyped /\ SnapshotsInv /\ TokensInv

-----------------------------------------------------------------------------
(* Constants and types                                                     *)

LEMMA StakeFacts ==
    /\ IsFiniteSet(Operators) /\ Operators \subseteq Nat /\ IsFiniteSet(TableVaults)
    /\ TableVaults \subseteq Vaults
    /\ Cardinality(TableVaults) \in Nat \ {0} /\ Cardinality(TableVaults) <= MAX_VAULTS
    /\ MAX_VAULTS \in Nat /\ MaxEvents \in Nat /\ MaxEpoch \in Nat
<1>1. IsFiniteSet(Operators) /\ Operators \subseteq Nat
  <2>1. \A a, b \in Int : IsFiniteSet(a .. b)
    BY FS_Interval
  <2> QED  BY <2>1, SnapshotAssumption DEF Operators
<1>2. IsFiniteSet(TableVaults) /\ TableVaults \subseteq Vaults
  BY SnapshotAssumption, FS_Subset
<1>3. Cardinality(TableVaults) \in Nat /\ Cardinality(TableVaults) # 0
  BY <1>2, SnapshotAssumption, FS_CardinalityType, FS_EmptySet
<1> QED  BY <1>1, <1>2, <1>3, SnapshotAssumption

LEMMA NoneIsNone ==
    /\ None \notin OperatorSnapshots /\ None \notin EpochSnapshots
    /\ None \notin TakenEntry /\ None \notin DelegationState
BY DEF None, OperatorSnapshots, EpochSnapshots, TakenEntry, DelegationState

LEMMA SecurityType ==
    ASSUME StakeTyped, NEW v \in Vaults
    PROVE  /\ \A o \in Operators : Security(delegation[v][o]) \in Nat
           /\ With(v) \in [Operators -> Nat] /\ SumOf(With(v)) \in Nat
           /\ \A o \in Operators : With(v)[o] = Security(delegation[v][o])
<1>1. ASSUME NEW o \in Operators  PROVE Security(delegation[v][o]) \in Nat
  BY DEF StakeTyped, Security, Exists, total_security, DelegationState
<1>2. With(v) \in [Operators -> Nat]
  BY <1>1 DEF With
<1>3. SumOf(With(v)) \in Nat
  BY <1>2, StakeFacts, SumType
<1> QED  BY <1>1, <1>2, <1>3 DEF With

\* A sum over some operators of no more than what others add up to over all.
LEMMA SumWithin ==
    ASSUME NEW S \in SUBSET Operators, NEW f \in [S -> Nat], NEW h \in [Operators -> Nat],
           \A o \in S : f[o] <= h[o]
    PROVE  SumOf(f) <= SumOf(h)
<1>1. IsFiniteSet(Operators) /\ IsFiniteSet(S)
  BY StakeFacts, FS_Subset
<1>2. On(h, S) \in [S -> Nat] /\ \A o \in S : f[o] <= On(h, S)[o]
  BY DEF On
<1>3. SumOf(f) <= SumOf(On(h, S)) /\ SumOf(f) \in Nat
  BY <1>1, <1>2, SumMonotone, SumType
<1>4. SumOf(On(h, S)) <= SumOf(h) /\ SumOf(On(h, S)) \in Nat /\ SumOf(h) \in Nat
  BY <1>1, SumSplit, SumType
<1> QED  BY <1>3, <1>4

-----------------------------------------------------------------------------
(* Steps that leave the snapshots alone                                    *)

LEMMA SnapshotsKept ==
    ASSUME StakeInv, UNCHANGED <<epoch_snapshot, operator_snapshot>>
    PROVE  SnapshotsInv'
<1>1. FinalOperators' = FinalOperators
  BY DEF FinalOperators, Taken
<1>2. \A c : FinalWeights(c)' = FinalWeights(c)
  BY <1>1 DEF FinalWeights
<1> QED  BY <1>1, <1>2 DEF StakeInv, SnapshotsInv

\* The restaking program, and steps that change nothing.
LEMMA OptInsInv ==
    ASSUME StakeInv, UNCHANGED <<snapshots, vault_program, epoch>>,
           \/ NcnAddsOperator
           \/ \E p \in Vaults \cup Operators : NcnRemoves(p) \/ Leaves(p) \/ CooldownEnds(p)
           \/ UNCHANGED vars
    PROVE  StakeInv'
<1>1. UNCHANGED <<epoch_snapshot, operator_snapshot, taken, delegation, free, updated, epoch>>
  BY DEF snapshots, vault_program
<1>2. /\ ncn_operators' \in Operators /\ barred' \subseteq Vaults \cup Operators
      /\ leaving' \in [Vaults \cup Operators -> {"active", "cooldown", "inactive"}]
      /\ events' \in 0 .. MaxEvents
  <2>0. /\ ncn_operators \in Operators /\ barred \subseteq Vaults \cup Operators
        /\ leaving \in [Vaults \cup Operators -> {"active", "cooldown", "inactive"}]
        /\ events \in 0 .. MaxEvents
    BY DEF StakeInv, StakeTyped
  <2>1. CASE NcnAddsOperator
    <3>1. ncn_operators' = ncn_operators + 1 /\ ncn_operators < OperatorLimit
      BY <2>1 DEF NcnAddsOperator
    <3>2. ncn_operators' \in Operators
      BY <2>0, <3>1, SnapshotAssumption DEF Operators
    <3> QED  BY <2>0, <2>1, <3>2 DEF NcnAddsOperator
  <2>2. ASSUME NEW p \in Vaults \cup Operators, NcnRemoves(p) \/ Leaves(p)
        PROVE  events' \in 0 .. MaxEvents
    BY <2>0, <2>2, StakeFacts DEF NcnRemoves, Leaves
  <2>3. ASSUME NEW p \in Vaults \cup Operators, NcnRemoves(p) \/ Leaves(p) \/ CooldownEnds(p)
        PROVE  /\ ncn_operators' \in Operators /\ barred' \subseteq Vaults \cup Operators
               /\ leaving' \in [Vaults \cup Operators -> {"active", "cooldown", "inactive"}]
               /\ CooldownEnds(p) => events' = events
    BY <2>0, <2>3 DEF NcnRemoves, Leaves, CooldownEnds
  <2>4. CASE UNCHANGED vars
    BY <2>0, <2>4 DEF vars, opt_ins
  <2> QED  BY <2>0, <2>1, <2>2, <2>3, <2>4
<1>3. StakeTyped'
  BY <1>1, <1>2 DEF StakeInv, StakeTyped
<1>4. TokensInv'
  BY <1>1 DEF StakeInv, TokensInv, With, Counted, TakenIn
<1> QED  BY <1>1, <1>3, <1>4, SnapshotsKept DEF StakeInv

LEMMA NextEpochInv ==
    ASSUME StakeInv, NextEpoch
    PROVE  StakeInv'
<1>1. /\ epoch < MaxEpoch /\ epoch' = epoch + 1 /\ epoch \in Nat
      /\ UNCHANGED <<epoch_snapshot, operator_snapshot, taken, delegation, free, updated,
                     ncn_operators, barred, leaving, events>>
  BY StakeFacts DEF NextEpoch, snapshots, vault_program, opt_ins, StakeInv, StakeTyped
<1>2. StakeTyped'
  BY <1>1, StakeFacts DEF StakeInv, StakeTyped
<1>3. \A v : With(v)' = With(v) /\ \A e : Counted(v, e)' = Counted(v, e) /\ TakenIn(v, e)' = TakenIn(v, e)
  BY <1>1 DEF With, Counted, TakenIn
<1>4. \A v \in Vaults : updated[v] \in Nat
  BY StakeFacts DEF StakeInv, StakeTyped
<1>5. \A v \in Vaults, o \in Operators : Exists(taken[o][v]) => taken[o][v].epoch \in Nat
  BY DEF StakeInv, StakeTyped, Exists, TakenEntry
<1>6. ASSUME NEW v \in Vaults  PROVE SumOf(Counted(v, epoch + 1)) = 0
  <2> DEFINE f == Counted(v, epoch + 1)
  <2>1. TakenIn(v, epoch + 1) = {}
    <3>1. \A o \in Operators : Exists(taken[o][v]) => taken[o][v].epoch <= epoch
      BY DEF StakeInv, TokensInv
    <3>2. \A o \in Operators : Exists(taken[o][v]) => taken[o][v].epoch # epoch + 1
      BY <1>1, <1>5, <3>1
    <3> QED  BY <3>2 DEF TakenIn
  <2>2. f = [o \in {} |-> f[o]]
    BY <2>1 DEF Counted
  <2> HIDE DEF f
  <2>3. SumOf(f) = 0
    BY <2>2, SumZero
  <2> QED  BY <2>3 DEF f
<1>7. \A v \in Vaults : Deposits[v] \in Nat
  BY SnapshotAssumption
<1>8. TokensInv'
  <2>1. \A v \in Vaults : updated[v] <= epoch + 1 /\ free[v] + SumOf(With(v)) = Deposits[v]
    BY <1>1, <1>4 DEF StakeInv, TokensInv
  <2>2. ASSUME NEW v \in Vaults, NEW o \in Operators, Exists(taken[o][v])
        PROVE  /\ Exists(operator_snapshot[o]) /\ contains_vault_index(operator_snapshot[o], v)
               /\ taken[o][v].epoch <= epoch + 1 /\ taken[o][v].epoch # epoch + 1
    <3>1. /\ Exists(operator_snapshot[o]) /\ contains_vault_index(operator_snapshot[o], v)
          /\ taken[o][v].epoch <= epoch
      BY <2>2 DEF StakeInv, TokensInv
    <3>2. taken[o][v].epoch \in Nat
      BY <1>5, <2>2
    <3>3. taken[o][v].epoch <= epoch + 1 /\ taken[o][v].epoch # epoch + 1
      BY <1>1, <3>1, <3>2
    <3> QED  BY <3>1, <3>3
  <2>3. ASSUME NEW v \in Vaults, NEW e \in 0 .. epoch + 1
        PROVE  SumOf(Counted(v, e)) <= Deposits[v]
    <3>1. CASE e = epoch + 1
      BY <1>6, <1>7, <3>1
    <3>2. CASE e # epoch + 1
      <4>1. e \in 0 .. epoch
        BY <1>1, <3>2
      <4> QED  BY <4>1 DEF StakeInv, TokensInv
    <3> QED  BY <3>1, <3>2
  <2> QED  BY <1>1, <1>3, <2>1, <2>2, <2>3 DEF TokensInv
<1> QED  BY <1>1, <1>2, <1>8, SnapshotsKept DEF StakeInv

-----------------------------------------------------------------------------
(* The vault program                                                       *)

\* A vault that is up to date after the step moves its own tokens, and takes
\* none from an operator if it was up to date before.
LEMMA TokensMove ==
    ASSUME StakeInv, NEW v \in Vaults,
           UNCHANGED <<epoch_snapshot, operator_snapshot, taken, ncn_operators, barred, leaving, epoch>>,
           delegation' \in [Vaults -> [Operators -> {None} \cup DelegationState]],
           free' \in [Vaults -> Nat], updated' \in [Vaults -> 0 .. MaxEpoch], events' \in 0 .. MaxEvents,
           \A w \in Vaults : w # v =>
               delegation'[w] = delegation[w] /\ free'[w] = free[w] /\ updated'[w] = updated[w],
           updated'[v] = epoch, free'[v] + SumOf(With(v)') = Deposits[v],
           \/ updated[v] < epoch
           \/ \A o \in Operators : Security(delegation[v][o]) <= Security(delegation'[v][o])
    PROVE  StakeInv'
<1>1. StakeTyped'
  BY DEF StakeInv, StakeTyped
<1>2. \A w, e : Counted(w, e)' = Counted(w, e)
  BY DEF Counted, TakenIn
<1>3. ASSUME NEW w \in Vaults  PROVE updated'[w] <= epoch /\ free'[w] + SumOf(With(w)') = Deposits[w]
  <2>1. CASE w = v
    <3>1. epoch <= epoch
      BY StakeFacts DEF StakeInv, StakeTyped
    <3> QED  BY <2>1, <3>1
  <2>2. CASE w # v
    <3>1. With(w)' = With(w)
      BY <2>2 DEF With
    <3> QED  BY <2>2, <3>1 DEF StakeInv, TokensInv
  <2> QED  BY <2>1, <2>2
<1>4. ASSUME NEW w \in Vaults, NEW o \in Operators, Exists(taken[o][w])
      PROVE  /\ Exists(operator_snapshot[o]) /\ contains_vault_index(operator_snapshot[o], w)
             /\ taken[o][w].epoch <= epoch
             /\ taken[o][w].epoch = epoch =>
                   updated'[w] = epoch /\ taken[o][w].stake <= Security(delegation'[w][o])
  <2>1. /\ Exists(operator_snapshot[o]) /\ contains_vault_index(operator_snapshot[o], w)
        /\ taken[o][w].epoch <= epoch
        /\ taken[o][w].epoch = epoch =>
              updated[w] = epoch /\ taken[o][w].stake <= Security(delegation[w][o])
    BY <1>4 DEF StakeInv, TokensInv
  <2>2. CASE w # v
    BY <2>1, <2>2
  <2>3. ASSUME w = v, taken[o][w].epoch = epoch
        PROVE  updated'[w] = epoch /\ taken[o][w].stake <= Security(delegation'[w][o])
    <3>1. epoch \in Nat /\ ~ (epoch < epoch)
      BY StakeFacts DEF StakeInv, StakeTyped
    <3>2. Security(delegation[v][o]) <= Security(delegation'[v][o])
      BY <2>1, <2>3, <3>1
    <3>3. Security(delegation[v][o]) \in Nat
      BY SecurityType DEF StakeInv
    <3>4. Security(delegation'[v][o]) \in Nat
      BY DEF Security, Exists, total_security, DelegationState
    <3>5. taken[o][w].stake \in Nat
      BY <1>4 DEF StakeInv, StakeTyped, Exists, TakenEntry
    <3> QED  BY <2>1, <2>3, <3>2, <3>3, <3>4, <3>5
  <2> QED  BY <2>1, <2>2, <2>3
<1>5. TokensInv'
  BY <1>2, <1>3, <1>4 DEF TokensInv, StakeInv
<1> QED  BY <1>1, <1>5, SnapshotsKept DEF StakeInv

\* Delegating tokens and letting them cool down: what one operator has does not
\* become less, and what it has more the vault has less.
LEMMA RowChanges ==
    ASSUME StakeInv, NEW v \in Vaults, NEW o \in Operators, NEW d \in DelegationState, NEW n \in Nat,
           UNCHANGED <<snapshots, updated, opt_ins, epoch>>, events' \in 0 .. MaxEvents,
           ~ (updated[v] < epoch),
           delegation' \in [Vaults -> [Operators -> {None} \cup DelegationState]],
           delegation'[v][o] = d, \A p \in Operators : p # o => delegation'[v][p] = delegation[v][p],
           \A w \in Vaults : w # v => delegation'[w] = delegation[w], n <= free[v],
           free' \in [Vaults -> Nat], \A w \in Vaults : free'[w] = IF w = v THEN free[w] - n ELSE free[w],
           total_security(d) = Security(delegation[v][o]) + n
    PROVE  StakeInv'
<1>1. /\ delegation \in [Vaults -> [Operators -> {None} \cup DelegationState]]
      /\ free \in [Vaults -> Nat] /\ updated \in [Vaults -> 0 .. MaxEpoch]
      /\ epoch \in Nat /\ updated[v] <= epoch /\ updated[v] \in Nat
  BY StakeFacts DEF StakeInv, StakeTyped, TokensInv
<1>2. UNCHANGED <<epoch_snapshot, operator_snapshot, taken, ncn_operators, barred, leaving, epoch>>
  BY DEF snapshots, opt_ins
<1>3. /\ delegation' \in [Vaults -> [Operators -> {None} \cup DelegationState]]
      /\ delegation'[v][o] = d
      /\ \A p \in Operators : p # o => delegation'[v][p] = delegation[v][p]
      /\ \A w \in Vaults : w # v => delegation'[w] = delegation[w]
  OBVIOUS
<1>4. updated'[v] = epoch
  <2>1. updated' = updated /\ ~ (updated[v] < epoch)
    OBVIOUS
  <2>2. \A a, b \in Nat : a <= b /\ ~ (a < b) => a = b
    OBVIOUS
  <2> QED  BY <1>1, <2>1, <2>2, Zenon
<1>5. Security(delegation'[v][o]) = Security(delegation[v][o]) + n
  BY <1>3, NoneIsNone DEF Security, Exists
<1>6. /\ With(v) \in [Operators -> Nat] /\ \A p \in Operators : With(v)[p] = Security(delegation[v][p])
      /\ \A p \in Operators : Security(delegation[v][p]) \in Nat
  BY SecurityType DEF StakeInv
<1>7. /\ With(v)' \in [Operators -> Nat] /\ With(v)'[o] = With(v)[o] + n
      /\ \A p \in Operators : p # o => With(v)'[p] = With(v)[p]
  <2>1. \A p \in Operators : With(v)'[p] = Security(delegation'[v][p])
    BY DEF With
  <2>2. \A p \in Operators : With(v)'[p] \in Nat
    BY <1>3, <1>5, <1>6, <2>1
  <2>3. With(v)' = [p \in Operators |-> With(v)'[p]]
    BY DEF With
  <2> QED  BY <1>3, <1>5, <1>6, <2>1, <2>2, <2>3
<1>8. SumOf(With(v)') = SumOf(With(v)) - With(v)[o] + With(v)'[o] /\ SumOf(With(v)) \in Nat
  <2> DEFINE f == With(v)
             h == With(v)'
  <2>1. f \in [Operators -> Nat] /\ h \in [Operators -> Nat] /\ \A p \in Operators : p # o => h[p] = f[p]
    BY <1>6, <1>7
  <2>2. IsFiniteSet(Operators)
    BY StakeFacts
  <2> HIDE DEF f, h
  <2>3. SumOf(h) = SumOf(f) - f[o] + h[o] /\ SumOf(f) \in Nat
    <3>1. \A a, b \in [Operators -> Nat], x \in Operators :
             (\A y \in Operators : y # x => b[y] = a[y])
             => SumOf(b) = SumOf(a) - a[x] + b[x] /\ SumOf(a) \in Nat
      BY <2>2, SumUpdateAll
    <3> QED  BY <2>1, <3>1, Zenon
  <2> QED  BY <2>3 DEF f, h
<1>9. free'[v] + SumOf(With(v)') = Deposits[v]
  <2>1. free[v] + SumOf(With(v)) = Deposits[v]
    BY DEF StakeInv, TokensInv
  <2> QED  BY <1>1, <1>6, <1>7, <1>8, <2>1
<1>10. \A p \in Operators : Security(delegation[v][p]) <= Security(delegation'[v][p])
  BY <1>3, <1>5, <1>6
<1>11. \A w \in Vaults : w # v =>
           delegation'[w] = delegation[w] /\ free'[w] = free[w] /\ updated'[w] = updated[w]
  BY <1>3
<1> QED  BY <1>1, <1>2, <1>3, <1>4, <1>9, <1>10, <1>11, TokensMove

LEMMA DelegateInv ==
    ASSUME StakeInv, NEW v \in Vaults, NEW o \in Operators, NEW n \in Nat, Delegate(v, o, n)
    PROVE  StakeInv'
<1> DEFINE old == delegation[v][o]
           new == Delegated(old, n)
<1>1. /\ UNCHANGED <<snapshots, updated, opt_ins, epoch>> /\ events' = events + 1 /\ events < MaxEvents
      /\ ~ (updated[v] < epoch) /\ n <= free[v]
      /\ delegation' = [delegation EXCEPT ![v][o] = Delegated(@, n)] /\ free' = [free EXCEPT ![v] = @ - n]
  BY DEF Delegate
<1>2. /\ delegation \in [Vaults -> [Operators -> {None} \cup DelegationState]]
      /\ old \in {None} \cup DelegationState /\ free \in [Vaults -> Nat] /\ events \in 0 .. MaxEvents
  BY DEF StakeInv, StakeTyped
<1>3. new \in DelegationState /\ total_security(new) = Security(old) + n
  BY <1>2 DEF Delegated, Exists, DelegationState, total_security, Security
<1>4. events' \in 0 .. MaxEvents
  BY <1>1, <1>2, StakeFacts
<1>5. free' \in [Vaults -> Nat] /\ \A w \in Vaults : free'[w] = IF w = v THEN free[w] - n ELSE free[w]
  <2>1. free[v] \in Nat /\ free[v] - n \in Nat
    BY <1>1, <1>2
  <2> QED  BY <1>1, <1>2, <2>1
<1>6. /\ DOMAIN delegation' = Vaults /\ DOMAIN delegation'[v] = Operators
      /\ delegation' = [w \in Vaults |-> delegation'[w]] /\ delegation'[v] = [p \in Operators |-> delegation'[v][p]]
      /\ delegation'[v][o] = new
      /\ \A p \in Operators : p # o => delegation'[v][p] = delegation[v][p]
      /\ \A w \in Vaults : w # v => delegation'[w] = delegation[w]
  BY <1>1, <1>2
<1> HIDE DEF new
<1>7. delegation' \in [Vaults -> [Operators -> {None} \cup DelegationState]]
  <2>1. delegation'[v] \in [Operators -> {None} \cup DelegationState]
    BY <1>2, <1>3, <1>6
  <2> QED  BY <1>2, <1>6, <2>1
<1>8. /\ new \in DelegationState /\ UNCHANGED <<snapshots, updated, opt_ins, epoch>>
      /\ ~ (updated[v] < epoch) /\ n <= free[v] /\ total_security(new) = Security(delegation[v][o]) + n
  BY <1>1, <1>3
<1> QED  BY <1>4, <1>5, <1>6, <1>7, <1>8, RowChanges

LEMMA CooldownDelegationInv ==
    ASSUME StakeInv, NEW v \in Vaults, NEW o \in Operators, NEW n \in Nat, CooldownDelegation(v, o, n)
    PROVE  StakeInv'
<1> DEFINE old == delegation[v][o]
           new == [staked |-> old.staked - n, enqueued |-> old.enqueued + n, cooling |-> old.cooling]
<1>1. /\ UNCHANGED <<snapshots, free, updated, opt_ins, epoch>> /\ events' = events + 1 /\ events < MaxEvents
      /\ ~ (updated[v] < epoch) /\ Exists(old) /\ n <= old.staked
      /\ delegation' = [delegation EXCEPT ![v][o].staked = @ - n, ![v][o].enqueued = @ + n]
  BY DEF CooldownDelegation
<1>2. /\ delegation \in [Vaults -> [Operators -> {None} \cup DelegationState]]
      /\ free \in [Vaults -> Nat] /\ events \in 0 .. MaxEvents
  BY DEF StakeInv, StakeTyped
<1>3. old \in DelegationState
  BY <1>1, <1>2 DEF Exists
<1>4. new \in DelegationState /\ total_security(new) = Security(old) + 0
  BY <1>1, <1>3 DEF Exists, DelegationState, total_security, Security
<1>5. /\ DOMAIN delegation' = Vaults /\ DOMAIN delegation'[v] = Operators
      /\ delegation' = [w \in Vaults |-> delegation'[w]] /\ delegation'[v] = [p \in Operators |-> delegation'[v][p]]
      /\ delegation'[v][o] = [old EXCEPT !.staked = @ - n, !.enqueued = @ + n]
      /\ \A p \in Operators : p # o => delegation'[v][p] = delegation[v][p]
      /\ \A w \in Vaults : w # v => delegation'[w] = delegation[w]
  BY <1>1, <1>2
<1>6. delegation'[v][o] = new
  BY <1>3, <1>5 DEF DelegationState
<1>7. delegation' \in [Vaults -> [Operators -> {None} \cup DelegationState]]
  <2> HIDE DEF new
  <2>1. delegation'[v] \in [Operators -> {None} \cup DelegationState]
    BY <1>2, <1>4, <1>5, <1>6
  <2> QED  BY <1>2, <1>5, <2>1
<1>8. events' \in 0 .. MaxEvents
  BY <1>1, <1>2, StakeFacts
<1>9. free' = free
  BY <1>1
<1>10. /\ free' \in [Vaults -> Nat] /\ 0 \in Nat /\ 0 <= free[v]
       /\ \A w \in Vaults : free'[w] = IF w = v THEN free[w] - 0 ELSE free[w]
  BY <1>2, <1>9
<1>11. UNCHANGED <<snapshots, updated, opt_ins, epoch>> /\ ~ (updated[v] < epoch)
  BY <1>1
<1>12. /\ \A p \in Operators : p # o => delegation'[v][p] = delegation[v][p]
       /\ \A w \in Vaults : w # v => delegation'[w] = delegation[w]
  BY <1>5
<1> HIDE DEF new
<1>13. new \in DelegationState
  BY <1>4
<1>14. total_security(new) = Security(delegation[v][o]) + 0
  BY <1>4
<1> QED  BY <1>6, <1>7, <1>8, <1>10, <1>11, <1>12, <1>13, <1>14, RowChanges

LEMMA VaultUpdateInv ==
    ASSUME StakeInv, NEW v \in Vaults, VaultUpdate(v)
    PROVE  StakeInv'
<1> DEFINE row == [o \in Operators |->
                      IF Exists(delegation[v][o])
                      THEN [staked |-> delegation[v][o].staked, enqueued |-> 0,
                            cooling |-> delegation[v][o].enqueued]
                      ELSE None]
           cooled == [o \in Operators |-> IF Exists(delegation[v][o]) THEN delegation[v][o].cooling ELSE 0]
           kept == [o \in Operators |-> Security(row[o])]
<1>1. /\ updated[v] < epoch /\ updated' = [updated EXCEPT ![v] = epoch]
      /\ delegation' = [delegation EXCEPT ![v] = row]
      /\ free' = [free EXCEPT ![v] = @ + SumOf(cooled)]
      /\ UNCHANGED <<epoch_snapshot, operator_snapshot, taken, ncn_operators, barred, leaving, events, epoch>>
  BY DEF VaultUpdate, SumOver, snapshots, opt_ins
<1>2. /\ delegation \in [Vaults -> [Operators -> {None} \cup DelegationState]]
      /\ free \in [Vaults -> Nat] /\ events \in 0 .. MaxEvents /\ epoch \in 0 .. MaxEpoch
      /\ updated \in [Vaults -> 0 .. MaxEpoch]
  BY DEF StakeInv, StakeTyped
<1>3. ASSUME NEW o \in Operators
      PROVE  /\ row[o] \in {None} \cup DelegationState /\ cooled[o] \in Nat /\ kept[o] \in Nat
             /\ With(v)[o] = kept[o] + cooled[o]
  <2>1. delegation[v][o] \in {None} \cup DelegationState
    BY <1>2
  <2>2. CASE delegation[v][o] = None
    BY <2>2 DEF Exists, Security, With
  <2>3. CASE delegation[v][o] \in DelegationState
    <3>1. Exists(delegation[v][o])
      BY <2>3, NoneIsNone DEF Exists
    <3>2. row[o] = [staked |-> delegation[v][o].staked, enqueued |-> 0, cooling |-> delegation[v][o].enqueued]
      BY <3>1
    <3>3. row[o] \in DelegationState
      BY <2>3, <3>2 DEF DelegationState
    <3>4. Exists(row[o])
      BY <3>3, NoneIsNone DEF Exists
    <3>5. kept[o] = delegation[v][o].staked + 0 + delegation[v][o].enqueued
      BY <3>2, <3>4 DEF Security, total_security
    <3>6. cooled[o] = delegation[v][o].cooling
      BY <3>1
    <3>7. With(v)[o] = delegation[v][o].staked + delegation[v][o].enqueued + delegation[v][o].cooling
      BY <3>1 DEF With, Security, total_security
    <3> HIDE DEF row, kept, cooled
    <3> QED  BY <2>3, <3>3, <3>5, <3>6, <3>7 DEF DelegationState
  <2> QED  BY <2>1, <2>2, <2>3
<1>4. kept \in [Operators -> Nat] /\ cooled \in [Operators -> Nat] /\ row \in [Operators -> {None} \cup DelegationState]
  BY <1>3
<1>5. With(v) = [o \in Operators |-> kept[o] + cooled[o]]
  <2>1. With(v) = [o \in Operators |-> With(v)[o]]
    BY DEF With
  <2> HIDE DEF kept, cooled, row
  <2> QED  BY <1>3, <2>1
<1>6. With(v)' = kept
  <2>1. delegation'[v] = row
    BY <1>1, <1>2
  <2> HIDE DEF row
  <2> QED  BY <2>1 DEF With
<1> HIDE DEF kept, cooled, row
<1>7. SumOf(With(v)) = SumOf(kept) + SumOf(cooled) /\ SumOf(cooled) \in Nat /\ SumOf(kept) \in Nat
  <2>1. IsFiniteSet(Operators)
    BY StakeFacts
  <2>2. SumOf(cooled) \in Nat /\ SumOf(kept) \in Nat
    BY <1>4, <2>1, SumType
  <2>3. SumOf(With(v)) = SumOf(kept) + SumOf(cooled)
    <3> DEFINE f == With(v)
    <3>1. f = [o \in Operators |-> kept[o] + cooled[o]]
      BY <1>5
    <3> HIDE DEF f
    <3>2. SumOf(f) = SumOf(kept) + SumOf(cooled)
      BY <1>4, <2>1, <3>1, SumPlus
    <3> QED  BY <3>2 DEF f
  <2> QED  BY <2>2, <2>3
<1>8. /\ free' \in [Vaults -> Nat] /\ free'[v] = free[v] + SumOf(cooled)
      /\ updated' \in [Vaults -> 0 .. MaxEpoch] /\ updated'[v] = epoch
      /\ delegation' \in [Vaults -> [Operators -> {None} \cup DelegationState]]
      /\ \A w \in Vaults : w # v =>
            delegation'[w] = delegation[w] /\ free'[w] = free[w] /\ updated'[w] = updated[w]
  BY <1>1, <1>2, <1>4, <1>7
<1>9. free'[v] + SumOf(With(v)') = Deposits[v]
  <2>1. free[v] + SumOf(With(v)) = Deposits[v] /\ free[v] \in Nat
    BY <1>2 DEF StakeInv, TokensInv
  <2> QED  BY <1>6, <1>7, <1>8, <2>1
<1> QED  BY <1>1, <1>2, <1>8, <1>9, TokensMove

-----------------------------------------------------------------------------
(* The snapshots                                                           *)

LEMMA InitializeEpochSnapshotInv ==
    ASSUME StakeInv, InitializeEpochSnapshot
    PROVE  StakeInv'
<1>1. /\ ~ Exists(epoch_snapshot)
      /\ epoch_snapshot' = [operator_count |-> ncn_operators, operators_registered |-> 0,
                            vault_count |-> Cardinality(TableVaults), valid_delegations |-> 0,
                            stake_weights |-> ZeroWeights]
      /\ UNCHANGED <<operator_snapshot, taken, delegation, free, updated, ncn_operators, barred, leaving,
                     events, epoch>>
  BY DEF InitializeEpochSnapshot, vault_program, opt_ins
<1>2. ZeroWeights \in StakeWeights /\ \A c \in Components : ZeroWeights[c] = 0
  BY DEF ZeroWeights, StakeWeights
<1>3. epoch_snapshot' \in EpochSnapshots
  <2> DEFINE z == ZeroWeights
  <2>1. z \in StakeWeights
    BY <1>2
  <2>2. ncn_operators \in Operators /\ Cardinality(TableVaults) \in Nat
    BY StakeFacts DEF StakeInv, StakeTyped
  <2> HIDE DEF z
  <2>3. epoch_snapshot' = [operator_count |-> ncn_operators, operators_registered |-> 0,
                           vault_count |-> Cardinality(TableVaults), valid_delegations |-> 0,
                           stake_weights |-> z]
    BY <1>1 DEF z
  <2> QED  BY <2>1, <2>2, <2>3 DEF EpochSnapshots
<1>4. StakeTyped'
  BY <1>1, <1>3 DEF StakeInv, StakeTyped
<1>5. \A o \in Operators : ~ Exists(operator_snapshot[o])
  BY <1>1 DEF StakeInv, SnapshotsInv
<1>6. FinalOperators' = {}
  BY <1>1, <1>5 DEF FinalOperators, Taken
<1>7. Cardinality(FinalOperators') = 0
  BY <1>6, FS_EmptySet
<1>8. ASSUME NEW c  PROVE SumOf(FinalWeights(c)') = 0
  <2> DEFINE f == FinalWeights(c)'
  <2>1. f = [o \in {} |-> f[o]]
    BY <1>6 DEF FinalWeights
  <2> HIDE DEF f
  <2>2. SumOf(f) = 0
    BY <2>1, SumZero
  <2> QED  BY <2>2 DEF f
<1>9. SnapshotsInv'
  <2>1. /\ epoch_snapshot'.vault_count = Cardinality(TableVaults)
        /\ epoch_snapshot'.operators_registered = 0 /\ epoch_snapshot'.stake_weights = ZeroWeights
    BY <1>1
  <2> QED  BY <1>1, <1>2, <1>5, <1>7, <1>8, <2>1 DEF SnapshotsInv
<1>10. TokensInv'
  BY <1>1 DEF StakeInv, TokensInv, With, Counted, TakenIn
<1> QED  BY <1>4, <1>9, <1>10 DEF StakeInv

LEMMA FinalFacts ==
    ASSUME StakeInv
    PROVE  /\ FinalOperators \subseteq Operators /\ IsFiniteSet(FinalOperators)
           /\ \A o \in FinalOperators : operator_snapshot[o] \in OperatorSnapshots
           /\ \A c \in Components : FinalWeights(c) \in [FinalOperators -> Nat]
<1>1. FinalOperators \subseteq Operators
  BY DEF FinalOperators, Taken
<1>2. IsFiniteSet(FinalOperators)
  BY <1>1, StakeFacts, FS_Subset
<1>3. \A o \in FinalOperators : operator_snapshot[o] \in OperatorSnapshots
  BY DEF FinalOperators, Taken, Exists, StakeInv, StakeTyped
<1>4. ASSUME NEW o \in FinalOperators, NEW c \in Components
      PROVE  operator_snapshot[o].stake_weights[c] \in Nat
  <2>1. operator_snapshot[o].stake_weights \in StakeWeights
    BY <1>3 DEF OperatorSnapshots
  <2> QED  BY <2>1 DEF StakeWeights
<1>5. \A c \in Components : FinalWeights(c) \in [FinalOperators -> Nat]
  BY <1>4 DEF FinalWeights
<1> QED  BY <1>1, <1>2, <1>3, <1>5

\* What RegisterOperator makes of the epoch snapshot.
LEMMA Registered ==
    ASSUME StakeInv, Exists(epoch_snapshot), NEW valid \in Nat, NEW weights \in StakeWeights,
           RegisterOperator(valid, weights)
    PROVE  /\ epoch_snapshot' \in EpochSnapshots
           /\ epoch_snapshot'.operator_count = epoch_snapshot.operator_count
           /\ epoch_snapshot'.vault_count = epoch_snapshot.vault_count
           /\ epoch_snapshot'.operators_registered = epoch_snapshot.operators_registered + 1
           /\ epoch_snapshot.stake_weights \in StakeWeights
           /\ \A c \in Components :
                 epoch_snapshot'.stake_weights[c] = epoch_snapshot.stake_weights[c] + weights[c]
<1> DEFINE sum == Plus(epoch_snapshot.stake_weights, weights)
<1>1. epoch_snapshot \in EpochSnapshots
  BY DEF StakeInv, StakeTyped, Exists
<1>2. epoch_snapshot.stake_weights \in StakeWeights
  BY <1>1 DEF EpochSnapshots
<1>3. sum \in StakeWeights /\ \A c \in Components : sum[c] = epoch_snapshot.stake_weights[c] + weights[c]
  BY <1>2 DEF Plus, StakeWeights
<1>4. epoch_snapshot' = [epoch_snapshot EXCEPT !.operators_registered = @ + 1,
                            !.valid_delegations = @ + valid, !.stake_weights = sum]
  BY DEF RegisterOperator
<1> HIDE DEF sum
<1>5. epoch_snapshot' = [operator_count |-> epoch_snapshot.operator_count,
                         operators_registered |-> epoch_snapshot.operators_registered + 1,
                         vault_count |-> epoch_snapshot.vault_count,
                         valid_delegations |-> epoch_snapshot.valid_delegations + valid,
                         stake_weights |-> sum]
  BY <1>1, <1>4 DEF EpochSnapshots
<1>6. epoch_snapshot' \in EpochSnapshots
  BY <1>1, <1>3, <1>5 DEF EpochSnapshots
<1> QED  BY <1>2, <1>3, <1>5, <1>6

\* An operator snapshot that was not final is written, and registered with the
\* epoch snapshot if that makes it final.
LEMMA SnapshotWritten ==
    ASSUME StakeInv, NEW o \in Operators, InSnapshot(o), o \notin FinalOperators,
           NEW s \in OperatorSnapshots, SnapshotSound(s), operator_snapshot'[o] = s,
           \A p \in Operators : p # o => operator_snapshot'[p] = operator_snapshot[p],
           IF operator_finalized(s) THEN RegisterOperator(s.valid_delegations, s.stake_weights)
           ELSE epoch_snapshot' = epoch_snapshot
    PROVE  SnapshotsInv' /\ epoch_snapshot' \in EpochSnapshots
<1>1. Exists(epoch_snapshot) /\ epoch_snapshot \in EpochSnapshots /\ o <= epoch_snapshot.operator_count
  BY DEF InSnapshot, Exists, StakeInv, StakeTyped
<1>2. s.valid_delegations \in Nat /\ s.stake_weights \in StakeWeights /\ Exists(s)
  BY NoneIsNone DEF OperatorSnapshots, Exists
<1>3. epoch_snapshot' \in EpochSnapshots /\ Exists(epoch_snapshot')
      /\ epoch_snapshot'.operator_count = epoch_snapshot.operator_count
      /\ epoch_snapshot'.vault_count = epoch_snapshot.vault_count
  <2>1. CASE operator_finalized(s)
    <3>1. RegisterOperator(s.valid_delegations, s.stake_weights)
      BY <2>1
    <3>2. epoch_snapshot' \in EpochSnapshots
          /\ epoch_snapshot'.operator_count = epoch_snapshot.operator_count
          /\ epoch_snapshot'.vault_count = epoch_snapshot.vault_count
      BY <1>1, <1>2, <3>1, Registered
    <3> QED  BY <3>2, NoneIsNone DEF Exists
  <2>2. CASE ~ operator_finalized(s)
    BY <1>1, <2>2
  <2> QED  BY <2>1, <2>2
<1>4. FinalOperators' = IF operator_finalized(s) THEN FinalOperators \cup {o} ELSE FinalOperators
  <2>1. FinalOperators' = {p \in Operators : Exists(operator_snapshot'[p]) /\ operator_finalized(operator_snapshot'[p])}
    BY DEF FinalOperators, Taken, operator_finalized
  <2>2. FinalOperators = {p \in Operators : Exists(operator_snapshot[p]) /\ operator_finalized(operator_snapshot[p])}
    BY DEF FinalOperators, Taken
  <2> QED  BY <1>2, <2>1, <2>2
<1>5. /\ FinalOperators \subseteq Operators /\ IsFiniteSet(FinalOperators)
      /\ \A c \in Components : FinalWeights(c) \in [FinalOperators -> Nat]
  BY FinalFacts
<1>6. /\ epoch_snapshot.operators_registered = Cardinality(FinalOperators)
      /\ \A c \in Components : epoch_snapshot.stake_weights[c] = SumOf(FinalWeights(c))
      /\ epoch_snapshot.vault_count = Cardinality(TableVaults)
  BY <1>1 DEF StakeInv, SnapshotsInv
<1>7. /\ epoch_snapshot'.operators_registered = Cardinality(FinalOperators')
      /\ \A c \in Components : epoch_snapshot'.stake_weights[c] = SumOf(FinalWeights(c)')
  <2>1. CASE ~ operator_finalized(s)
    <3>1. FinalOperators' = FinalOperators /\ epoch_snapshot' = epoch_snapshot
      BY <1>4, <2>1
    <3>2. \A c : FinalWeights(c)' = FinalWeights(c)
      BY <1>5, <3>1 DEF FinalWeights
    <3> QED  BY <1>6, <3>1, <3>2
  <2>2. CASE operator_finalized(s)
    <3>1. FinalOperators' = FinalOperators \cup {o}
      BY <1>4, <2>2
    <3>2. /\ epoch_snapshot'.operators_registered = epoch_snapshot.operators_registered + 1
          /\ \A c \in Components :
                epoch_snapshot'.stake_weights[c] = epoch_snapshot.stake_weights[c] + s.stake_weights[c]
      BY <1>1, <1>2, <2>2, Registered
    <3>3. Cardinality(FinalOperators') = Cardinality(FinalOperators) + 1
      BY <1>5, <3>1, FS_AddElement
    <3>4. ASSUME NEW c \in Components
          PROVE  SumOf(FinalWeights(c)') = SumOf(FinalWeights(c)) + s.stake_weights[c]
      <4> DEFINE f == FinalWeights(c)
                 h == FinalWeights(c)'
                 S == FinalOperators \cup {o}
      <4>1. IsFiniteSet(S)
        BY <1>5, FS_AddElement
      <4>2. s.stake_weights[c] \in Nat
        BY <1>2 DEF StakeWeights
      <4>3. h = [p \in S |-> operator_snapshot'[p].stake_weights[c]]
        BY <3>1 DEF FinalWeights
      <4>4. h[o] = s.stake_weights[c] /\ \A p \in FinalOperators : h[p] = f[p]
        BY <1>5, <4>3 DEF FinalWeights
      <4>5. f \in [FinalOperators -> Nat]
        BY <1>5
      <4>6. h \in [S -> Nat]
        <5> HIDE DEF f
        <5>1. \A p \in S : h[p] \in Nat
          BY <4>2, <4>4, <4>5
        <5> HIDE DEF h
        <5>2. h = [p \in S |-> h[p]]
          BY <4>3
        <5> QED  BY <5>1, <5>2
      <4> HIDE DEF f, h
      <4>7. On(h, S \ {o}) = f
        <5>1. S \ {o} = FinalOperators
          OBVIOUS
        <5>2. f = [p \in FinalOperators |-> f[p]]
          BY <4>5
        <5> HIDE DEF S
        <5> QED  BY <4>4, <5>1, <5>2 DEF On
      <4>8. o \in S
        OBVIOUS
      <4> HIDE DEF S
      <4>9. SumOf(h) = h[o] + SumOf(On(h, S \ {o})) /\ SumOf(On(h, S \ {o})) \in Nat
        BY <4>1, <4>6, <4>8, SumTake
      <4>10. SumOf(h) = SumOf(f) + s.stake_weights[c]
        BY <4>2, <4>4, <4>7, <4>9
      <4> QED  BY <4>10 DEF f, h
    <3> QED  BY <1>6, <3>2, <3>3, <3>4
  <2> QED  BY <2>1, <2>2
<1>8. \A p \in Operators : Exists(operator_snapshot'[p]) =>
          /\ SnapshotSound(operator_snapshot'[p])
          /\ Exists(epoch_snapshot') /\ p <= epoch_snapshot'.operator_count
  <2>1. \A p \in Operators : Exists(operator_snapshot[p]) =>
            SnapshotSound(operator_snapshot[p]) /\ p <= epoch_snapshot.operator_count
    BY DEF StakeInv, SnapshotsInv
  <2> QED  BY <1>1, <1>3, <2>1
<1>9. SnapshotsInv'
  BY <1>3, <1>6, <1>7, <1>8 DEF SnapshotsInv, SnapshotSound, Column
<1> QED  BY <1>3, <1>9

LEMMA ReallocOperatorSnapshotInv ==
    ASSUME StakeInv, NEW o \in Operators, ReallocOperatorSnapshot(o)
    PROVE  StakeInv'
<1> DEFINE count == IF OperatorIsActive(o) THEN epoch_snapshot.vault_count ELSE 0
           active == OperatorIsActive(o)
           z == ZeroWeights
           s == [is_active |-> active, vault_operator_delegation_count |-> count,
                 entries |-> <<>>, valid_delegations |-> 0, stake_weights |-> z]
<1>1. /\ InSnapshot(o) /\ ~ Exists(operator_snapshot[o])
      /\ operator_snapshot' = [operator_snapshot EXCEPT ![o] = s]
      /\ IF active THEN UNCHANGED epoch_snapshot ELSE RegisterOperator(0, z)
      /\ UNCHANGED <<taken, delegation, free, updated, ncn_operators, barred, leaving, events, epoch>>
  BY DEF ReallocOperatorSnapshot, vault_program, opt_ins
<1>2. active \in BOOLEAN
  BY DEF OperatorIsActive
<1>3. /\ count \in 0 .. MAX_VAULTS /\ count \in Nat
      /\ count = IF active THEN Cardinality(TableVaults) ELSE 0
  <2>1. epoch_snapshot.vault_count = Cardinality(TableVaults)
    BY <1>1 DEF InSnapshot, StakeInv, SnapshotsInv
  <2> QED  BY <2>1, StakeFacts
<1>4. z \in StakeWeights /\ \A c \in Components : z[c] = 0
  BY DEF ZeroWeights, StakeWeights
<1> HIDE DEF active, count, z
<1>5. s \in OperatorSnapshots
  <2> DEFINE E == Entry
  <2>1. <<>> \in Seq(E)
    OBVIOUS
  <2>2. <<>> \in Seq(Entry)
    BY <2>1
  <2> QED  BY <1>2, <1>3, <1>4, <2>2 DEF OperatorSnapshots
<1>6. /\ s.is_active = active /\ s.vault_operator_delegation_count = count /\ s.entries = <<>>
      /\ s.valid_delegations = 0 /\ s.stake_weights = z
  OBVIOUS
<1> HIDE DEF s
<1>7. Len(s.entries) = 0 /\ DOMAIN s.entries = {}
  BY <1>6
<1>8. ASSUME NEW c  PROVE SumOf(Column(s, c)) = 0
  <2> DEFINE f == Column(s, c)
  <2>1. f = [i \in {} |-> f[i]]
    BY <1>7 DEF Column
  <2> HIDE DEF f
  <2>2. SumOf(f) = 0
    BY <2>1, SumZero
  <2> QED  BY <2>2 DEF f
<1>9. SnapshotSound(s)
  <2>1. 0 <= count
    BY <1>3
  <2> QED  BY <1>3, <1>4, <1>6, <1>7, <1>8, <2>1 DEF SnapshotSound
<1>10. operator_finalized(s) <=> ~ active
  BY <1>2, <1>3, <1>6, <1>7, StakeFacts DEF operator_finalized
<1>11. /\ operator_snapshot \in [Operators -> {None} \cup OperatorSnapshots]
       /\ o \notin FinalOperators
  BY <1>1 DEF StakeInv, StakeTyped, FinalOperators, Taken
<1>12. /\ operator_snapshot' \in [Operators -> {None} \cup OperatorSnapshots]
       /\ operator_snapshot'[o] = s
       /\ \A p \in Operators : p # o => operator_snapshot'[p] = operator_snapshot[p]
  BY <1>1, <1>5, <1>11
<1>13. IF operator_finalized(s) THEN RegisterOperator(s.valid_delegations, s.stake_weights)
       ELSE epoch_snapshot' = epoch_snapshot
  BY <1>1, <1>6, <1>10
<1>14. SnapshotsInv' /\ epoch_snapshot' \in EpochSnapshots
  BY <1>1, <1>5, <1>9, <1>11, <1>12, <1>13, SnapshotWritten
<1>15. StakeTyped'
  BY <1>1, <1>12, <1>14 DEF StakeInv, StakeTyped
<1>16. \A v \in Vaults, p \in Operators : Exists(taken[p][v]) => p # o
  BY <1>1 DEF StakeInv, TokensInv
<1>17. TokensInv'
  <2>1. \A v : With(v)' = With(v) /\ \A e : Counted(v, e)' = Counted(v, e)
    BY <1>1 DEF With, Counted, TakenIn
  <2> QED  BY <1>1, <1>12, <1>16, <2>1 DEF StakeInv, TokensInv, contains_vault_index
<1> QED  BY <1>14, <1>15, <1>17 DEF StakeInv

LEMMA WeightsOfType ==
    ASSUME NEW v \in Vaults, NEW stake \in Nat
    PROVE  WeightsOf(v, stake) \in StakeWeights
<1>1. VaultWeight[v].multiplier \in Nat /\ VaultWeight[v].weight \in Nat
  BY SnapshotAssumption
<1>2. VaultWeight[v].multiplier * stake \in Nat
  BY <1>1
<1> QED  BY <1>2 DEF WeightsOf, StakeWeights

\* An entry for another vault of the table, while one is missing.
LEMMA EntryAdded ==
    ASSUME NEW s \in OperatorSnapshots, SnapshotSound(s), ~ operator_finalized(s),
           NEW v \in TableVaults, ~ contains_vault_index(s, v), NEW weights \in StakeWeights,
           NEW after, after = WithEntry(s, v, weights)
    PROVE  /\ after \in OperatorSnapshots /\ SnapshotSound(after)
           /\ contains_vault_index(after, v)
           /\ \A w : contains_vault_index(s, w) => contains_vault_index(after, w)
<1> DEFINE e == [vault |-> v, ncn_fee_group |-> VaultWeight[v].group, stake_weights |-> weights]
           list == Append(s.entries, e)
           valid == IF weights["stake"] > 0 THEN s.valid_delegations + 1 ELSE s.valid_delegations
           sum == Plus(s.stake_weights, weights)
<1>1. /\ s.is_active \in BOOLEAN /\ s.vault_operator_delegation_count \in 0 .. MAX_VAULTS
      /\ s.entries \in Seq(Entry) /\ s.valid_delegations \in Nat /\ s.stake_weights \in StakeWeights
  BY DEF OperatorSnapshots
<1>2. valid \in Nat
  BY <1>1
<1>3. sum \in StakeWeights /\ \A c \in Components : sum[c] = s.stake_weights[c] + weights[c]
  BY <1>1 DEF Plus, StakeWeights
<1>4. after = [s EXCEPT !.entries = list, !.valid_delegations = valid, !.stake_weights = sum]
  BY DEF WithEntry
<1>5. e \in Entry /\ e.vault = v /\ e.stake_weights = weights
  <2>1. v \in Vaults /\ VaultWeight[v].group \in FeeGroups
    BY SnapshotAssumption
  <2> QED  BY <2>1 DEF Entry
<1> HIDE DEF e, valid, sum
<1>6. /\ list \in Seq(Entry) /\ DOMAIN list = DOMAIN s.entries \cup {Len(s.entries) + 1}
      /\ Len(s.entries) + 1 \notin DOMAIN s.entries /\ list[Len(s.entries) + 1] = e
      /\ \A i \in DOMAIN s.entries : list[i] = s.entries[i]
      /\ Len(list) = Len(s.entries) + 1 /\ Len(s.entries) \in Nat
      /\ DOMAIN s.entries = 1 .. Len(s.entries)
  <2> DEFINE E == Entry
             t == s.entries
  <2>1. t \in Seq(E) /\ e \in E
    BY <1>1, <1>5
  <2> HIDE DEF E, t
  <2> SUFFICES /\ Append(t, e) \in Seq(E) /\ DOMAIN Append(t, e) = DOMAIN t \cup {Len(t) + 1}
               /\ Len(t) + 1 \notin DOMAIN t /\ Append(t, e)[Len(t) + 1] = e
               /\ \A i \in DOMAIN t : Append(t, e)[i] = t[i]
               /\ Len(Append(t, e)) = Len(t) + 1 /\ Len(t) \in Nat /\ DOMAIN t = 1 .. Len(t)
    BY DEF E, t
  <2> QED  BY <2>1
<1> HIDE DEF list
<1>7. after = [is_active |-> s.is_active, vault_operator_delegation_count |-> s.vault_operator_delegation_count,
               entries |-> list, valid_delegations |-> valid, stake_weights |-> sum]
  BY <1>4 DEF OperatorSnapshots
<1>8. after \in OperatorSnapshots
  BY <1>1, <1>2, <1>3, <1>6, <1>7 DEF OperatorSnapshots
<1>9. /\ after.is_active = s.is_active
      /\ after.vault_operator_delegation_count = s.vault_operator_delegation_count
      /\ after.entries = list /\ after.stake_weights = sum
  BY <1>7
<1>10. contains_vault_index(after, v) /\ \A w : contains_vault_index(s, w) => contains_vault_index(after, w)
  BY <1>5, <1>6, <1>9 DEF contains_vault_index
<1>11. Len(after.entries) <= after.vault_operator_delegation_count
  <2>1. /\ Len(s.entries) <= s.vault_operator_delegation_count
        /\ Len(s.entries) # s.vault_operator_delegation_count
    BY DEF SnapshotSound, operator_finalized
  <2>2. /\ Len(after.entries) = Len(s.entries) + 1 /\ Len(s.entries) \in Nat
        /\ s.vault_operator_delegation_count \in Nat
    BY <1>1, <1>6, <1>9, StakeFacts
  <2>3. \A a, b \in Nat : a <= b /\ a # b => a + 1 <= b
    OBVIOUS
  <2> QED  BY <1>9, <2>1, <2>2, <2>3
<1>12. /\ \A i \in DOMAIN list : list[i].vault \in TableVaults
       /\ \A i, j \in DOMAIN list : list[i].vault = list[j].vault => i = j
  BY <1>5, <1>6 DEF SnapshotSound, contains_vault_index
<1>13. ASSUME NEW c \in Components  PROVE after.stake_weights[c] = SumOf(Column(after, c))
  <2> DEFINE f == Column(s, c)
             h == Column(after, c)
             x == Len(s.entries) + 1
             S == DOMAIN s.entries \cup {x}
  <2>1. weights[c] \in Nat /\ s.stake_weights[c] = SumOf(f)
    BY DEF StakeWeights, SnapshotSound
  <2>2. IsFiniteSet(S)
    <3>1. \A n \in Nat : IsFiniteSet(1 .. n)
      BY FS_Interval
    <3>2. S = 1 .. Len(s.entries) + 1 /\ Len(s.entries) + 1 \in Nat
      BY <1>6
    <3> QED  BY <3>1, <3>2
  <2>3. h = [i \in S |-> list[i].stake_weights[c]]
    BY <1>6, <1>9 DEF Column
  <2>4. f = [i \in DOMAIN s.entries |-> s.entries[i].stake_weights[c]]
    BY DEF Column
  <2>5. h[x] = weights[c] /\ \A i \in DOMAIN s.entries : h[i] = f[i] /\ f[i] \in Nat
    <3>1. ASSUME NEW i \in DOMAIN s.entries  PROVE s.entries[i].stake_weights \in StakeWeights
      <4> DEFINE E == Entry
                 t == s.entries
      <4>1. t \in Seq(E) /\ i \in DOMAIN t
        BY <1>1
      <4> HIDE DEF E, t
      <4>2. t[i] \in E
        BY <4>1
      <4> QED  BY <4>2 DEF E, t, Entry
    <3>2. \A i \in DOMAIN s.entries : s.entries[i].stake_weights[c] \in Nat
      BY <3>1 DEF StakeWeights
    <3> HIDE DEF f, h
    <3> QED  BY <1>5, <1>6, <2>3, <2>4, <3>2
  <2> HIDE DEF f, h
  <2>6. h \in [S -> Nat]
    <3>1. \A i \in S : h[i] \in Nat
      BY <2>1, <2>5
    <3>2. h = [i \in S |-> h[i]]
      BY <2>3
    <3> QED  BY <3>1, <3>2
  <2>7. On(h, S \ {x}) = f
    <3>1. S \ {x} = DOMAIN s.entries
      BY <1>6
    <3>2. f = [i \in DOMAIN s.entries |-> f[i]]
      BY <2>4
    <3> HIDE DEF S, x
    <3> QED  BY <2>5, <3>1, <3>2 DEF On
  <2>8. x \in S
    OBVIOUS
  <2> HIDE DEF S, x
  <2>9. SumOf(h) = h[x] + SumOf(On(h, S \ {x})) /\ SumOf(On(h, S \ {x})) \in Nat
    BY <2>2, <2>6, <2>8, SumTake
  <2>10. after.stake_weights[c] = SumOf(h)
    BY <1>3, <1>9, <2>1, <2>5, <2>7, <2>9
  <2> QED  BY <2>10 DEF h
<1>14. SnapshotSound(after)
  <2>1. after.vault_operator_delegation_count = IF after.is_active THEN Cardinality(TableVaults) ELSE 0
    BY <1>9 DEF SnapshotSound
  <2> QED  BY <1>9, <1>11, <1>12, <1>13, <2>1 DEF SnapshotSound
<1> QED  BY <1>8, <1>10, <1>14

LEMMA SnapshotVaultOperatorDelegationInv ==
    ASSUME StakeInv, NEW o \in Operators, NEW v \in Vaults, SnapshotVaultOperatorDelegation(o, v)
    PROVE  StakeInv'
<1> DEFINE s == operator_snapshot[o]
           weight == calculate_total_stake_weight(v, o)
           weights == WeightsOf(v, weight)
           after == WithEntry(s, v, weights)
           stake == IF DelegationIsActive(v, o) THEN total_security(delegation[v][o]) ELSE 0
           entry == [epoch |-> epoch, stake |-> stake]
<1>1. /\ Exists(s) /\ ~ (updated[v] < epoch) /\ v \in TableVaults /\ ~ operator_finalized(s)
      /\ ~ contains_vault_index(s, v)
      /\ operator_snapshot' = [operator_snapshot EXCEPT ![o] = after]
      /\ taken' = [taken EXCEPT ![o][v] = entry]
      /\ IF operator_finalized(after) THEN RegisterOperator(after.valid_delegations, after.stake_weights)
         ELSE UNCHANGED epoch_snapshot
      /\ UNCHANGED <<delegation, free, updated, ncn_operators, barred, leaving, events, epoch>>
  BY DEF SnapshotVaultOperatorDelegation, is_update_needed, check_registry_for_vault, vault_program, opt_ins
<1>2. /\ operator_snapshot \in [Operators -> {None} \cup OperatorSnapshots]
      /\ taken \in [Operators -> [Vaults -> {None} \cup TakenEntry]]
      /\ epoch \in Nat /\ updated[v] \in Nat /\ updated[v] <= epoch
  BY StakeFacts DEF StakeInv, StakeTyped, TokensInv
<1>3. s \in OperatorSnapshots /\ SnapshotSound(s) /\ InSnapshot(o) /\ o \notin FinalOperators
  BY <1>1, <1>2 DEF Exists, StakeInv, SnapshotsInv, InSnapshot, FinalOperators
<1>4. stake \in Nat /\ stake <= Security(delegation[v][o]) /\ weight \in Nat
  <2>1. Security(delegation[v][o]) \in Nat
    BY SecurityType DEF StakeInv
  <2>2. VaultWeight[v].weight \in Nat
    BY SnapshotAssumption
  <2>3. CASE DelegationIsActive(v, o)
    <3>1. Security(delegation[v][o]) = total_security(delegation[v][o])
      BY <2>3 DEF DelegationIsActive, Security
    <3>2. total_security(delegation[v][o]) * VaultWeight[v].weight \in Nat
      BY <2>1, <2>2, <3>1
    <3> QED  BY <2>1, <2>3, <3>1, <3>2 DEF calculate_total_stake_weight
  <2>4. CASE ~ DelegationIsActive(v, o)
    BY <2>1, <2>4 DEF calculate_total_stake_weight
  <2> QED  BY <2>3, <2>4
<1>5. weights \in StakeWeights
  BY <1>4, WeightsOfType
<1> HIDE DEF weights, weight, stake
<1>6. entry \in TakenEntry /\ entry.epoch = epoch /\ entry.stake = stake
  BY <1>2, <1>4 DEF TakenEntry
<1> HIDE DEF after, entry
<1>7. /\ after \in OperatorSnapshots /\ SnapshotSound(after) /\ contains_vault_index(after, v)
      /\ \A w : contains_vault_index(s, w) => contains_vault_index(after, w)
  BY <1>1, <1>3, <1>5, EntryAdded DEF after
<1>8. /\ operator_snapshot' \in [Operators -> {None} \cup OperatorSnapshots]
      /\ operator_snapshot'[o] = after
      /\ \A p \in Operators : p # o => operator_snapshot'[p] = operator_snapshot[p]
  BY <1>1, <1>2, <1>7
<1>9. SnapshotsInv' /\ epoch_snapshot' \in EpochSnapshots
  BY <1>1, <1>3, <1>7, <1>8, SnapshotWritten
<1>10. /\ taken' \in [Operators -> [Vaults -> {None} \cup TakenEntry]]
       /\ taken'[o][v] = entry
       /\ \A p \in Operators, w \in Vaults : p # o \/ w # v => taken'[p][w] = taken[p][w]
  BY <1>1, <1>2, <1>6
<1>11. StakeTyped'
  BY <1>1, <1>8, <1>9, <1>10 DEF StakeInv, StakeTyped
<1>12. updated[v] = epoch
  <2>1. \A a, b \in Nat : a <= b /\ ~ (a < b) => a = b
    OBVIOUS
  <2> QED  BY <1>1, <1>2, <2>1
<1>13. ASSUME NEW w \in Vaults, NEW p \in Operators, Exists(taken'[p][w])
       PROVE  /\ Exists(operator_snapshot'[p]) /\ contains_vault_index(operator_snapshot'[p], w)
              /\ taken'[p][w].epoch <= epoch
              /\ taken'[p][w].epoch = epoch =>
                    updated[w] = epoch /\ taken'[p][w].stake <= Security(delegation[w][p])
  <2>1. Exists(after)
    BY <1>7, NoneIsNone DEF Exists
  <2>2. CASE p = o /\ w = v
    <3>1. epoch <= epoch
      BY <1>2
    <3> QED  BY <1>4, <1>6, <1>7, <1>8, <1>10, <1>12, <2>1, <2>2, <3>1
  <2>3. CASE p # o \/ w # v
    <3>1. taken'[p][w] = taken[p][w]
      BY <1>10, <2>3
    <3>2. /\ Exists(operator_snapshot[p]) /\ contains_vault_index(operator_snapshot[p], w)
          /\ taken[p][w].epoch <= epoch
          /\ taken[p][w].epoch = epoch =>
                updated[w] = epoch /\ taken[p][w].stake <= Security(delegation[w][p])
      BY <1>13, <3>1 DEF StakeInv, TokensInv
    <3>3. Exists(operator_snapshot'[p]) /\ contains_vault_index(operator_snapshot'[p], w)
      BY <1>7, <1>8, <2>1, <3>2
    <3> QED  BY <3>1, <3>2, <3>3
  <2> QED  BY <2>2, <2>3
<1>14. ~ Exists(taken[o][v])
  BY <1>1 DEF StakeInv, TokensInv
<1>15. ASSUME NEW w \in Vaults, NEW e \in 0 .. epoch
       PROVE  SumOf(Counted(w, e)') <= Deposits[w]
  <2>1. CASE w # v \/ e # epoch
    <3>1. TakenIn(w, e)' = TakenIn(w, e)
      BY <1>6, <1>10, <1>14, <2>1 DEF TakenIn
    <3>2. ASSUME NEW p \in TakenIn(w, e)  PROVE taken'[p][w] = taken[p][w]
      BY <1>10, <1>14, <2>1 DEF TakenIn
    <3>3. Counted(w, e)' = Counted(w, e)
      BY <3>1, <3>2 DEF Counted
    <3> QED  BY <3>3 DEF StakeInv, TokensInv
  <2>2. CASE w = v /\ e = epoch
    <3> DEFINE S == TakenIn(v, e)'
               f == Counted(v, e)'
               h == With(v)
    <3>1. S \in SUBSET Operators
      BY DEF TakenIn
    <3>2. \A p \in S : Exists(taken'[p][v]) /\ taken'[p][v].epoch = epoch
      BY <2>2 DEF TakenIn
    <3>3. f = [p \in S |-> taken'[p][v].stake]
      BY DEF Counted
    <3>4. /\ h \in [Operators -> Nat] /\ \A p \in Operators : h[p] = Security(delegation[v][p])
          /\ SumOf(h) \in Nat
      BY SecurityType DEF StakeInv
    <3> HIDE DEF S, f, h
    <3>5. ASSUME NEW p \in S  PROVE f[p] \in Nat /\ f[p] <= h[p]
      <4>1. taken'[p][v] \in TakenEntry
        BY <1>10, <3>1, <3>2, <3>5 DEF Exists
      <4>2. taken'[p][v].stake \in Nat
        BY <4>1 DEF TakenEntry
      <4>3. taken'[p][v].stake <= Security(delegation[v][p])
        BY <1>13, <3>1, <3>2, <3>5
      <4> QED  BY <3>1, <3>3, <3>4, <3>5, <4>2, <4>3
    <3>6. f \in [S -> Nat]
      <4>1. f = [p \in S |-> f[p]]
        BY <3>3
      <4> QED  BY <3>5, <4>1
    <3>7. SumOf(f) <= SumOf(h) /\ SumOf(f) \in Nat
      <4>1. IsFiniteSet(S)
        BY <3>1, StakeFacts, FS_Subset
      <4>2. SumOf(f) \in Nat
        BY <3>6, <4>1, SumType
      <4>3. SumOf(f) <= SumOf(h)
        BY <3>1, <3>4, <3>5, <3>6, SumWithin
      <4> QED  BY <4>2, <4>3
    <3>8. free[v] + SumOf(h) = Deposits[v] /\ free[v] \in Nat
      BY DEF h, StakeInv, StakeTyped, TokensInv
    <3>9. SumOf(f) <= Deposits[v]
      BY <3>4, <3>7, <3>8
    <3> QED  BY <2>2, <3>9 DEF f
  <2> QED  BY <2>1, <2>2
<1>16. TokensInv'
  <2>1. \A w : With(w)' = With(w)
    BY <1>1 DEF With
  <2> QED  BY <1>1, <1>13, <1>15, <2>1 DEF StakeInv, TokensInv, contains_vault_index
<1> QED  BY <1>9, <1>11, <1>16 DEF StakeInv

-----------------------------------------------------------------------------
(* The invariant                                                           *)

LEMMA StakeInitInv ==
    ASSUME StakeInit
    PROVE  StakeInv
<1>1. Init
  BY DEF StakeInit
<1>2. PICK first \in [Vaults -> BOOLEAN] :
          /\ delegation = [v \in Vaults |-> [o \in Operators |->
                 IF o = 1 /\ first[v]
                 THEN [staked |-> Deposits[v], enqueued |-> 0, cooling |-> 0] ELSE None]]
          /\ free = [v \in Vaults |-> IF first[v] THEN 0 ELSE Deposits[v]]
  BY <1>1 DEF Init
<1>3. /\ epoch_snapshot = None /\ operator_snapshot = [o \in Operators |-> None]
      /\ taken = [o \in Operators |-> [v \in Vaults |-> None]]
      /\ ncn_operators \in Operators /\ updated = [v \in Vaults |-> 0] /\ barred = {}
      /\ leaving = [p \in Vaults \cup Operators |-> "active"] /\ events = 0 /\ epoch = 0
  BY <1>1 DEF Init
<1>4. \A v \in Vaults : Deposits[v] \in Nat
  BY SnapshotAssumption
<1>5. ASSUME NEW v \in Vaults, NEW o \in Operators
      PROVE  /\ delegation[v][o] \in {None} \cup DelegationState
             /\ Security(delegation[v][o]) = IF o = 1 /\ first[v] THEN Deposits[v] ELSE 0
  <2>1. CASE o = 1 /\ first[v]
    <3>1. delegation[v][o] = [staked |-> Deposits[v], enqueued |-> 0, cooling |-> 0]
      BY <1>2, <2>1
    <3>2. delegation[v][o] \in DelegationState
      BY <1>4, <3>1 DEF DelegationState
    <3>3. Exists(delegation[v][o])
      BY <3>2, NoneIsNone DEF Exists
    <3>4. Security(delegation[v][o]) = Deposits[v]
      BY <1>4, <3>1, <3>3 DEF Security, total_security
    <3> QED  BY <2>1, <3>2, <3>4
  <2>2. CASE ~ (o = 1 /\ first[v])
    BY <1>2, <2>2 DEF Security, Exists
  <2> QED  BY <2>1, <2>2
<1>6. StakeTyped
  <2>1. delegation \in [Vaults -> [Operators -> {None} \cup DelegationState]]
    BY <1>2, <1>5
  <2>2. free \in [Vaults -> Nat]
    BY <1>2, <1>4
  <2> QED  BY <1>3, <2>1, <2>2, StakeFacts DEF StakeTyped
<1>7. SnapshotsInv
  BY <1>3 DEF SnapshotsInv, Exists
<1>8. ASSUME NEW v \in Vaults  PROVE free[v] + SumOf(With(v)) = Deposits[v]
  <2> DEFINE z == [o \in Operators |-> 0]
             h == With(v)
             d == Deposits[v]
  <2>1. z \in [Operators -> Nat] /\ \A o \in Operators : z[o] = 0
    OBVIOUS
  <2>2. h \in [Operators -> Nat] /\ \A o \in Operators : h[o] = IF o = 1 /\ first[v] THEN d ELSE 0
    BY <1>5, <1>6, SecurityType
  <2>3. 1 \in Operators
    BY SnapshotAssumption DEF Operators
  <2>4. free[v] = IF first[v] THEN 0 ELSE d
    BY <1>2
  <2>5. d \in Nat
    BY <1>4
  <2> HIDE DEF z, h, d
  <2>6. SumOf(z) = 0
    BY <2>1, SumZero
  <2>7. SumOf(h) = SumOf(z) - z[1] + h[1]
    <3>1. \A a, b \in [Operators -> Nat], x \in Operators :
             (\A y \in Operators : y # x => b[y] = a[y])
             => SumOf(b) = SumOf(a) - a[x] + b[x] /\ SumOf(a) \in Nat
      <4>1. IsFiniteSet(Operators)
        BY StakeFacts
      <4> QED  BY <4>1, SumUpdateAll
    <3>2. \A y \in Operators : y # 1 => h[y] = z[y]
      BY <2>1, <2>2
    <3>3. z \in [Operators -> Nat] /\ h \in [Operators -> Nat]
      BY <2>1, <2>2
    <3> QED  BY <2>3, <3>1, <3>2, <3>3, Zenon
  <2>8. SumOf(h) = IF first[v] THEN d ELSE 0
    BY <2>1, <2>2, <2>3, <2>5, <2>6, <2>7
  <2>9. free[v] + SumOf(h) = d
    BY <2>4, <2>5, <2>8
  <2> QED  BY <2>9 DEF h, d
<1>9. ASSUME NEW v \in Vaults, NEW e  PROVE SumOf(Counted(v, e)) = 0
  <2> DEFINE f == Counted(v, e)
  <2>1. TakenIn(v, e) = {}
    BY <1>3 DEF TakenIn, Exists
  <2>2. f = [o \in {} |-> f[o]]
    BY <2>1 DEF Counted
  <2> HIDE DEF f
  <2>3. SumOf(f) = 0
    BY <2>2, SumZero
  <2> QED  BY <2>3 DEF f
<1>10. TokensInv
  <2>1. \A v \in Vaults : updated[v] <= epoch
    BY <1>3
  <2>2. \A v \in Vaults, o \in Operators : ~ Exists(taken[o][v])
    BY <1>3 DEF Exists
  <2>3. \A v \in Vaults, e \in 0 .. epoch : SumOf(Counted(v, e)) <= Deposits[v]
    BY <1>4, <1>9
  <2> QED  BY <1>8, <2>1, <2>2, <2>3 DEF TokensInv
<1> QED  BY <1>6, <1>7, <1>10 DEF StakeInv

LEMMA StakeStepInv ==
    ASSUME StakeInv, [StakeNext]_all_vars
    PROVE  StakeInv'
<1>1. CASE UNCHANGED vars
  BY <1>1, OptInsInv DEF vars
<1>2. CASE Next
  <2>1. CASE InitializeEpochSnapshot
    BY <2>1, InitializeEpochSnapshotInv
  <2>2. ASSUME NEW o \in Operators, ReallocOperatorSnapshot(o)  PROVE StakeInv'
    BY <2>2, ReallocOperatorSnapshotInv
  <2>3. ASSUME NEW o \in Operators, NEW v \in Vaults, SnapshotVaultOperatorDelegation(o, v)  PROVE StakeInv'
    BY <2>3, SnapshotVaultOperatorDelegationInv
  <2>4. ASSUME NEW o \in Operators, NEW v \in Vaults, NEW n \in 1 .. Deposits[v],
               Delegate(v, o, n) \/ CooldownDelegation(v, o, n)
        PROVE  StakeInv'
    <3>1. n \in Nat
      BY SnapshotAssumption
    <3> QED  BY <2>4, <3>1, DelegateInv, CooldownDelegationInv
  <2>5. ASSUME NEW v \in Vaults, VaultUpdate(v)  PROVE StakeInv'
    BY <2>5, VaultUpdateInv
  <2>6. CASE NcnAddsOperator \/ \E p \in Vaults \cup Operators : NcnRemoves(p) \/ Leaves(p) \/ CooldownEnds(p)
    <3>1. UNCHANGED <<snapshots, vault_program, epoch>>
      BY <2>6 DEF NcnAddsOperator, NcnRemoves, Leaves, CooldownEnds
    <3> QED  BY <2>6, <3>1, OptInsInv
  <2>7. CASE NextEpoch
    BY <2>7, NextEpochInv
  <2> QED  BY <1>2, <2>1, <2>2, <2>3, <2>4, <2>5, <2>6, <2>7 DEF Next
<1> QED  BY <1>1, <1>2 DEF StakeNext, WeightsStep, SnapshotStep, all_vars

\* Every reachable state satisfies the invariant: each operator snapshot has
\* different vaults of the table and their sum, the epoch snapshot counts
\* exactly the final ones, and what was counted in an epoch is still with its
\* operator until the vault is updated in the next one.
THEOREM StakeInvariant == StakeSpec => []StakeInv
BY StakeInitInv, StakeStepInv, PTL DEF StakeSpec

-----------------------------------------------------------------------------
(* What the invariant says                                                 *)

\* A final snapshot of an active operator has an entry for every vault of the
\* table: it has as many entries as the table has vaults, and no vault twice.
LEMMA FinalIsComplete ==
    ASSUME StakeInv, NEW o \in FinalOperators, operator_snapshot[o].is_active
    PROVE  {operator_snapshot[o].entries[i].vault : i \in DOMAIN operator_snapshot[o].entries} = TableVaults
<1> DEFINE s == operator_snapshot[o]
           D == DOMAIN s.entries
           f == [i \in D |-> s.entries[i].vault]
<1>1. SnapshotSound(s) /\ operator_finalized(s)
  BY DEF StakeInv, SnapshotsInv, FinalOperators, Taken
<1>2. D = 1 .. Len(s.entries) /\ Len(s.entries) \in Nat
  <2> DEFINE E == Entry
             t == s.entries
  <2>1. t \in Seq(E)
    BY FinalFacts DEF OperatorSnapshots
  <2> HIDE DEF E, t
  <2>2. DOMAIN t = 1 .. Len(t) /\ Len(t) \in Nat
    BY <2>1
  <2> QED  BY <2>2 DEF t
<1>3. Cardinality(D) = Cardinality(TableVaults)
  <2>1. \A n \in Nat : Cardinality(1 .. n) = n
    BY FS_Interval
  <2>2. Len(s.entries) = Cardinality(TableVaults)
    BY <1>1 DEF SnapshotSound, operator_finalized
  <2> QED  BY <1>2, <2>1, <2>2
<1>4. f \in Injection(D, TableVaults)
  <2>1. \A i \in D : f[i] \in TableVaults
    BY <1>1 DEF SnapshotSound
  <2>2. \A i, j \in D : f[i] = f[j] => i = j
    BY <1>1 DEF SnapshotSound
  <2>3. f \in [D -> TableVaults]
    BY <2>1
  <2> HIDE DEF f, D
  <2> QED  BY <2>2, <2>3 DEF Injection, IsInjective
<1>5. f \in Surjection(D, TableVaults)
  <2> HIDE DEF f, D
  <2> QED  BY <1>3, <1>4, StakeFacts, FS_Injection
<1>6. \A v \in TableVaults : \E i \in D : s.entries[i].vault = v
  BY <1>5 DEF Surjection
<1>7. \A i \in D : s.entries[i].vault \in TableVaults
  BY <1>1 DEF SnapshotSound
<1> QED  BY <1>6, <1>7

\* A finalized epoch snapshot has a final operator snapshot for every operator
\* it expects: it has counted as many as it expects, all of them expected.
LEMMA FinalizedIsAll ==
    ASSUME StakeInv, Exists(epoch_snapshot), epoch_finalized(epoch_snapshot)
    PROVE  FinalOperators = 1 .. epoch_snapshot.operator_count
<1> DEFINE n == epoch_snapshot.operator_count
<1>1. n \in Nat
  BY StakeFacts DEF StakeInv, StakeTyped, Exists, EpochSnapshots
<1>2. Cardinality(FinalOperators) = n
  BY DEF StakeInv, SnapshotsInv, epoch_finalized
<1>3. FinalOperators \subseteq 1 .. n
  <2>1. \A o \in FinalOperators : o <= n
    BY DEF StakeInv, SnapshotsInv, FinalOperators, Taken
  <2>2. FinalOperators \subseteq Operators
    BY FinalFacts
  <2> QED  BY <1>1, <2>1, <2>2, SnapshotAssumption DEF Operators
<1>4. IsFiniteSet(1 .. n) /\ Cardinality(1 .. n) = n
  <2>1. \A k \in Nat : IsFiniteSet(1 .. k) /\ Cardinality(1 .. k) = k
    BY FS_Interval
  <2> QED  BY <1>1, <2>1
<1> HIDE DEF n
<1>5. FinalOperators = 1 .. n
  BY <1>2, <1>3, <1>4, FS_Subset
<1> QED  BY <1>5 DEF n

\* The stake an epoch counts, built up by transactions of all operators in any
\* order while vaults move stake and parties opt out, is the sum over exactly
\* the operators registered as final, each of which has an entry for every vault
\* of the table, and a finalized epoch snapshot misses no operator it expects.
THEOREM StakeAddsUp == StakeSpec => []WeightsAddUp
<1>1. StakeInv => WeightsAddUp
  <2> SUFFICES ASSUME StakeInv  PROVE WeightsAddUp
    OBVIOUS
  <2>1. TypeOK
    <3>1. Exists(epoch_snapshot) => epoch_snapshot \in EpochSnapshots
      BY DEF StakeInv, StakeTyped, Exists
    <3>2. EpochSnapshots \subseteq [operator_count : Nat, operators_registered : Nat,
                                    vault_count : Nat, valid_delegations : Nat,
                                    stake_weights : StakeWeights]
      BY StakeFacts DEF EpochSnapshots
    <3>3. \A o \in Operators : Exists(operator_snapshot[o]) => operator_snapshot[o] \in OperatorSnapshots
      BY DEF StakeInv, StakeTyped, Exists
    <3>4. \A s \in OperatorSnapshots :
              /\ s.is_active \in BOOLEAN /\ s.vault_operator_delegation_count \in 0 .. MAX_VAULTS
              /\ s.entries \in Seq(Entry) /\ s.valid_delegations \in Nat
              /\ s.stake_weights \in StakeWeights
      BY DEF OperatorSnapshots
    <3>5. \A v \in Vaults, o \in Operators :
              Exists(delegation[v][o]) => delegation[v][o] \in DelegationState
      BY DEF StakeInv, StakeTyped, Exists
    <3> QED  BY <3>1, <3>2, <3>3, <3>4, <3>5 DEF TypeOK, StakeInv, StakeTyped
  <2>2. SumsAgree
    <3>1. ASSUME NEW o \in Taken, NEW c \in Components
          PROVE  operator_snapshot[o].stake_weights[c] =
                     SumOver(LAMBDA i : operator_snapshot[o].entries[i].stake_weights[c],
                             DOMAIN operator_snapshot[o].entries)
      BY DEF StakeInv, SnapshotsInv, Taken, SnapshotSound, Column, SumOver
    <3>2. ASSUME Exists(epoch_snapshot), NEW c \in Components
          PROVE  epoch_snapshot.stake_weights[c] =
                     SumOver(LAMBDA o : operator_snapshot[o].stake_weights[c], FinalOperators)
      BY <3>2 DEF StakeInv, SnapshotsInv, FinalWeights, SumOver
    <3> QED  BY <3>1, <3>2 DEF SumsAgree
  <2>3. RegisteredIsFinal
    <3>1. Exists(epoch_snapshot) => epoch_snapshot.operators_registered = Cardinality(FinalOperators)
      BY DEF StakeInv, SnapshotsInv
    <3> QED  BY <3>1, FinalizedIsAll, FinalIsComplete DEF RegisteredIsFinal
  <2> QED  BY <2>1, <2>2, <2>3 DEF WeightsAddUp
<1> QED  BY <1>1, StakeInvariant, PTL

\* However a vault moves its tokens between operators and cools them down while
\* the snapshots are taken, the entries of one epoch count no token twice.
THEOREM StakeIsCountedOnce == StakeSpec => []StakeCountedOnce
<1>1. StakeInv => StakeCountedOnce
  <2> SUFFICES ASSUME StakeInv, NEW v \in TableVaults, NEW e \in 0 .. epoch
               PROVE  SumOver(LAMBDA o : taken[o][v].stake,
                              {o \in Operators : Exists(taken[o][v]) /\ taken[o][v].epoch = e})
                          <= Deposits[v]
    BY DEF StakeCountedOnce
  <2>1. v \in Vaults
    BY StakeFacts
  <2>2. SumOf(Counted(v, e)) <= Deposits[v]
    BY <2>1 DEF StakeInv, TokensInv
  <2> QED  BY <2>2 DEF Counted, TakenIn, SumOver
<1> QED  BY <1>1, StakeInvariant, PTL
=============================================================================
