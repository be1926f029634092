---------------------------- MODULE KeeperRewards ----------------------------
(***************************************************************************)
(* The keeper's crank_distribute and crank_close_epoch_accounts on the     *)
(* rewards of RewardRouting: which payments a crank sends, in which order  *)
(* and from which copy of the base reward router, and what closing the     *)
(* routers does to the lamports their receivers still hold.                *)
(*                                                                         *)
(* Either the keeper alone pays the rewards of the epoch, or anybody sends *)
(* the instructions of RewardRouting in any order; the keeper's are then   *)
(* among them, and its list is not followed.                               *)
(***************************************************************************)
EXTENDS RewardRouting, SequencesExt

CONSTANT MaxFailures     \* bound on transactions of the keeper that fail

ASSUME FailuresAssumption == MaxFailures \in Nat

BaseRouter == <<"base">>

VARIABLES
    alone,      \* whether nobody but the keeper pays the epoch's rewards
    todo,       \* items of the running crank that are left
    copy,       \* the base reward router as the crank read it
    closing,    \* whether the closing time has come
    closed,     \* routers that are closed
    swept,      \* lamports that closing gave to the DAO wallet
    late,       \* lamports sent to the base receiver after it was closed (history)
    failures

accounts == <<alone, copy, closing, closed, swept, late>>
allvars == <<vars, todo, accounts, failures>>

KInit ==
    /\ Init
    /\ alone \in BOOLEAN
    /\ todo = <<>> /\ copy = base /\ closing = FALSE /\ closed = {}
    /\ swept = 0 /\ late = 0 /\ failures = 0

-----------------------------------------------------------------------------
(* The cranks as lists of items                                            *)

Item(op, router, payee) == [op |-> op, router |-> router, payee |-> payee]

BaseItems ==
    [i \in 1 .. Cardinality(BaseGroups) |-> Item("base", BaseRouter, SetToSeq(BaseGroups)[i])]
RouterItems(r) ==
    <<Item("route", r, "none"), Item("route_ncn", r, "none"), Item("operator", r, r[1])>>
    \o [i \in 1 .. Cardinality(Vaults) |-> Item("vault", r, SetToSeq(Vaults)[i])]
ForRouters(items(_)) ==
    FlattenSeq([i \in 1 .. Cardinality(Routers) |-> items(SetToSeq(Routers)[i])])

crank_distribute ==
    <<Item("read", BaseRouter, "none"), Item("route_base", BaseRouter, "none")>>
    \o BaseItems \o ForRouters(RouterItems)

CloseItems(r) == <<Item("close", r, "none")>>
crank_close_epoch_accounts ==
    crank_distribute \o ForRouters(CloseItems) \o <<Item("close", BaseRouter, "none")>>

StartCrank ==
    /\ todo = <<>>
    /\ BaseRouter \notin closed     \* then the epoch has no stage to crank rewards in
    /\ todo' = IF closing THEN crank_close_epoch_accounts ELSE crank_distribute
    /\ UNCHANGED <<vars, alone, copy, closing, closed, swept, late, failures>>

-----------------------------------------------------------------------------
(* Items                                                                   *)

\* The crank decides from its copy what to send out of the base router, and
\* from the accounts themselves what to send out of the others.
NothingToDo_NoRoute(i) ==
    CASE i.op = "read" -> FALSE
      [] i.op = "route_base" -> TRUE
      [] i.op = "base" -> BaseFee[i.payee] = 0 \/ copy.base_rewards[i.payee] = 0
      [] i.op = "route" -> copy.routes[i.router] = 0
      [] i.op = "route_ncn" -> ncn_receiver[i.router] = 0
      [] i.op = "operator" -> ncn[i.router].operator_rewards = 0
      [] i.op = "vault" -> ncn[i.router].vault_routes[i.payee] = 0
      [] i.op = "close" -> i.router \in closed
NothingToDo(i) ==
    CASE i.op = "read" -> FALSE
      [] i.op = "route_base" -> receiver = 0
      [] i.op = "base" -> BaseFee[i.payee] = 0 \/ copy.base_rewards[i.payee] = 0
      [] i.op = "route" -> NcnFee[i.router[2]] = 0 \/ copy.routes[i.router] = 0
      [] i.op = "route_ncn" -> NcnFee[i.router[2]] = 0 \/ ncn_receiver[i.router] = 0
      [] i.op = "operator" -> NcnFee[i.router[2]] = 0 \/ ncn[i.router].operator_rewards = 0
      [] i.op = "vault" -> NcnFee[i.router[2]] = 0 \/ ncn[i.router].vault_routes[i.payee] = 0
      [] i.op = "close" -> i.router \in closed

\* A router that is closed is not created again: no transaction can use it.
Open(i) == i.router \notin closed

\* get_or_create_base_reward_router
Read(i) == copy' = base /\ UNCHANGED <<vars, closed, swept>>

\* BaseRewardReceiver::close, NcnRewardReceiver::close: what is above the rent
\* goes to the DAO wallet.
CloseRouter_KeepsReceiver(i) ==
    /\ closed' = closed \cup {i.router}
    /\ UNCHANGED <<vars, swept, copy>>
CloseRouter(i) ==
    /\ closed' = closed \cup {i.router}
    /\ IF i.router = BaseRouter
       THEN /\ swept' = swept + receiver
            /\ receiver' = 0 /\ UNCHANGED ncn_receiver
       ELSE /\ swept' = swept + ncn_receiver[i.router]
            /\ ncn_receiver' = [ncn_receiver EXCEPT ![i.router] = 0] /\ UNCHANGED receiver
    /\ UNCHANGED <<Votes, base, ncn, paid, deposited, progress, plan, copy>>

\* The transactions, with the max_iterations the client asks for.
route_base_rewards == \E k \in BaseIterations : RouteBaseRewards(k)
route_ncn_rewards(r) == \E k \in NcnIterations : RouteNcnRewards(r, k)
distribute_base_rewards(b) == DistributeBaseRewards(b)
distribute_base_ncn_rewards(r) == BaseRouter \notin closed /\ DistributeBaseNcnRewardRoute(r)
distribute_ncn_operator_rewards(r) == DistributeNcnOperatorRewards(r)
distribute_ncn_vault_rewards(r, v) == DistributeNcnVaultRewards(r, v)

Pay(i) ==
    \/ i = Item("route_base", BaseRouter, "none") /\ route_base_rewards
    \/ \E b \in BaseGroups : i = Item("base", BaseRouter, b) /\ distribute_base_rewards(b)
    \/ \E r \in Routers :
          \/ i = Item("route", r, "none") /\ distribute_base_ncn_rewards(r)
          \/ i = Item("route_ncn", r, "none") /\ route_ncn_rewards(r)
          \/ i = Item("operator", r, r[1]) /\ distribute_ncn_operator_rewards(r)
          \/ \E v \in Vaults : i = Item("vault", r, v) /\ distribute_ncn_vault_rewards(r, v)

Transaction(i) ==
    /\ Open(i)
    /\ \/ i.op = "read" /\ Read(i)
       \/ \E r \in Routers \cup {BaseRouter} : i = Item("close", r, "none") /\ CloseRouter(i)
       \/ Pay(i) /\ UNCHANGED <<copy, closed, swept>>
    /\ UNCHANGED <<alone, closing, late>>

\* route_base_rewards and route_ncn_rewards repeat while the router is routing.
Repeats(i) ==
    \/ i.op = "route_base" /\ still_routing(base')
    \/ i.op = "route_ncn" /\ still_routing(ncn'[i.router])

\* A failed read or base routing ends crank_distribute with `?`; a failed
\* payment or routing of a router ends the work on that router; a failed
\* payment to a base wallet or vault is logged.
AfterError(list) ==
    LET i == Head(list)
        skipped(j) == CASE i.op \in {"read", "route_base"} -> j.op # "close"
                        [] i.op \in {"route", "route_ncn", "operator"} ->
                              j.op # "close" /\ j.router = i.router
                        [] OTHER -> FALSE
    IN  SelectSeq(Tail(list), LAMBDA j : ~ skipped(j))

Skip ==
    /\ todo # <<>> /\ NothingToDo(Head(todo))
    /\ todo' = Tail(todo)
    /\ UNCHANGED <<vars, accounts, failures>>

Confirmed ==
    /\ todo # <<>> /\ ~ NothingToDo(Head(todo))
    /\ Transaction(Head(todo))
    /\ todo' = IF Repeats(Head(todo)) THEN todo ELSE Tail(todo)
    /\ UNCHANGED failures

Refused ==
    /\ todo # <<>> /\ ~ NothingToDo(Head(todo)) /\ ~ Open(Head(todo))
    /\ todo' = AfterError(todo)
    /\ UNCHANGED <<vars, accounts, failures>>

\* The transaction is lost, or lands although an error is reported.
Fails(landed) ==
    /\ failures < MaxFailures /\ failures' = failures + 1
    /\ todo # <<>> /\ ~ NothingToDo(Head(todo))
    /\ IF landed THEN Transaction(Head(todo)) ELSE UNCHANGED <<vars, accounts>>
    /\ todo' = AfterError(todo)

-----------------------------------------------------------------------------
(* Claims may arrive at any time; the closing time comes once.             *)

Claim(n) ==
    /\ alone /\ Deposit(n)
    /\ late' = IF BaseRouter \in closed THEN late + n ELSE late
    /\ UNCHANGED <<alone, todo, copy, closing, closed, swept, failures>>

CloseOpens ==
    /\ alone /\ ~ closing /\ closing' = TRUE
    /\ UNCHANGED <<vars, alone, todo, copy, closed, swept, late, failures>>

\* Claims, routing and distribution by others.
Anybody == ~ alone /\ Next /\ UNCHANGED <<todo, accounts, failures>>

Keeper == alone /\ (StartCrank \/ Skip \/ Confirmed \/ Refused)
KNext ==
    \/ Keeper
    \/ \E landed \in BOOLEAN : Fails(landed)
    \/ \E n \in Deposits : Claim(n)
    \/ CloseOpens
    \/ Anybody

KSpec == KInit /\ [][KNext]_allvars
\* The keeper loop never ends.
KFairSpec == KSpec /\ WF_allvars(Keeper)

-----------------------------------------------------------------------------
(* Properties                                                              *)

Held == receiver + SumOver(LAMBDA r : ncn_receiver[r], Routers)
Paid == SumOver(LAMBDA p : paid[p], DOMAIN paid)

\* Whatever the keeper pays, repeats or closes, every lamport claimed for the
\* epoch is in a receiver, was paid, or went to the DAO wallet; and closing
\* leaves nothing in a receiver but the tips claimed after the base router was
\* closed, which stay in one that nobody can empty.
LamportsConserved ==
    /\ deposited = Held + Paid + swept
    /\ BaseRouter \in closed => receiver = late
    /\ \A r \in Routers : r \in closed => ncn_receiver[r] = 0

\* Until closing, each router's ledger, its receiver and the epoch state's
\* progress agree, also half way through a pass, and the next slice of a pass
\* never fails.
LedgersBalance ==
    /\ closed = {} => TypeOK /\ BaseLedgerBalances /\ NcnLedgersBalance /\ ProgressAccounts
    /\ SlicesNeverFail

\* The keeper's cranks bring every claim to its payees, unless closing comes in
\* between, in spite of failed transactions and of the old copy of the base
\* router they work from.
ClaimsArePaid == (alone /\ deposited > 0) ~> (closing \/ Paid = deposited)
=============================================================================
