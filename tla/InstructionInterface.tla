-------------------------- MODULE InstructionInterface --------------------------
(***************************************************************************)
(* One instruction on its way from a caller of the generated client to the *)
(* handler: the builder collects fields, the message merges privileges,    *)
(* the program decodes, destructures, loads and writes.  The three tables  *)
(* involved (client files, enum, handlers) are kept by different tools, so *)
(* the questions are whether an instruction built without omissions is     *)
(* understood as it was meant and whether the privileges it carries are    *)
(* the ones the handler needs.                                             *)
(*                                                                         *)
(* A field's value is represented by the field's name: an account that was *)
(* asked to be the ncn has key "ncn".                                      *)
(***************************************************************************)
EXTENDS ClientInstructions, TipRouterProgram, FiniteSets, Naturals

CONSTANT MaxOmitted    \* how many fields of a builder are left unset

ASSUME MaxOmittedAssumption == MaxOmitted \in Nat

VARIABLES
  phase,     \* "idle", "built", "sent" or "done"
  call,      \* what the caller asked for
  message,   \* the instruction on the wire
  outcome,   \* how it ended
  bound      \* what each parameter of the handler was bound to

vars == << phase, call, message, outcome, bound >>

(***************************************************************************)
(* A call: the instruction, the builder used (an Instruction for a         *)
(* transaction or a CpiBuilder), the fields left unset, the remaining      *)
(* accounts, each with the flags its caller gave it, and what sort of      *)
(* account CloseEpochAccount is to close.                                  *)
(***************************************************************************)
Flags == [writable : BOOLEAN, signer : BOOLEAN]

Fields(n) == {Client[n].accounts[i].key : i \in DOMAIN Client[n].accounts}
               \cup {Client[n].args[i].field : i \in DOMAIN Client[n].args}

Omissions(n) == {f \in SUBSET Fields(n) : Cardinality(f) <= MaxOmitted}

Calls(n) == [ix : {n}, via : {"transaction", "cpi"}, omitted : Omissions(n),
             remaining : {<< >>} \cup {<< f >> : f \in Flags},
             closing : IF n = "CloseEpochAccount" THEN {"router", "epoch_state", "other"}
                                                  ELSE {"none"}]

(***************************************************************************)
(* Builder::instruction() expects every field to be set.  Not needed are   *)
(* an optional account, an argument of type Option and, in a transaction's *)
(* builder only, the program addresses with a default.                     *)
(***************************************************************************)
Dispensable(c) ==
  {Client[c.ix].accounts[i].key :
     i \in {j \in DOMAIN Client[c.ix].accounts : Client[c.ix].accounts[j].optional}}
  \cup {Client[c.ix].args[i].field :
          i \in {j \in DOMAIN Client[c.ix].args : Client[c.ix].args[j].optional}}
  \cup (IF c.via = "transaction" THEN Client[c.ix].defaults ELSE {})

(***************************************************************************)
(* instruction_with_remaining_accounts: the metas in field order, an unset *)
(* optional account replaced by the program id, the remaining ones behind. *)
(***************************************************************************)
OwnMeta(c, i) ==
  LET m == Client[c.ix].accounts[i]
  IN  IF m.optional /\ m.key \in c.omitted
        THEN [key |-> "program_id", writable |-> FALSE, signer |-> FALSE]
        ELSE [key |-> m.key, writable |-> m.writable, signer |-> m.signer]

(***************************************************************************)
(* A transaction's builder takes remaining accounts as AccountMetas.  The  *)
(* CPI builder takes tuples (account, is_writable, is_signer) but reads    *)
(* .1 as is_signer and .2 as is_writable.                                  *)
(***************************************************************************)
RemainingMeta(c, i) ==
  IF c.via = "transaction"
    THEN [key |-> "remaining", writable |-> c.remaining[i].writable,
          signer |-> c.remaining[i].signer]
    ELSE [key |-> "remaining", writable |-> c.remaining[i].signer,
          signer |-> c.remaining[i].writable]

Metas(c) ==
  [i \in 1..Len(Client[c.ix].accounts) |-> OwnMeta(c, i)]
    \o [i \in 1..Len(c.remaining) |-> RemainingMeta(c, i)]

Data(c) ==
  [discriminator |-> Client[c.ix].discriminator,
   args |-> [i \in 1..Len(Client[c.ix].args) |->
               IF Client[c.ix].args[i].field \in c.omitted
                 THEN "None" ELSE Client[c.ix].args[i].field]]

NoMessage == [accounts |-> << >>, data |-> [discriminator |-> 0, args |-> << >>]]

NoCall == [ix |-> "none", via |-> "transaction", omitted |-> {}, remaining |-> << >>,
           closing |-> "none"]

-----------------------------------------------------------------------------

Init ==
  /\ phase = "idle"
  /\ call = NoCall
  /\ message = NoMessage
  /\ outcome = "none"
  /\ bound = << >>

(***************************************************************************)
(* A caller fills in a builder and asks for the instruction.               *)
(***************************************************************************)
Build(c) ==
  /\ phase = "idle"
  /\ call' = c
  /\ IF c.omitted \subseteq Dispensable(c)
       THEN /\ phase' = "built"
            /\ message' = [accounts |-> Metas(c), data |-> Data(c)]
            /\ outcome' = outcome
       ELSE /\ phase' = "done"
            /\ outcome' = "panic"
            /\ message' = message
  /\ UNCHANGED bound

(***************************************************************************)
(* The instruction travels in a transaction: the fee payer is a writable   *)
(* signer of the whole message, so its privileges hold wherever its key    *)
(* occurs.  In a CPI the handler sees the metas of the instruction.        *)
(***************************************************************************)
Send(payer) ==
  /\ phase = "built"
  /\ call.via = "cpi" => payer = "other"
  /\ payer # "other" => \E i \in DOMAIN message.accounts :
                           message.accounts[i].key = payer /\ message.accounts[i].signer
  /\ message' = [message EXCEPT !.accounts =
                   [i \in DOMAIN message.accounts |->
                      IF message.accounts[i].key = payer
                        THEN [message.accounts[i] EXCEPT !.writable = TRUE, !.signer = TRUE]
                        ELSE message.accounts[i]]]
  /\ phase' = "sent"
  /\ UNCHANGED << call, outcome, bound >>

(***************************************************************************)
(* try_from_slice: the first byte selects the variant; its fields are read *)
(* in order, and bytes missing or left over are an error.                  *)
(***************************************************************************)
Decodes(m) ==
  /\ m.data.discriminator + 1 \in DOMAIN TipRouterInstruction
  /\ Len(m.data.args) = Len(TipRouterInstruction[m.data.discriminator + 1].fields)

VariantOf(m) == TipRouterInstruction[m.data.discriminator + 1]

(***************************************************************************)
(* The field a variant read is passed on by name; the handler binds it by  *)
(* position.                                                               *)
(***************************************************************************)
Binding(m) ==
  LET v == VariantOf(m)
      passed == process_instruction(v)
      read == [f \in {v.fields[i] : i \in DOMAIN v.fields} |->
                 m.data.args[CHOOSE i \in DOMAIN v.fields : v.fields[i] = f]]
  IN  [i \in DOMAIN passed |-> read[passed[i]]]

(***************************************************************************)
(* The handler: `let [..] = accounts` takes exactly its accounts           *)
(* (close_epoch_account: exactly eight, then one receiver for a router and *)
(* whatever follows for others), the loaders check keys and privileges in  *)
(* any order before the first write, a write needs a writable account.     *)
(***************************************************************************)
TakesAccounts(c, m, h) ==
  IF c.ix = "CloseEpochAccount" /\ c.closing # "router"
    THEN Len(m.accounts) >= Len(h.accounts)
    ELSE Len(m.accounts) = Len(h.accounts)

process(c, m, h) ==
  IF ~ TakesAccounts(c, m, h) THEN "not_enough_account_keys"
  ELSE IF \E i \in DOMAIN h.accounts : m.accounts[i].key # h.accounts[i].name
    THEN "wrong_account"
  ELSE IF \E i \in DOMAIN h.accounts : h.accounts[i].signer /\ ~ m.accounts[i].signer
    THEN "missing_signature"
  ELSE IF \E i \in DOMAIN h.accounts : h.accounts[i].checked /\ ~ m.accounts[i].writable
    THEN "not_writable"
  ELSE IF \E i \in DOMAIN h.accounts : h.accounts[i].written /\ ~ m.accounts[i].writable
    THEN "readonly_modified"
  ELSE "accepted"

Process ==
  /\ phase = "sent"
  /\ phase' = "done"
  /\ IF Decodes(message)
       THEN /\ bound' = Binding(message)
            /\ outcome' = process(call, message,
                                  HandlerOf(call.closing)[VariantOf(message).name])
       ELSE /\ outcome' = "invalid_instruction_data"
            /\ bound' = bound
  /\ UNCHANGED << call, message >>

Again ==
  /\ phase = "done"
  /\ phase' = "idle"
  /\ call' = NoCall
  /\ message' = NoMessage
  /\ outcome' = "none"
  /\ bound' = << >>

Payers == {"other"} \cup {"ncn_admin", "admin", "operator_voter", "tie_breaker_admin",
                          "weight_table_admin"}

Next ==
  \/ \E n \in DOMAIN Client : \E c \in Calls(n) : Build(c)
  \/ \E payer \in Payers : Send(payer)
  \/ Process
  \/ Again

Spec == Init /\ [][Next]_vars

-----------------------------------------------------------------------------

Reached == phase = "done" /\ outcome # "panic"

(***************************************************************************)
(* Every byte string the client writes is one the program reads as the     *)
(* same instruction, and each argument, across the three places where only *)
(* its position identifies it (Borsh, the match arm, the handler's         *)
(* signature), arrives at the parameter it was given for.  A swap of two   *)
(* u64 arguments would compile everywhere.                                 *)
(***************************************************************************)
UnderstoodAsMeant ==
  Reached =>
    /\ outcome # "invalid_instruction_data"
    /\ VariantOf(message).name = call.ix
    /\ LET h == HandlerOf(call.closing)[call.ix]
       IN  bound = [i \in DOMAIN h.params |->
                      IF h.params[i] \in call.omitted THEN "None" ELSE h.params[i]]

(***************************************************************************)
(* Whatever the caller leaves out, no handler gets as far as writing an    *)
(* account the client declared read-only: the accounts a handler writes    *)
(* without having loaded them as writable (the epoch state of cast_vote,   *)
(* the accounts of the reallocs and closes, those handed to the stake pool *)
(* and the tip distribution program) are all writable in the client.       *)
(***************************************************************************)
NoReadOnlyWrite == outcome # "readonly_modified"
=============================================================================
