---------------------------- MODULE SetupClient ----------------------------
(***************************************************************************)
(* The command add-reserve of the command line client.  It needs more      *)
(* accounts than one transaction can create, so it sends three, one after  *)
(* the other and all with the blockhash it fetched first; any of them may  *)
(* fail or expire, and the client may be stopped while it waits for one,   *)
(* which may then still land.  The user tries again with a new run, whose  *)
(* keypairs are new.  Meanwhile the fee payer, the owner of the source     *)
(* tokens and the owner of the market do other things.                     *)
(***************************************************************************)
EXTENDS Integers, Sequences

CONSTANTS
    MaxRuns,      \* runs of the command
    Rent,         \* Rent[a]: rent exemption of account a
    Fee,          \* fee of one transaction
    Lamports,     \* balance of the fee payer at first
    Spent,        \* lamports the fee payer spends elsewhere at a time
    SourceTokens, \* tokens in the source account at first
    Amount,       \* liquidity_amount
    MaxDisturbed  \* steps of others

Runs == 1..MaxRuns

Accounts == DOMAIN Rent

\* what the constants have to be
SetupAssumption ==
    /\ Accounts = {"reserve", "collateral_mint", "collateral_supply", "user_collateral",
                   "liquidity_supply", "liquidity_fee_receiver"}
    /\ \A a \in Accounts : Rent[a] \in Nat
    /\ {MaxRuns, Fee, Lamports, Spent, SourceTokens, Amount, MaxDisturbed} \subseteq Nat

VARIABLES
    chain,     \* what the transactions read and write
    inflight,  \* <<run, message>> sent and neither landed nor expired
    client,    \* the run under way: its number, the message it waits for
    told,      \* what the user of each run was told
    others     \* steps of others so far

vars == <<chain, inflight, client, told, others>>

NoDelegate == [run |-> 0, amount |-> 0]

Init ==
    /\ chain = [lamports |-> Lamports, exists |-> {}, initialized |-> {},
                source |-> SourceTokens, supply |-> [n \in Runs |-> 0],
                delegate |-> NoDelegate, ready |-> TRUE]
    /\ inflight = {}
    /\ client = [run |-> 0, message |-> 0, excused |-> FALSE]
    /\ told = [n \in Runs |-> "nothing yet"]
    /\ others = 0

-----------------------------------------------------------------------------
(* One instruction of run n on state w: what it leaves, {} for Err.        *)

Result(ok, value) == IF ok THEN {value} ELSE {}

CreateAccount(w, n, a) ==
    Result(Rent[a] <= w.lamports /\ <<n, a>> \notin w.exists,
           [w EXCEPT !.lamports = @ - Rent[a], !.exists = @ \cup {<<n, a>>}])

\* the transfer authority is one of the new keypairs
Approve(w, n) == {[w EXCEPT !.delegate = [run |-> n, amount |-> Amount]]}

\* process_init_reserve.  ready: the market still belongs to the signer and
\* one of the oracles answers.  The token program clears a delegate that has
\* used up its amount.
InitReserve(w, n) ==
    Result(/\ Amount > 0
           /\ \A a \in Accounts : <<n, a>> \in w.exists
           /\ n \notin w.initialized
           /\ w.ready
           /\ w.delegate.run = n /\ w.delegate.amount >= Amount
           /\ w.source >= Amount,
           [w EXCEPT !.initialized = @ \cup {n}, !.source = @ - Amount,
                     !.supply[n] = @ + Amount,
                     !.delegate = IF @.amount = Amount THEN NoDelegate
                                  ELSE [@ EXCEPT !.amount = @ - Amount]])

Revoke(w) == {[w EXCEPT !.delegate = NoDelegate]}

Instruct(w, n, i) ==
    CASE i = "approve" -> Approve(w, n)
      [] i = "init_reserve" -> InitReserve(w, n)
      [] i = "revoke" -> Revoke(w)
      [] OTHER -> CreateAccount(w, n, i)

\* mutant: the transfer authority is approved with the accounts it will fill
ApprovesEarly(m) ==
    << <<"reserve", "collateral_mint", "collateral_supply", "user_collateral">>,
       <<"liquidity_supply", "liquidity_fee_receiver", "approve">>,
       <<"init_reserve", "revoke">> >>[m]

\* message_1, message_2 and message_3
Message(m) ==
    << <<"reserve", "collateral_mint", "collateral_supply", "user_collateral">>,
       <<"liquidity_supply", "liquidity_fee_receiver">>,
       <<"approve", "init_reserve", "revoke">> >>[m]

\* a transaction: the fee, then its instructions, all or none
Executed(w, n, m) ==
    LET after[k \in 0..Len(Message(m))] ==
            IF k = 0 THEN Result(Fee <= w.lamports, [w EXCEPT !.lamports = @ - Fee])
            ELSE UNION {Instruct(v, n, Message(m)[k]) : v \in after[k - 1]}
    IN  after[Len(Message(m))]

-----------------------------------------------------------------------------
(* The client.                                                             *)

\* what check_fee_payer_balance asks for
RequiredBalance ==
    Rent["reserve"] + Rent["collateral_mint"] + Rent["collateral_supply"] + Rent["user_collateral"]
    + Rent["liquidity_supply"] + Rent["liquidity_fee_receiver"] + 3 * Fee

Busy == client.message # 0

\* A run starts, on accounts with new keys.  It is excused from the start
\* when the market, an oracle or the source tokens are not there to be used.
AddReserve ==
    /\ ~Busy /\ client.run < MaxRuns
    /\ LET n == client.run + 1
       IN  IF chain.lamports < RequiredBalance
           THEN /\ client' = [run |-> n, message |-> 0, excused |-> TRUE]
                /\ told' = [told EXCEPT ![n] = "insufficient balance"]
                /\ UNCHANGED inflight
           ELSE /\ client' = [run |-> n, message |-> 1,
                              excused |-> \/ inflight # {} \/ ~chain.ready
                                          \/ chain.source < Amount \/ Amount = 0]
                /\ inflight' = inflight \cup {<<n, 1>>}
                /\ UNCHANGED told
    /\ UNCHANGED <<chain, others>>

\* with dry_run each message is simulated, on a chain that has none of the
\* accounts of the ones before it, and the command reports success
DryRun ==
    /\ ~Busy /\ client.run < MaxRuns /\ chain.lamports >= RequiredBalance
    /\ client' = [run |-> client.run + 1, message |-> 0, excused |-> TRUE]
    /\ told' = [told EXCEPT ![client.run + 1] = "simulated"]
    /\ UNCHANGED <<chain, inflight, others>>

Stops(what, excused) ==
    /\ client' = [client EXCEPT !.message = 0, !.excused = @ \/ excused]
    /\ told' = [told EXCEPT ![client.run] = what]

\* mutant: the client waits on after a failure
ContinueWaiting(ok, rest) ==
    IF ok /\ client.message = 3 THEN Stops("ok", FALSE) /\ inflight' = rest
    ELSE /\ client' = [client EXCEPT !.message = IF ok THEN @ + 1 ELSE @]
         /\ inflight' = IF ok THEN rest \cup {<<client.run, client.message + 1>>} ELSE rest
         /\ UNCHANGED told

\* what the client does once the message it waits for has landed
Continue(ok, rest) ==
    IF ~ok THEN Stops("failed", FALSE) /\ inflight' = rest
    ELSE IF client.message = 3 THEN Stops("ok", FALSE) /\ inflight' = rest
    ELSE /\ client' = [client EXCEPT !.message = @ + 1]
         /\ inflight' = rest \cup {<<client.run, client.message + 1>>}
         /\ UNCHANGED told

\* one message lands; its fee is paid even when it fails
Land(n, m) ==
    /\ <<n, m>> \in inflight
    /\ LET after == Executed(chain, n, m)
       IN  /\ chain' \in IF after # {} THEN after
                         ELSE {[chain EXCEPT !.lamports = IF Fee <= @ THEN @ - Fee ELSE @]}
           /\ IF <<n, m>> = <<client.run, client.message>>
              THEN Continue(after # {}, inflight \ {<<n, m>>})
              ELSE /\ inflight' = inflight \ {<<n, m>>}
                   /\ client' = [client EXCEPT !.excused = @ \/ Busy]
                   /\ UNCHANGED told
    /\ UNCHANGED others

\* The one blockhash of the run is too old when message m arrives; the
\* client polls until then (send_and_confirm_transaction).
Expire(n, m) ==
    /\ <<n, m>> \in inflight
    /\ inflight' = inflight \ {<<n, m>>}
    /\ IF <<n, m>> = <<client.run, client.message>> THEN Stops("expired", TRUE)
       ELSE UNCHANGED <<client, told>>
    /\ UNCHANGED <<chain, others>>

\* the process is stopped, or its connection lost, while it waits
Interrupt ==
    /\ Busy
    /\ Stops("interrupted", TRUE)
    /\ UNCHANGED <<chain, inflight, others>>

-----------------------------------------------------------------------------
(* Others.                                                                 *)

Disturb(w) ==
    /\ others < MaxDisturbed /\ others' = others + 1
    /\ chain' = w
    /\ client' = [client EXCEPT !.excused = @ \/ Busy]
    /\ UNCHANGED <<inflight, told>>

Disturbance ==
    \/ chain.lamports >= Spent /\ Disturb([chain EXCEPT !.lamports = @ - Spent])
    \/ chain.source >= 1 /\ Disturb([chain EXCEPT !.source = @ - 1])
    \/ Disturb([chain EXCEPT !.ready = ~@])

Deliver == \E n \in Runs, m \in 1..3 : Land(n, m) \/ Expire(n, m)

Next == AddReserve \/ DryRun \/ Interrupt \/ Deliver \/ Disturbance

\* A message that was sent lands or expires.
Spec == Init /\ [][Next]_vars /\ WF_vars(Deliver)

-----------------------------------------------------------------------------
(* Properties.                                                             *)

TypeOK ==
    /\ chain \in [lamports : 0..Lamports, exists : SUBSET (Runs \X Accounts),
                  initialized : SUBSET Runs, source : 0..SourceTokens,
                  supply : [Runs -> {0, Amount}],
                  delegate : [run : 0..MaxRuns, amount : 0..Amount], ready : BOOLEAN]
    /\ inflight \subseteq Runs \X (1..3)
    /\ client \in [run : 0..MaxRuns, message : 0..3, excused : BOOLEAN]
    /\ told \in [Runs -> STRING]
    /\ others \in 0..MaxDisturbed

(***************************************************************************)
(* However a run ends, and whatever is still under way when the next one   *)
(* starts, no transfer authority keeps an approval on the source account.  *)
(***************************************************************************)
NoApprovalLeft == chain.delegate = NoDelegate

(***************************************************************************)
(* What check_fee_payer_balance asks for is enough: a run fails only when  *)
(* something outside it came between: the fee payer, the source or the     *)
(* market was used otherwise, or a message of an earlier run was still     *)
(* under way.                                                              *)
(***************************************************************************)
BalanceSuffices ==
    ~Busy /\ client.run # 0 /\ told[client.run] = "failed" => client.excused

(***************************************************************************)
(* A user who was told that a run succeeded has the reserve, and one who   *)
(* was told that it failed does not, now or later: running the command     *)
(* again does not make a second deposit.  Only of a run that was           *)
(* interrupted can the user not say.                                       *)
(***************************************************************************)
ReportIsFinal ==
    \A n \in Runs : /\ told[n] = "ok" => n \in chain.initialized
                    /\ n \in chain.initialized => told[n] \in {"ok", "interrupted"}

(***************************************************************************)
(* However a run ends, the user can run the command again.                 *)
(***************************************************************************)
RetryIsSafe == NoApprovalLeft /\ BalanceSuffices /\ ReportIsFinal

\* A run does not wait for ever.
RunEnds == Busy ~> ~Busy
=============================================================================
