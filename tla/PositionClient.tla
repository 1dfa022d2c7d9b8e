--------------------------- MODULE PositionClient ---------------------------
(***************************************************************************)
(* The commands liquidate-obligation, withdraw-collateral and              *)
(* redeem-collateral of the command line client, run several at once by    *)
(* one fee payer.  The first two read the obligation, then its reserves,   *)
(* create missing token accounts in transactions of their own, and send    *)
(* one transaction that refreshes every reserve of the positions they      *)
(* read, refreshes the obligation and acts on it.  refresh_obligation      *)
(* wants the reserves of the positions one by one and in their order,      *)
(* which others change: by new or closed positions, and by refreshes,      *)
(* which drop empty positions and move the heaviest debt to the front.     *)
(*                                                                         *)
(* When a transaction lands the obligation is stale, the weakest start;    *)
(* any reserves may be fresh, as others refresh them in the same slot, and *)
(* any may be able to pay.  What a liquidation takes is any amount         *)
(* (Liquidation computes it).  The fee payer owns the obligation it        *)
(* withdraws from, whose signature is needed.                              *)
(***************************************************************************)
EXTENDS Integers, FiniteSets, Sequences, SequencesExt

CONSTANTS
    Clients,
    Reserves,     \* numbered by borrow weight: the tie of equal weights is by key
    Feeds,        \* oracle accounts
    Deposits0,    \* positions at first: sequences of [reserve, amount]
    Borrows0,
    Atas0,        \* token accounts the fee payer may have at first: sets of <<reserve, kind>>
    Commands,     \* commands that may be given
    MaxAmount,    \* bound on the amount of a position
    MaxPositions, \* positions of each side
    MaxCommands,  \* commands run by all clients
    MaxOthers     \* steps of others

Kinds == {"collateral", "liquidity"}

Position == [reserve : Reserves, amount : 0..MaxAmount]

\* the fields of a command are those of the instruction it is sent as
Command == [op : {"liquidate"}, repay : Reserves, reserve : Reserves]
           \cup [op : {"withdraw", "redeem"}, reserve : Reserves]

\* what the constants have to be
PositionAssumption ==
    /\ Reserves \subseteq Nat \ {0} /\ IsFiniteSet(Reserves)
    /\ Deposits0 \in Seq(Position) /\ Borrows0 \in Seq(Position)
    /\ Commands \subseteq Command /\ Atas0 \subseteq SUBSET (Reserves \X Kinds)
    /\ {MaxAmount, MaxPositions, MaxCommands, MaxOthers} \subseteq Nat

VARIABLES
    chain,    \* what transactions read and write
    client,   \* per client: the command it runs and how far it is
    told,     \* what the last command of a client ended with
    commands, \* commands begun
    others    \* steps of others

vars == <<chain, client, told, commands, others>>

Init ==
    /\ \E mints \in Atas0 :
          chain = [deposits |-> Deposits0, borrows |-> Borrows0, unhealthy |-> TRUE,
                   feed |-> [r \in Reserves |-> CHOOSE f \in Feeds : TRUE],
                   wallet |-> [r \in Reserves |-> 0], ata |-> mints]
    /\ client = [c \in Clients |-> [phase |-> "idle"]]
    /\ told = [c \in Clients |-> "nothing"]
    /\ commands = 0 /\ others = 0

-----------------------------------------------------------------------------
(* The program.  An instruction acts on a state w of the chain, extended   *)
(* by what is fresh so far in the transaction: {} for Err.                 *)

Result(ok, value) == IF ok THEN {value} ELSE {}

ReservesOf(positions) == [i \in DOMAIN positions |-> positions[i].reserve]

IndexOf(positions, r) == SelectInSeq(positions, LAMBDA p : p.reserve = r)

\* a position loses n and is removed when nothing is left
Reduced(positions, i, n) ==
    IF positions[i].amount = n THEN RemoveAt(positions, i)
    ELSE [positions EXCEPT ![i].amount = @ - n]

IsDebt(p) == p.amount > 0

\* retain: the positions that are not empty, in their order
Retained(positions) ==
    LET kept[n \in 0..Len(positions)] ==
            IF n = 0 THEN <<>>
            ELSE IF IsDebt(positions[n]) THEN Append(kept[n - 1], positions[n])
            ELSE kept[n - 1]
    IN  kept[Len(positions)]

\* the heaviest debt to the front, then empty positions out
HeaviestFirst(borrows) ==
    LET debts == {i \in DOMAIN borrows : IsDebt(borrows[i])}
        top   == CHOOSE i \in debts : \A j \in debts : borrows[j].reserve <= borrows[i].reserve
    IN  Retained(IF debts = {} THEN borrows
                 ELSE [i \in DOMAIN borrows |-> borrows[IF i = 1 THEN top
                                                        ELSE IF i = top THEN 1 ELSE i]])

RefreshedPositions(w) ==
    [w EXCEPT !.borrows = HeaviestFirst(@), !.deposits = Retained(@)]

RefreshReserve(w, r, f) ==
    Result(f = w.feed[r], [w EXCEPT !.fresh = @ \cup {r}])

\* mutant: reserves left over after the last position not noticed
RefreshIgnoresSurplus(w, reserves) ==
    LET positions == ReservesOf(w.deposits) \o ReservesOf(w.borrows)
    IN  Result(IsPrefix(positions, reserves) /\ Range(positions) \subseteq w.fresh,
               [RefreshedPositions(w) EXCEPT !.obligation_fresh = TRUE])

RefreshObligation(w, reserves) ==
    Result(/\ reserves = ReservesOf(w.deposits) \o ReservesOf(w.borrows)
           /\ Range(reserves) \subseteq w.fresh,
           [RefreshedPositions(w) EXCEPT !.obligation_fresh = TRUE])

\* the first borrow is the one that may be repaid; the collateral is
\* redeemed at once
LiquidateObligation(w, repay, r) ==
    LET d == IndexOf(w.deposits, r)
    IN  IF /\ w.obligation_fresh /\ {repay, r} \subseteq w.fresh /\ w.unhealthy
           /\ IndexOf(w.borrows, repay) = 1 /\ d # 0
           /\ {<<r, k>> : k \in Kinds} \subseteq w.ata
        THEN {[w EXCEPT !.borrows = Reduced(@, 1, n), !.deposits = Reduced(@, d, m),
                        !.obligation_fresh = FALSE, !.fresh = @ \ {repay, r}] :
              n \in 1..w.borrows[1].amount, m \in 1..w.deposits[d].amount}
        ELSE {}

\* without debt everything may be withdrawn, with an unhealthy one nothing
WithdrawObligationCollateral(w, r) ==
    LET d == IndexOf(w.deposits, r)
    IN  IF /\ w.obligation_fresh /\ r \in w.fresh
           /\ d # 0 /\ (w.borrows = <<>> \/ ~w.unhealthy) /\ <<r, "collateral">> \in w.ata
        THEN {[w EXCEPT !.deposits = Reduced(@, d, n), !.wallet[r] = @ + n,
                        !.obligation_fresh = FALSE] : n \in 1..w.deposits[d].amount}
        ELSE {}

\* refuses a stale reserve and refreshes nothing; the reserve has to have the
\* liquidity, and its limiter and the market's have to let it out
RedeemReserveCollateral(w, r) ==
    Result(/\ r \in w.fresh /\ r \in w.payable
           /\ w.wallet[r] > 0 /\ {<<r, k>> : k \in Kinds} \subseteq w.ata,
           [w EXCEPT !.wallet[r] = @ - 1, !.fresh = @ \ {r}])

\* create_associated_token_account fails when there is one, and asks the
\* program it is told is the token program for the size of the account
CreateAta(w, mint, token_program) ==
    Result(mint \notin w.ata /\ token_program = "spl_token", [w EXCEPT !.ata = @ \cup {mint}])

Instruct(w, i) ==
    CASE i.op = "refresh_reserve" -> RefreshReserve(w, i.reserve, i.feed)
      [] i.op = "refresh_obligation" -> RefreshObligation(w, i.reserves)
      [] i.op = "liquidate" -> LiquidateObligation(w, i.repay, i.reserve)
      [] i.op = "withdraw" -> WithdrawObligationCollateral(w, i.reserve)
      [] i.op = "redeem" -> RedeemReserveCollateral(w, i.reserve)
      [] i.op = "create_ata" -> CreateAta(w, i.mint, i.token_program)

\* What a transaction finds that no command prepares: the reserves others
\* have refreshed in its slot, and those that can pay what is redeemed.  A
\* transaction redeems from one reserve at most: all can pay, or none.
Arrivals == [fresh : SUBSET Reserves, payable : {{}, Reserves}]

Arriving(w, arrival) ==
    [deposits |-> w.deposits, borrows |-> w.borrows, unhealthy |-> w.unhealthy,
     feed |-> w.feed, wallet |-> w.wallet, ata |-> w.ata,
     fresh |-> arrival.fresh, payable |-> arrival.payable, obligation_fresh |-> FALSE]

Kept(w) == [deposits |-> w.deposits, borrows |-> w.borrows, unhealthy |-> w.unhealthy,
            feed |-> w.feed, wallet |-> w.wallet, ata |-> w.ata]

\* a transaction: all instructions or none
Executed(instructions, arrival) ==
    LET after[k \in 0..Len(instructions)] ==
            IF k = 0 THEN {Arriving(chain, arrival)}
            ELSE UNION {Instruct(w, instructions[k]) : w \in after[k - 1]}
    IN  {Kept(w) : w \in after[Len(instructions)]}

-----------------------------------------------------------------------------
(* The client.                                                             *)

Busy(c) == client[c].phase # "idle"

Ends(c, what) ==
    /\ client' = [client EXCEPT ![c] = [phase |-> "idle"]]
    /\ told' = [told EXCEPT ![c] = what]

\* the token accounts a command makes sure of, in its order
RequiredMints(command) ==
    IF command.op = "withdraw" THEN << <<command.reserve, "collateral">> >>
    ELSE << <<command.reserve, "collateral">>, <<command.reserve, "liquidity">> >>

\* what the command asks can be done on w, with the token accounts there are
Servable(w, command) ==
    LET d == IndexOf(w.deposits, command.reserve)
    IN  /\ Range(RequiredMints(command)) \subseteq w.ata
        /\ CASE command.op = "liquidate" ->
                 /\ w.unhealthy /\ d # 0 /\ w.deposits[d].amount > 0
                 /\ \E p \in Range(w.borrows) : IsDebt(p) /\ p.reserve = command.repay
                 /\ \A p \in Range(w.borrows) : IsDebt(p) => p.reserve <= command.repay
             [] command.op = "withdraw" ->
                 /\ d # 0 /\ w.deposits[d].amount > 0
                 /\ ~w.unhealthy \/ ~\E p \in Range(w.borrows) : IsDebt(p)
             [] command.op = "redeem" -> w.wallet[command.reserve] > 0

\* mutant: the reserves listed once each, as they are refreshed
ReservesReadOnce(w) ==
    SetToSeq(Range(ReservesOf(w.deposits)) \cup Range(ReservesOf(w.borrows)))

\* deposits first, then borrows, with repetitions
ReservesRead(w) == ReservesOf(w.deposits) \o ReservesOf(w.borrows)

\* the first read, of the obligation; redeem-collateral has none
ReadObligation(c, command) ==
    /\ ~Busy(c) /\ commands < MaxCommands
    /\ commands' = commands + 1
    /\ client' = [client EXCEPT ![c] =
          [phase |-> "obligation read", command |-> command,
           reserves |-> IF command.op = "redeem" THEN <<>> ELSE ReservesRead(chain),
           excused |-> ~Servable(chain, command)]]
    /\ told' = [told EXCEPT ![c] = "nothing"]
    /\ UNCHANGED <<chain, others>>

\* the second read, of the reserves, for their oracles and mints; a reserve
\* of the command that is not among them stops the client
ReadReserves(c) ==
    LET cl     == client[c]
        wanted == IF cl.command.op = "liquidate" THEN {cl.command.repay, cl.command.reserve}
                  ELSE {cl.command.reserve}
    IN  /\ cl.phase = "obligation read"
        /\ IF cl.command.op # "redeem" /\ ~ wanted \subseteq Range(cl.reserves)
           THEN Ends(c, IF cl.excused THEN "panic" ELSE "panic for no reason")
           ELSE /\ client' = [client EXCEPT ![c] =
                      [phase |-> "accounts", command |-> cl.command, reserves |-> cl.reserves,
                       feed |-> chain.feed, mints |-> RequiredMints(cl.command),
                       excused |-> cl.excused]]
                /\ UNCHANGED told
        /\ UNCHANGED <<chain, commands, others>>

\* get_or_create_associated_token_address looks for the account
CheckAta(c) ==
    LET cl == client[c]
    IN  /\ cl.phase = "accounts" /\ cl.mints # <<>>
        /\ client' = [client EXCEPT ![c] =
              IF Head(cl.mints) \in chain.ata THEN [cl EXCEPT !.mints = Tail(@)]
              ELSE [cl EXCEPT !.phase = "creating"]]
        /\ UNCHANGED <<chain, told, commands, others>>

RefreshInstructions(cl) ==
    [i \in DOMAIN cl.reserves |->
        [op |-> "refresh_reserve", reserve |-> cl.reserves[i], feed |-> cl.feed[cl.reserves[i]]]]
    \o << [op |-> "refresh_obligation", reserves |-> cl.reserves] >>

\* What is sent when every token account is there.  withdraw-collateral
\* refreshes each reserve once and in any order: to the same effect.
Instructions(cl) ==
    IF cl.command.op = "redeem" THEN << cl.command >>
    ELSE Append(RefreshInstructions(cl), cl.command)

\* send_transaction; with dry_run the transactions are simulated only, and
\* the client does not learn how that went
Send(c) ==
    LET cl == client[c]
    IN  /\ cl.phase = "accounts" /\ cl.mints = <<>>
        /\ client' = [client EXCEPT ![c].phase = "sent"]
        /\ UNCHANGED <<chain, told, commands, others>>

\* whatever happens on the chain excuses the clients that are under way
Excusing(except) ==
    [c \in Clients |-> IF c \in except \/ ~Busy(c) THEN client[c]
                       ELSE [client[c] EXCEPT !.excused = TRUE]]

\* The instruction names the associated token program where it has to name
\* the token program.  A client whose transaction fails unwraps the error.
CreateInstruction(mint) ==
    [op |-> "create_ata", mint |-> mint, token_program |-> "spl_associated_token_account"]

\* it looks at no reserve
LandAta(c) ==
    /\ client[c].phase = "creating"
    /\ LET after == Executed(<< CreateInstruction(Head(client[c].mints)) >>,
                             [fresh |-> {}, payable |-> {}])
       IN  /\ chain' \in IF after = {} THEN {chain} ELSE after
           /\ IF after = {}
              THEN Ends(c, IF client[c].excused THEN "panic" ELSE "panic for no reason")
              ELSE /\ client' = [Excusing({c}) EXCEPT ![c] = [client[c] EXCEPT
                                     !.phase = "accounts", !.mints = Tail(@)]]
                   /\ UNCHANGED told
    /\ UNCHANGED <<commands, others>>

\* redeem-collateral alone depends on the reserve as it is when it lands
Failure(cl, arrival) ==
    IF \/ cl.excused
       \/ cl.command.op = "redeem" /\ cl.command.reserve \notin arrival.fresh \cap arrival.payable
    THEN "failed" ELSE "failed for no reason"

Land(c) ==
    /\ client[c].phase = "sent"
    /\ \E arrival \in Arrivals :
          LET after == Executed(Instructions(client[c]), arrival)
          IN  \/ /\ after # {} /\ chain' \in after
                 /\ client' = [Excusing({c}) EXCEPT ![c] = [phase |-> "idle"]]
                 /\ told' = [told EXCEPT ![c] = "ok"]
              \/ /\ after = {}
                 /\ Ends(c, Failure(client[c], arrival))
                 /\ UNCHANGED chain
    /\ UNCHANGED <<commands, others>>

Expire(c) ==
    /\ client[c].phase \in {"creating", "sent"}
    /\ Ends(c, "expired")
    /\ UNCHANGED <<chain, commands, others>>

-----------------------------------------------------------------------------
(* Others: the owner of the obligation, bots that refresh it, prices, and  *)
(* the owner of the market; the fee payer may make token accounts by other *)
(* means.                                                                  *)

Grown(positions, r) ==
    IF IndexOf(positions, r) = 0
    THEN Result(Len(positions) < MaxPositions, Append(positions, [reserve |-> r, amount |-> 1]))
    ELSE {[positions EXCEPT ![IndexOf(positions, r)].amount = n] :
             n \in {positions[IndexOf(positions, r)].amount + 1} \cap (0..MaxAmount)}

Shrunk(positions, r) ==
    IF IndexOf(positions, r) = 0 \/ positions[IndexOf(positions, r)].amount = 0 THEN {}
    ELSE {Reduced(positions, IndexOf(positions, r), 1)}

OtherOutcomes ==
    {RefreshedPositions(chain), [chain EXCEPT !.unhealthy = ~chain.unhealthy]}
    \cup (UNION {{[chain EXCEPT !.deposits = d] : d \in Grown(chain.deposits, r)} : r \in Reserves})
    \cup (UNION {{[chain EXCEPT !.borrows = b] :
                     b \in Grown(chain.borrows, r) \cup Shrunk(chain.borrows, r)} : r \in Reserves})
    \cup {[chain EXCEPT !.feed[r] = f] : r \in Reserves, f \in Feeds}
    \cup {[chain EXCEPT !.ata = chain.ata \cup {mint}] : mint \in Reserves \X Kinds}

OtherStep ==
    /\ others < MaxOthers /\ others' = others + 1
    /\ chain' \in OtherOutcomes \ {chain}
    /\ client' = Excusing({})
    /\ UNCHANGED <<told, commands>>

ClientStep(c) ==
    \/ \E command \in Commands : ReadObligation(c, command)
    \/ ReadReserves(c) \/ CheckAta(c) \/ Send(c)
    \/ LandAta(c) \/ Land(c) \/ Expire(c)

Next == OtherStep \/ \E c \in Clients : ClientStep(c)

Spec == Init /\ [][Next]_vars

-----------------------------------------------------------------------------
(* Properties.                                                             *)

TypeOK ==
    /\ chain.deposits \in Seq(Position) /\ chain.borrows \in Seq(Position)
    /\ \A s \in {chain.deposits, chain.borrows} :
          \A i, j \in DOMAIN s : s[i].reserve = s[j].reserve => i = j
    /\ chain.feed \in [Reserves -> Feeds] /\ chain.wallet \in [Reserves -> Nat]
    /\ chain.ata \subseteq Reserves \X Kinds /\ chain.unhealthy \in BOOLEAN
    /\ commands \in 0..MaxCommands /\ others \in 0..MaxOthers
    /\ told \in [Clients -> STRING]

(***************************************************************************)
(* A command acts on the obligation it was prepared for: when its          *)
(* transaction takes effect the positions are, one by one, those the       *)
(* client has read, and so are the oracles of their reserves.              *)
(***************************************************************************)
ActsOnWhatWasRead ==
    [][\A c \in Clients :
          /\ client[c].phase = "sent" /\ client'[c].phase = "idle" /\ told'[c] = "ok"
          /\ client[c].command.op # "redeem"
          => /\ client[c].reserves = ReservesOf(chain.deposits) \o ReservesOf(chain.borrows)
             /\ \A r \in Range(client[c].reserves) : client[c].feed[r] = chain.feed[r]]_vars

(***************************************************************************)
(* A command that can be served is served unless somebody interferes: the  *)
(* client finds the reserves and the token accounts it looks for, and the  *)
(* instructions it puts together (repeated reserves included) are accepted *)
(* one after the other.  redeem-collateral, which refreshes nothing, is    *)
(* held to this when it finds the reserve fresh and able to pay.           *)
(***************************************************************************)
NeverRefusedUndisturbed ==
    \A c \in Clients : told[c] \notin {"failed for no reason", "panic for no reason"}
=============================================================================
