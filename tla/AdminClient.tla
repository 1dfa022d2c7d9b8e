---------------------------- MODULE AdminClient ----------------------------
(***************************************************************************)
(* The commands update-reserve and set-lending-market-owner-and-config of  *)
(* the command line client, run by several administrators at once.  Both   *)
(* read an account, put the options of the command over what they read,    *)
(* and send the WHOLE result to the program: between the read and the      *)
(* moment the transaction lands, transactions of others may land.          *)
(*                                                                         *)
(* An account is a function from the names of its settings to their        *)
(* values; the options of a command are such a function on the settings    *)
(* the command names.                                                      *)
(***************************************************************************)
EXTENDS Reserve

CONSTANTS
    Clients,       \* processes of the command line client
    Keys,          \* addresses
    Signers,       \* those whose keypairs the clients are given
    NULL_PUBKEY,
    SolendOwner,   \* solend_market_owner::id()
    Unit,          \* 10^mint_decimals
    Reserve0,      \* the reserve account at first
    Market0,       \* the lending market account at first
    ReserveOptions,\* what update-reserve may be given
    MarketOptions, \* what set-lending-market-owner-and-config may be given
    MaxCommands    \* commands run by a client

LimitFields == {"deposit_limit", "borrow_limit"}

OracleFields == {"pyth", "switchboard"}

LimiterFields == {"window_duration", "max_outflow"}

\* what permissionless markets may not edit
ProtocolFields == {"borrow_fee_wad", "flash_loan_fee_wad", "host_fee_percentage",
                   "protocol_liquidation_fee", "protocol_take_rate", "fee_receiver"}

ConfigFields == DOMAIN Reserve0 \ (OracleFields \cup LimiterFields \cup {"fee_receiver"})

MarketFields == LimiterFields \cup {"owner", "risk_authority", "whitelisted_liquidator"}

Fields == [reserve |-> DOMAIN Reserve0, market |-> MarketFields]

ConfigOf(v) == [f \in ConfigFields |-> v[f]]

ASSUME ClientAssumption ==
    /\ ConfigOf(Reserve0) \in ReserveConfig /\ ValidateReserveConfig(ConfigOf(Reserve0))
    /\ OracleFields \cup LimiterFields \cup ProtocolFields \subseteq DOMAIN Reserve0
    /\ DOMAIN Market0 = MarketFields /\ Signers \subseteq Keys
    /\ "pyth_product" \notin DOMAIN Reserve0
    /\ Unit \in Nat \ {0} /\ MaxCommands \in Nat

VARIABLES
    account,   \* the reserve and the lending market on chain
    client,    \* per client: the transaction it waits for, and what it was told
    commands   \* number of commands a client has begun

vars == <<account, client, commands>>

\* told: what the last command ended with; missed: settings that changed
\* after the client read the account
Waiting(target, signer, named, product, tx) ==
    [phase |-> "sent", target |-> target, signer |-> signer, named |-> named,
     product |-> product, tx |-> tx, missed |-> {}]

Ended(told) == [phase |-> "ended", told |-> told]

Init ==
    /\ account = [reserve |-> Reserve0, market |-> Market0]
    /\ client = [c \in Clients |-> Ended("none")]
    /\ commands = [c \in Clients |-> 0]

Given(options, f, default) == IF f \in DOMAIN options THEN options[f] ELSE default

-----------------------------------------------------------------------------
(* update-reserve.                                                         *)

\* clap's default for an option the command was not given
ParsedOptions(options) ==
    [f \in DOMAIN options \cup {"reserve_type"} |-> Given(options, f, "Regular")]

\* spl_token::ui_amount_to_amount; the cast saturates
UiAmountToAmount(n) == MinOf(n * Unit, U64_MAX)

\* mutant: a limit converted although it was read in base units
OverrideConvertsAll(read, options) ==
    [f \in DOMAIN read |-> IF f \in LimitFields THEN UiAmountToAmount(Given(options, f, read[f]))
                           ELSE Given(options, f, read[f])]

\* the chain of comparisons: a setting is put over what was read when it is
\* given and differs from it; a limit is compared before it is converted
Override(read, options) ==
    [f \in DOMAIN read |->
        IF f \notin DOMAIN options \/ options[f] = read[f] THEN read[f]
        ELSE IF f \in LimitFields THEN UiAmountToAmount(options[f]) ELSE options[f]]

NoChange(read, options) ==
    \A f \in DOMAIN options \cap DOMAIN read : f \notin OracleFields /\ options[f] = read[f]

\* how a command that sends nothing ends
Sends(options, new) ==
    /\ "pyth" \in DOMAIN options => "pyth_product" \in DOMAIN options
    /\ ValidateReserveConfig(ConfigOf(new))
    /\ ~NoChange(account.reserve, options)

Refusal(options, new) ==
    IF "pyth" \in DOMAIN options /\ "pyth_product" \notin DOMAIN options THEN "panic"
    ELSE IF ~ValidateReserveConfig(ConfigOf(new)) THEN "invalid" ELSE "no_change"

\* command_update_reserve up to send_transaction; options is what the user
\* typed.  The product account is NULL_PUBKEY unless a Pyth price is given.
UpdateReserve(c, signer, typed, dry_run) ==
    LET options == ParsedOptions(typed)
        new     == Override(account.reserve, options)
    IN  /\ client' = [client EXCEPT ![c] =
              IF ~Sends(options, new) THEN Ended(Refusal(options, new))
              ELSE IF dry_run THEN Ended("simulated")
              ELSE Waiting("reserve", signer, DOMAIN typed,
                           IF "pyth" \in DOMAIN typed THEN typed["pyth_product"]
                           ELSE NULL_PUBKEY,
                           new)]
        /\ UNCHANGED account

-----------------------------------------------------------------------------
(* set-lending-market-owner-and-config.                                    *)

\* the whitelist is what the command says, empty when it says nothing
NewMarket(read, options) ==
    [f \in MarketFields |->
        Given(options, f, IF f = "whitelisted_liquidator" THEN NULL_PUBKEY ELSE read[f])]

\* leaving out the risk authority aborts the client
SetLendingMarketOwnerAndConfig(c, signer, options, dry_run) ==
    /\ client' = [client EXCEPT ![c] =
          IF "risk_authority" \notin DOMAIN options THEN Ended("panic")
          ELSE IF dry_run THEN Ended("simulated")
          ELSE Waiting("market", signer, DOMAIN options, NULL_PUBKEY,
                       NewMarket(account.market, options))]
    /\ UNCHANGED account

Begin(c) ==
    /\ client[c].phase = "ended" /\ commands[c] < MaxCommands
    /\ commands' = [commands EXCEPT ![c] = @ + 1]
    /\ \E signer \in Signers, dry_run \in BOOLEAN :
          \/ \E options \in ReserveOptions : UpdateReserve(c, signer, options, dry_run)
          \/ \E options \in MarketOptions :
                SetLendingMarketOwnerAndConfig(c, signer, options, dry_run)

-----------------------------------------------------------------------------
(* The program: what an instruction leaves of the account, {} for Err.     *)

\* a Pyth price account other than the present one has to come with its
\* product, which is modelled as having the key of its price account
OraclesValid(old, new, product) ==
    /\ new.pyth # old.pyth => new.pyth = NULL_PUBKEY \/ product = new.pyth
    /\ \E f \in OracleFields : new[f] # NULL_PUBKEY

\* the risk authority may stop outflows and lower limits
SaferOnly(old, new) ==
    LET stops == new.window_duration > 0 /\ new.max_outflow = 0
    IN  [f \in DOMAIN old |->
            IF f \in LimitFields THEN MinOf(old[f], new[f])
            ELSE IF f \in LimiterFields /\ stops THEN new[f] ELSE old[f]]

FeesOnly(old, new) == [f \in DOMAIN old |-> IF f \in ProtocolFields THEN new[f] ELSE old[f]]

Acceptable(signer, old, new) ==
    /\ ValidateReserveConfig(ConfigOf(new))
    /\ signer # SolendOwner => \A f \in ProtocolFields : new[f] = old[f]

ProcessUpdateReserveConfig(signer, product, new) ==
    LET old == account.reserve
        m   == account.market
    IN  IF ~Acceptable(signer, old, new) THEN {}
        ELSE IF signer = m.owner THEN Result(OraclesValid(old, new, product), new)
        ELSE IF signer = m.risk_authority THEN {SaferOnly(old, new)}
        ELSE Result(signer = SolendOwner, FeesOnly(old, new))

ProcessSetLendingMarketOwnerAndConfig(signer, new) == Result(signer = account.market.owner, new)

Process(t) ==
    IF t.target = "reserve" THEN ProcessUpdateReserveConfig(t.signer, t.product, t.tx)
    ELSE ProcessSetLendingMarketOwnerAndConfig(t.signer, t.tx)

Changed(target, new) == {f \in Fields[target] : new[f] # account[target][f]}

\* every client that still waits with a transaction on this account has
\* missed the change
Told(c, told, target, changed) ==
    client' = [d \in Clients |->
        IF d = c THEN Ended(told)
        ELSE IF client[d].phase = "sent" /\ client[d].target = target
             THEN [client[d] EXCEPT !.missed = @ \cup changed] ELSE client[d]]

Land(c) ==
    /\ client[c].phase = "sent"
    /\ LET t == client[c]
       IN  \/ \E new \in Process(t) :
                 /\ account' = [account EXCEPT ![t.target] = new]
                 /\ Told(c, "ok", t.target, Changed(t.target, new))
           \/ /\ Process(t) = {}
              /\ Told(c, "failed", t.target, {})
              /\ UNCHANGED account
    /\ UNCHANGED commands

\* the blockhash runs out before a leader takes the transaction
Expire(c) ==
    /\ client[c].phase = "sent"
    /\ Told(c, "expired", client[c].target, {})
    /\ UNCHANGED <<account, commands>>

Next == \E c \in Clients : Begin(c) \/ Land(c) \/ Expire(c)

Spec == Init /\ [][Next]_vars

-----------------------------------------------------------------------------
(* Properties.                                                             *)

IsReserveAccount(v) ==
    /\ DOMAIN v = Fields["reserve"] /\ ConfigOf(v) \in ReserveConfig
    /\ \A f \in LimiterFields : v[f] \in U64
    /\ v.fee_receiver \in Keys /\ \A f \in OracleFields : v[f] \in Keys \cup {NULL_PUBKEY}

IsMarketAccount(v) ==
    /\ DOMAIN v = MarketFields
    /\ \A f \in LimiterFields : v[f] \in U64
    /\ v.owner \in Keys /\ v.risk_authority \in Keys
    /\ v.whitelisted_liquidator \in Keys \cup {NULL_PUBKEY}

IsAccount(target, v) ==
    IF target = "reserve" THEN IsReserveAccount(v) ELSE IsMarketAccount(v)

\* The accounts, and whatever a client is about to write to them, fit the
\* widths they are packed with.
TypeOK ==
    /\ \A target \in {"reserve", "market"} : IsAccount(target, account[target])
    /\ commands \in [Clients -> 0..MaxCommands]
    /\ \A c \in Clients :
          \/ client[c].phase = "ended"
          \/ /\ client[c].phase = "sent" /\ client[c].target \in {"reserve", "market"}
             /\ client[c].signer \in Keys /\ IsAccount(client[c].target, client[c].tx)
             /\ client[c].missed \subseteq Fields[client[c].target]

\* c's transaction lands in this step and takes effect
Applied(c) == client[c].phase = "sent" /\ client'[c].phase = "ended" /\ client'[c].told = "ok"

ChangedFields(target) == {f \in Fields[target] : account'[target][f] # account[target][f]}

\* the settings a command resets when its user leaves them out
Defaults == [reserve_type |-> "Regular", whitelisted_liquidator |-> NULL_PUBKEY]

(***************************************************************************)
(* An administrator's command changes the settings its user named.  Any    *)
(* other setting it can change only back to what it was when the client    *)
(* read the account: settings nobody touched in between are safe, although *)
(* the transaction writes all of them.  There are two exceptions, and they *)
(* go one way: update-reserve without --reserve-type makes the reserve     *)
(* Regular, and set-lending-market-owner-and-config without                *)
(* --whitelisted-liquidator lets everybody liquidate.                      *)
(***************************************************************************)
OnlyNamedOrMissed ==
    [][\A c \in Clients : Applied(c) =>
          \A f \in ChangedFields(client[c].target) \ (client[c].named \cup client[c].missed) :
              f \in DOMAIN Defaults /\ account'[client[c].target][f] = Defaults[f]]_vars

(***************************************************************************)
(* The fees and the fee receiver are the protocol's.  An owner's update    *)
(* written over an older read of them fails; it never takes back what      *)
(* solend_market_owner has set meanwhile.                                  *)
(***************************************************************************)
FeesSetBySolendOnly ==
    [][\A c \in Clients : Applied(c) /\ client[c].signer # SolendOwner =>
          ChangedFields("reserve") \cap ProtocolFields = {}]_vars

(***************************************************************************)
(* A Pyth feed is not brought back by an update that was prepared before   *)
(* it was replaced: without the product account the program refuses it.    *)
(* (A Switchboard feed, which has no such account, is.)                    *)
(***************************************************************************)
PythFeedNotReverted ==
    [][account'.reserve.pyth \notin {account.reserve.pyth, NULL_PUBKEY} =>
          \E c \in Clients : Applied(c) /\ "pyth" \in client[c].named]_vars

(***************************************************************************)
(* What an administrator's update can do to the work of others is bounded  *)
(* in these three ways.                                                    *)
(***************************************************************************)
UpdatesContained == OnlyNamedOrMissed /\ FeesSetBySolendOnly /\ PythFeedNotReverted
=============================================================================
