------------------------- MODULE CommandLineProofs -------------------------
(***************************************************************************)
(* Proofs about the commands of the command line client: the updates of    *)
(* administrators, for any number of clients, any options, and any         *)
(* interleaving of their reads and transactions; add-reserve, for every    *)
(* rent, fee and balance, any number of runs and of steps of others, and   *)
(* every way a run can end; and the commands on an obligation, for any     *)
(* positions, any number of clients and whatever others do.                *)
(***************************************************************************)
EXTENDS CommandLine, ReserveProofs, Sequences, TLAPS

-----------------------------------------------------------------------------
(* Updates.                                                                *)

Targets == {"reserve", "market"}

\* what a client that waits may change to anything
Open(w) == w.named \cup w.missed

\* what a command sets f to that its user has left out
Reset(f, value) == f \in DOMAIN Defaults /\ value = Defaults[f]

(***************************************************************************)
(* A transaction that is under way writes every setting of its account,    *)
(* but those that its command did not name, and nobody has changed since   *)
(* the read, it writes as they are, or as the command resets them.         *)
(* Without naming a Pyth feed it comes with no product account.            *)
(***************************************************************************)
Prepared(w) ==
    /\ w.target \in Targets /\ "missed" \in DOMAIN w
    /\ DOMAIN w.tx = Fields[w.target]
    /\ \A f \in Fields[w.target] \ Open(w) :
          w.tx[f] = account[w.target][f] \/ Reset(f, w.tx[f])
    /\ w.target = "reserve" /\ "pyth" \notin w.named => w.product = NULL_PUBKEY

ClientInv ==
    /\ account = [t \in Targets |-> account[t]]
    /\ \A t \in Targets : DOMAIN account[t] = Fields[t]
    /\ client = [c \in Clients |-> client[c]]
    /\ \A c \in Clients : client[c].phase = "ended" \/ (client[c].phase = "sent" /\ Prepared(client[c]))

\* The settings of the two accounts.
LEMMA FieldsAre ==
    /\ Fields["reserve"] = DOMAIN Reserve0 /\ Fields["market"] = MarketFields
    /\ "reserve" \in Targets /\ "market" \in Targets /\ "reserve" # "market"
    /\ \A t \in Targets : t = "reserve" \/ t = "market"
    BY DEF Fields, Targets

\* At first no client waits.
LEMMA InitClientInv == Init => ClientInv
<1> SUFFICES ASSUME Init PROVE ClientInv
    OBVIOUS
<1>1. account = [reserve |-> Reserve0, market |-> Market0]
    BY DEF Init
<1>2. account = [t \in Targets |-> account[t]]
    BY <1>1 DEF Targets
<1>3. DOMAIN account["reserve"] = Fields["reserve"] /\ DOMAIN account["market"] = Fields["market"]
    BY <1>1, ClientAssumption, FieldsAre
<1>4. client = [c \in Clients |-> client[c]] /\ \A c \in Clients : client[c].phase = "ended"
    BY DEF Init, Ended
<1> QED BY <1>2, <1>3, <1>4, FieldsAre DEF ClientInv

\* What the command update-reserve sends.
LEMMA OverrideKeeps ==
    ASSUME NEW read, NEW typed, NEW options, options = ParsedOptions(typed), NEW new,
           new = Override(read, options)
    PROVE  /\ DOMAIN new = DOMAIN read
           /\ \A f \in DOMAIN read \ DOMAIN typed : new[f] = read[f] \/ Reset(f, new[f])
<1>1. DOMAIN options = DOMAIN typed \cup {"reserve_type"}
    BY DEF ParsedOptions
<1>2. DOMAIN new = DOMAIN read
    BY DEF Override
<1>3. ASSUME NEW f \in DOMAIN read \ DOMAIN typed, f # "reserve_type"
      PROVE  new[f] = read[f]
    BY <1>1, <1>3 DEF Override
<1>4. ASSUME "reserve_type" \in DOMAIN read \ DOMAIN typed
      PROVE  new["reserve_type"] = "Regular"
    <2>1. options["reserve_type"] = "Regular"
        BY <1>4 DEF ParsedOptions, Given
    <2>2. "reserve_type" \in DOMAIN options /\ "reserve_type" \notin LimitFields
        BY <1>1 DEF LimitFields
    <2> QED BY <1>4, <2>1, <2>2 DEF Override
<1>5. "reserve_type" \in DOMAIN Defaults /\ Defaults["reserve_type"] = "Regular"
    BY DEF Defaults
<1> QED BY <1>2, <1>3, <1>4, <1>5 DEF Reset

\* Beginning a command puts nothing on chain, and prepares at most one transaction.
LEMMA BeginKeeps ==
    ASSUME ClientInv, NEW c \in Clients, Begin(c)
    PROVE  /\ ClientInv' /\ account' = account /\ client[c].phase = "ended"
           /\ \A d \in Clients \ {c} : client'[d] = client[d]
<1>1. account' = account /\ client[c].phase = "ended"
    BY DEF Begin, UpdateReserve, SetLendingMarketOwnerAndConfig
<1>2. PICK w : /\ client' = [client EXCEPT ![c] = w]
               /\ w.phase = "ended" \/ (w.phase = "sent" /\ Prepared(w))
    <2>1. ASSUME NEW signer, NEW typed, NEW dry_run, UpdateReserve(c, signer, typed, dry_run)
          PROVE  \E w : /\ client' = [client EXCEPT ![c] = w]
                        /\ w.phase = "ended" \/ (w.phase = "sent" /\ Prepared(w))
        <3>1. PICK options, new : /\ options = ParsedOptions(typed)
                                  /\ new = Override(account.reserve, options)
            OBVIOUS
        <3>2. PICK product : product = IF "pyth" \in DOMAIN typed THEN typed["pyth_product"]
                                       ELSE NULL_PUBKEY
            OBVIOUS
        <3>3. PICK w : w = Waiting("reserve", signer, DOMAIN typed, product, new)
            OBVIOUS
        <3>4. /\ w.target = "reserve" /\ w.phase = "sent" /\ w.named = DOMAIN typed /\ w.missed = {}
              /\ w.tx = new /\ w.product = product /\ "missed" \in DOMAIN w
            BY <3>3 DEF Waiting
        <3>5. /\ DOMAIN new = DOMAIN account.reserve
              /\ \A f \in DOMAIN account.reserve \ DOMAIN typed :
                    new[f] = account.reserve[f] \/ Reset(f, new[f])
            BY <3>1, OverrideKeeps
        <3>6. DOMAIN account.reserve = Fields["reserve"]
            BY FieldsAre DEF ClientInv
        <3>7. Prepared(w)
            BY <3>2, <3>4, <3>5, <3>6, FieldsAre DEF Prepared, Open
        <3>8. \E answer : client' = [client EXCEPT ![c] = w] \/ client' = [client EXCEPT ![c] = Ended(answer)]
            BY <2>1, <3>1, <3>2, <3>3 DEF UpdateReserve
        <3>9. \A answer : Ended(answer).phase = "ended"
            BY DEF Ended
        <3> QED BY <3>4, <3>7, <3>8, <3>9
    <2>2. ASSUME NEW signer, NEW options, NEW dry_run,
                 SetLendingMarketOwnerAndConfig(c, signer, options, dry_run)
          PROVE  \E w : /\ client' = [client EXCEPT ![c] = w]
                        /\ w.phase = "ended" \/ (w.phase = "sent" /\ Prepared(w))
        <3>1. PICK named, new : /\ named = DOMAIN options
                                /\ new = NewMarket(account.market, options)
            OBVIOUS
        <3>2. PICK w : w = Waiting("market", signer, named, NULL_PUBKEY, new)
            OBVIOUS
        <3>3. /\ w.target = "market" /\ w.phase = "sent" /\ w.named = named /\ w.missed = {}
              /\ w.tx = new /\ "missed" \in DOMAIN w
            BY <3>2 DEF Waiting
        <3>4. /\ DOMAIN new = MarketFields
              /\ \A f \in MarketFields \ named : new[f] = account.market[f] \/ Reset(f, new[f])
            <4>1. DOMAIN new = MarketFields
                BY <3>1 DEF NewMarket
            <4>2. \A f \in MarketFields \ named :
                     new[f] = IF f = "whitelisted_liquidator" THEN NULL_PUBKEY ELSE account.market[f]
                BY <3>1 DEF NewMarket, Given
            <4>3. /\ "whitelisted_liquidator" \in DOMAIN Defaults
                  /\ Defaults["whitelisted_liquidator"] = NULL_PUBKEY
                BY DEF Defaults
            <4> QED BY <4>1, <4>2, <4>3 DEF Reset
        <3>5. Prepared(w)
            BY <3>3, <3>4, FieldsAre DEF Prepared, Open
        <3>6. \E answer : client' = [client EXCEPT ![c] = w] \/ client' = [client EXCEPT ![c] = Ended(answer)]
            BY <2>2, <3>1, <3>2 DEF SetLendingMarketOwnerAndConfig
        <3>7. \A answer : Ended(answer).phase = "ended"
            BY DEF Ended
        <3> QED BY <3>3, <3>5, <3>6, <3>7
    <2> QED BY <2>1, <2>2 DEF Begin
<1>3. client'[c] = w /\ \A d \in Clients \ {c} : client'[d] = client[d]
    BY <1>2 DEF ClientInv
<1>4. client' = [d \in Clients |-> client'[d]]
    BY <1>2 DEF ClientInv
<1>5. \A v : Prepared(v) => Prepared(v)'
    BY <1>1 DEF Prepared, Open
<1>6. \A d \in Clients : \/ client'[d].phase = "ended"
                         \/ client'[d].phase = "sent" /\ Prepared(client[d])'
    BY <1>2, <1>3, <1>5 DEF ClientInv
<1> QED BY <1>1, <1>3, <1>4, <1>6 DEF ClientInv

\* an account the program may leave, when c's transaction is t
Leaves(t, new) == new \in Process(t)

(***************************************************************************)
(* What the program makes of a transaction: an account with the same       *)
(* settings, none of them changed but those the client may change, no fee  *)
(* without solend_market_owner, no new Pyth feed without its name.         *)
(***************************************************************************)
LEMMA ProcessBounded ==
    ASSUME ClientInv, NEW t, Prepared(t), NEW new, Leaves(t, new)
    PROVE  /\ DOMAIN new = Fields[t.target]
           /\ \A f \in Fields[t.target] \ Open(t) :
                 new[f] = account[t.target][f] \/ Reset(f, new[f])
           /\ t.target = "reserve" /\ t.signer # SolendOwner =>
                 \A f \in ProtocolFields : new[f] = account["reserve"][f]
           /\ t.target = "reserve" /\ "pyth" \notin t.named =>
                 new["pyth"] \in {account["reserve"]["pyth"], NULL_PUBKEY}
<1>1. CASE t.target = "market"
    <2>1. new = t.tx
        BY <1>1, FieldsAre DEF Leaves, Process, ProcessSetLendingMarketOwnerAndConfig, Result
    <2> QED BY <1>1, <2>1, FieldsAre DEF Prepared
<1>2. CASE t.target = "reserve"
    <2>1. PICK old, tx : old = account.reserve /\ tx = t.tx
        OBVIOUS
    <2>2. /\ DOMAIN old = Fields["reserve"] /\ DOMAIN tx = Fields["reserve"]
          /\ \A f \in Fields["reserve"] \ Open(t) : tx[f] = old[f] \/ Reset(f, tx[f])
          /\ "pyth" \notin t.named => t.product = NULL_PUBKEY
          /\ ProtocolFields \cup OracleFields \subseteq Fields["reserve"]
        BY <1>2, <2>1, FieldsAre, ClientAssumption DEF Prepared, ClientInv
    <2>3. new \in ProcessUpdateReserveConfig(t.signer, t.product, tx)
        BY <1>2, <2>1 DEF Leaves, Process
    <2>4. t.signer # SolendOwner => \A f \in ProtocolFields : tx[f] = old[f]
        BY <2>1, <2>3 DEF ProcessUpdateReserveConfig, Acceptable
    <2>5. \/ new = tx /\ OraclesValid(old, tx, t.product)
          \/ new = SaferOnly(old, tx)
          \/ new = FeesOnly(old, tx) /\ t.signer = SolendOwner
        BY <2>1, <2>3 DEF ProcessUpdateReserveConfig, Result
    <2>6. CASE new = tx /\ OraclesValid(old, tx, t.product)
        <3>1. "pyth" \notin t.named => tx["pyth"] \in {old["pyth"], NULL_PUBKEY}
            BY <2>2, <2>6 DEF OraclesValid
        <3> QED BY <1>2, <2>1, <2>2, <2>4, <2>6, <3>1
    <2>7. CASE new = SaferOnly(old, tx)
        <3>1. DOMAIN new = DOMAIN old
            BY <2>7 DEF SaferOnly
        <3>2. \A f \in DOMAIN old : new[f] = old[f] \/ new[f] = tx[f]
            BY <2>7 DEF SaferOnly, MinOf
        <3>3. \A f \in ProtocolFields \cup {"pyth"} : new[f] = old[f]
            <4>1. \A f \in ProtocolFields \cup {"pyth"} :
                     f \notin LimitFields /\ f \notin LimiterFields /\ f \in DOMAIN old
                BY <2>2 DEF ProtocolFields, LimitFields, LimiterFields, OracleFields
            <4> QED BY <2>7, <4>1 DEF SaferOnly
        <3> QED BY <1>2, <2>1, <2>2, <3>1, <3>2, <3>3
    <2>8. CASE new = FeesOnly(old, tx) /\ t.signer = SolendOwner
        <3>1. DOMAIN new = DOMAIN old
            BY <2>8 DEF FeesOnly
        <3>2. \A f \in DOMAIN old : new[f] = old[f] \/ new[f] = tx[f]
            BY <2>8 DEF FeesOnly
        <3>3. new["pyth"] = old["pyth"]
            <4>1. "pyth" \notin ProtocolFields /\ "pyth" \in DOMAIN old
                BY <2>2 DEF ProtocolFields, OracleFields
            <4> QED BY <2>8, <4>1 DEF FeesOnly
        <3> QED BY <1>2, <2>1, <2>2, <2>8, <3>1, <3>2, <3>3
    <2> QED BY <2>5, <2>6, <2>7, <2>8
<1> QED BY <1>1, <1>2, FieldsAre DEF Prepared

\* the accounts change in these settings of target, if at all
ChangesOnly(target, changed) ==
    /\ account' = [t \in Targets |-> account'[t]]
    /\ \A t \in Targets : DOMAIN account'[t] = Fields[t]
    /\ \A t \in Targets : \A f \in Fields[t] :
          account'[t][f] # account[t][f] => t = target /\ f \in changed

\* Whoever still waits has the settings another transaction changed among those it missed.
LEMMA ToldKeeps ==
    ASSUME ClientInv, NEW c \in Clients, NEW answer, NEW target \in Targets, NEW changed,
           Told(c, answer, target, changed), ChangesOnly(target, changed)
    PROVE  /\ ClientInv' /\ client'[c] = Ended(answer)
           /\ \A d \in Clients \ {c} : client[d].phase = "sent" => client'[d].phase = "sent"
<1>1. /\ client' = [d \in Clients |-> client'[d]] /\ client'[c] = Ended(answer)
      /\ \A d \in Clients \ {c} :
            client'[d] = IF client[d].phase = "sent" /\ client[d].target = target
                         THEN [client[d] EXCEPT !.missed = @ \cup changed] ELSE client[d]
    BY DEF Told
<1>2. Ended(answer).phase = "ended"
    BY DEF Ended
<1>3. ASSUME NEW d \in Clients \ {c}, client[d].phase = "sent"
      PROVE  client'[d].phase = "sent" /\ Prepared(client[d])'
    <2>1. PICK w, v : w = client[d] /\ v = client'[d]
        OBVIOUS
    <2>2. Prepared(w) /\ w.phase = "sent"
        BY <1>3, <2>1 DEF ClientInv
    <2>3. /\ v.phase = "sent" /\ v.target = w.target /\ v.tx = w.tx /\ v.named = w.named
          /\ v.product = w.product /\ "missed" \in DOMAIN v
          /\ v.missed = IF w.target = target THEN w.missed \cup changed ELSE w.missed
        <3>1. "missed" \in DOMAIN w
            BY <2>2 DEF Prepared
        <3>2. v = IF w.target = target THEN [w EXCEPT !.missed = @ \cup changed] ELSE w
            BY <1>1, <2>1, <2>2
        <3>3. CASE w.target = target
            BY <2>2, <3>1, <3>2, <3>3
        <3>4. CASE w.target # target
            BY <2>2, <3>1, <3>2, <3>4
        <3> QED BY <3>3, <3>4
    <2>4. /\ w.target \in Targets /\ DOMAIN w.tx = Fields[w.target]
          /\ \A f \in Fields[w.target] \ Open(w) :
                w.tx[f] = account[w.target][f] \/ Reset(f, w.tx[f])
          /\ w.target = "reserve" /\ "pyth" \notin w.named => w.product = NULL_PUBKEY
        BY <2>2 DEF Prepared
    <2>5. ASSUME NEW f \in Fields[w.target] \ Open(v)
          PROVE  w.tx[f] = account'[w.target][f] \/ Reset(f, w.tx[f])
        <3>1. f \notin Open(w)
            BY <2>3 DEF Open
        <3>2. account'[w.target][f] = account[w.target][f]
            BY <2>3, <2>4, <2>5 DEF Open, ChangesOnly
        <3> QED BY <2>4, <2>5, <3>1, <3>2
    <2>6. Prepared(client[d])'
        BY <2>1, <2>3, <2>4, <2>5 DEF Prepared, Open
    <2> QED BY <2>1, <2>3, <2>6
<1>4. ASSUME NEW d \in Clients
      PROVE  client'[d].phase = "ended" \/ (client'[d].phase = "sent" /\ Prepared(client[d])')
    <2>1. CASE d = c
        BY <1>1, <1>2, <2>1
    <2>2. CASE d # c /\ client[d].phase = "sent"
        BY <1>3, <2>2
    <2>3. CASE d # c /\ client[d].phase # "sent"
        BY <1>1, <2>3 DEF ClientInv
    <2> QED BY <2>1, <2>2, <2>3
<1> QED BY <1>1, <1>3, <1>4 DEF ClientInv, ChangesOnly

\* what a step of c that takes effect may do
Bounded(c) ==
    /\ \A f \in ChangedFields(client[c].target) \ Open(client[c]) :
          Reset(f, account'[client[c].target][f])
    /\ client[c].signer # SolendOwner => ChangedFields("reserve") \cap ProtocolFields = {}
    /\ "pyth" \notin client[c].named =>
          account'.reserve.pyth \in {account.reserve.pyth, NULL_PUBKEY}

\* A transaction lands, with that effect or with none.
LEMMA LandKeeps ==
    ASSUME ClientInv, NEW c \in Clients, Land(c)
    PROVE  /\ ClientInv'
           /\ \A d \in Clients \ {c} : client[d].phase = "sent" => client'[d].phase = "sent"
           /\ \/ Bounded(c) /\ Applied(c)
              \/ account' = account /\ ~Applied(c)
<1>1. PICK t : t = client[c] /\ t.phase = "sent" /\ Prepared(t) /\ t.target \in Targets
    BY DEF Land, ClientInv, Prepared
<1>2. CASE \E new \in Process(t) :
              /\ account' = [account EXCEPT ![t.target] = new]
              /\ Told(c, "ok", t.target, Changed(t.target, new))
    <2>1. PICK new : /\ Leaves(t, new) /\ account' = [account EXCEPT ![t.target] = new]
                     /\ Told(c, "ok", t.target, Changed(t.target, new))
        BY <1>2 DEF Leaves
    <2>2. /\ DOMAIN new = Fields[t.target]
          /\ \A f \in Fields[t.target] \ Open(t) :
                new[f] = account[t.target][f] \/ Reset(f, new[f])
          /\ t.target = "reserve" /\ t.signer # SolendOwner =>
                \A f \in ProtocolFields : new[f] = account["reserve"][f]
          /\ t.target = "reserve" /\ "pyth" \notin t.named =>
                new["pyth"] \in {account["reserve"]["pyth"], NULL_PUBKEY}
        BY <1>1, <2>1, ProcessBounded
    <2>3. /\ account' = [u \in Targets |-> account'[u]] /\ account'[t.target] = new
          /\ \A u \in Targets \ {t.target} : account'[u] = account[u]
        BY <1>1, <2>1 DEF ClientInv
    <2>4. \A u \in Targets : DOMAIN account'[u] = Fields[u]
        BY <1>1, <2>2, <2>3 DEF ClientInv
    <2>5. \A u \in Targets : \A f \in Fields[u] :
             account'[u][f] # account[u][f] => u = t.target /\ f \in Changed(t.target, new)
        BY <2>3 DEF Changed
    <2>6. /\ ClientInv' /\ client'[c] = Ended("ok")
          /\ \A d \in Clients \ {c} : client[d].phase = "sent" => client'[d].phase = "sent"
        <3>1. PICK changed : changed = Changed(t.target, new)
            OBVIOUS
        <3>2. ChangesOnly(t.target, changed)
            BY <2>3, <2>4, <2>5, <3>1 DEF ChangesOnly
        <3> QED BY <1>1, <2>1, <3>1, <3>2, ToldKeeps
    <2>7. Applied(c)
        BY <1>1, <2>6 DEF Applied, Ended
    <2>8. Bounded(c)
        <3>1. \A f \in ChangedFields(t.target) \ Open(t) : Reset(f, account'[t.target][f])
            BY <2>2, <2>3 DEF ChangedFields
        <3>2. t.signer # SolendOwner => ChangedFields("reserve") \cap ProtocolFields = {}
            BY <1>1, <2>2, <2>3, FieldsAre DEF ChangedFields
        <3>3. "pyth" \notin t.named =>
                 account'["reserve"]["pyth"] \in {account["reserve"]["pyth"], NULL_PUBKEY}
            BY <1>1, <2>2, <2>3, FieldsAre
        <3> QED BY <1>1, <3>1, <3>2, <3>3 DEF Bounded
    <2> QED BY <2>6, <2>7, <2>8
<1>3. CASE account' = account /\ Told(c, "failed", t.target, {})
    <2>1. /\ ClientInv' /\ client'[c] = Ended("failed")
          /\ \A d \in Clients \ {c} : client[d].phase = "sent" => client'[d].phase = "sent"
        BY <1>1, <1>3, ToldKeeps DEF ClientInv, ChangesOnly
    <2>2. ~Applied(c)
        BY <2>1 DEF Applied, Ended
    <2> QED BY <1>3, <2>1, <2>2
<1> QED BY <1>1, <1>2, <1>3 DEF Land

\* A transaction that expires has no effect.
LEMMA ExpireKeeps ==
    ASSUME ClientInv, NEW c \in Clients, Expire(c)
    PROVE  /\ ClientInv' /\ account' = account /\ ~Applied(c)
           /\ \A d \in Clients \ {c} : client[d].phase = "sent" => client'[d].phase = "sent"
<1>1. /\ account' = account /\ client[c].target \in Targets
      /\ Told(c, "expired", client[c].target, {})
    BY DEF Expire, ClientInv, Prepared
<1>2. /\ ClientInv' /\ client'[c] = Ended("expired")
      /\ \A d \in Clients \ {c} : client[d].phase = "sent" => client'[d].phase = "sent"
    BY <1>1, ToldKeeps DEF ClientInv, ChangesOnly
<1>3. ~Applied(c)
    BY <1>2 DEF Applied, Ended
<1> QED BY <1>1, <1>2, <1>3

\* Every step keeps the invariant, and changes an account only within the bounds.
LEMMA NextContained ==
    ASSUME ClientInv, Next
    PROVE  /\ ClientInv'
           /\ \A c \in Clients : Applied(c) => Bounded(c)
           /\ account' # account => \E c \in Clients : Applied(c) /\ Bounded(c)
<1>1. PICK c \in Clients : Begin(c) \/ Land(c) \/ Expire(c)
    BY DEF Next
<1>2. CASE Begin(c)
    <2>1. \A d \in Clients : ~Applied(d)
        BY <1>2, BeginKeeps DEF Applied
    <2> QED BY <1>2, <2>1, BeginKeeps
<1>3. CASE Land(c)
    <2>1. \A d \in Clients \ {c} : ~Applied(d)
        BY <1>3, LandKeeps DEF Applied
    <2> QED BY <1>3, <2>1, LandKeeps
<1>4. CASE Expire(c)
    <2>1. \A d \in Clients : ~Applied(d)
        BY <1>4, ExpireKeeps DEF Applied
    <2> QED BY <1>4, <2>1, ExpireKeeps
<1> QED BY <1>1, <1>2, <1>3, <1>4

\* It holds of the administrators by themselves.
LEMMA SettingsContained == Spec => UpdatesContained
<1>1. ClientInv /\ [Next]_vars => ClientInv'
    <2>1. CASE UNCHANGED vars
        BY <2>1 DEF vars, ClientInv, Prepared, Open
    <2> QED BY <2>1, NextContained
<1>2. ClientInv /\ [Next]_vars
         => [\A c \in Clients : Applied(c) =>
               \A f \in ChangedFields(client[c].target) \ (client[c].named \cup client[c].missed) :
                   f \in DOMAIN Defaults /\ account'[client[c].target][f] = Defaults[f]]_vars
    BY NextContained DEF Bounded, Open, Reset
<1>3. ClientInv /\ [Next]_vars
         => [\A c \in Clients : Applied(c) /\ client[c].signer # SolendOwner =>
               ChangedFields("reserve") \cap ProtocolFields = {}]_vars
    BY NextContained DEF Bounded
<1>4. ClientInv /\ [Next]_vars
         => [account'.reserve.pyth \notin {account.reserve.pyth, NULL_PUBKEY} =>
               \E c \in Clients : Applied(c) /\ "pyth" \in client[c].named]_vars
    BY NextContained DEF Bounded
<1> QED BY <1>1, <1>2, <1>3, <1>4, InitClientInv, PTL
        DEF Spec, UpdatesContained, OnlyNamedOrMissed, FeesSetBySolendOnly, PythFeedNotReverted

(***************************************************************************)
(* UpdatesContained holds of every behaviour: update-reserve and           *)
(* set-lending-market-owner-and-config write a whole account over a read   *)
(* that may be old, and still an update changes only settings its user     *)
(* named, or takes back settings changed since the read, or resets the     *)
(* reserve type to Regular or the whitelisted liquidator to none when they *)
(* are left out; never the protocol's fees, and never to a Pyth feed that  *)
(* was replaced.                                                           *)
(***************************************************************************)
THEOREM UpdatesAreContained == CommandLineSpec => UpdatesContained
<1>1. CommandLineInit => Init
    BY DEF CommandLineInit
<1>2. [CommandLineNext]_commandLineVars => [Next]_vars
    BY DEF CommandLineNext, SettingsStep, AddReserveStep, ObligationStep, commandLineVars
<1>3. CommandLineSpec => Spec
    BY <1>1, <1>2, PTL DEF CommandLineSpec, Spec
<1> QED BY <1>3, SettingsContained, PTL

-----------------------------------------------------------------------------
(* Adding a reserve.                                                       *)

First == {"reserve", "collateral_mint", "collateral_supply", "user_collateral"}
Second == {"liquidity_supply", "liquidity_fee_receiver"}

\* what the messages create
Creates(m) == IF m = 1 THEN First ELSE IF m = 2 THEN Second ELSE {}

\* what the messages before m have created
Before(m) == IF m = 1 THEN {} ELSE IF m = 2 THEN First ELSE First \cup Second

FirstRent ==
    Rent["reserve"] + Rent["collateral_mint"] + Rent["collateral_supply"] + Rent["user_collateral"]
SecondRent == Rent["liquidity_supply"] + Rent["liquidity_fee_receiver"]

\* what message m and the ones after it will cost
Needed(m) ==
    IF m = 1 THEN Setup!RequiredBalance ELSE IF m = 2 THEN SecondRent + 2 * Fee ELSE Fee

Chain ==
    [lamports : Nat, exists : SUBSET (Setup!Runs \X Setup!Accounts), initialized : SUBSET Setup!Runs,
     source : Nat, supply : [Setup!Runs -> Nat], delegate : [run : Nat, amount : Nat],
     ready : BOOLEAN]

Typed ==
    /\ accounts \in Chain
    /\ inflight \subseteq Setup!Runs \X (1..3)
    /\ running \in [run : 0..MaxRuns, message : 0..3, excused : BOOLEAN]
    /\ told = [n \in Setup!Runs |-> told[n]]

\* Nothing of a run that has not begun is on chain.
Unused(n) == n \notin accounts.initialized /\ \A a \in Setup!Accounts : <<n, a>> \notin accounts.exists

\* A message under way is the one the client waits for, or of a run whose
\* client was interrupted.
Awaited(n, m) ==
    /\ n <= running.run
    /\ IF Setup!Busy /\ n = running.run THEN m = running.message ELSE told[n] = "interrupted"

\* A run that nothing has disturbed: the message it waits for will succeed.
OnCourse ==
    LET n == running.run
    IN  /\ inflight = {<<n, running.message>>}
        /\ accounts.ready /\ Amount > 0 /\ accounts.source >= Amount
        /\ accounts.lamports >= Needed(running.message)
        /\ \A a \in Before(running.message) : <<n, a>> \in accounts.exists
        /\ \A a \in Setup!Accounts \ Before(running.message) : <<n, a>> \notin accounts.exists

NothingAhead == \A n \in Setup!Runs : running.run < n => Unused(n)

AllAwaited == \A n \in Setup!Runs, m \in 1..3 : <<n, m>> \in inflight => Awaited(n, m)

RunOpen == Setup!Busy => running.run \in Setup!Runs /\ running.run \notin accounts.initialized

UndisturbedOnCourse == Setup!Busy /\ ~running.excused => OnCourse

(***************************************************************************)
(* RetryIsSafe with what makes it inductive.                               *)
(***************************************************************************)
SetupInv ==
    /\ Typed
    /\ NothingAhead /\ AllAwaited /\ RunOpen /\ UndisturbedOnCourse
    /\ Setup!RetryIsSafe

-----------------------------------------------------------------------------
(* Transactions.                                                           *)

\* Rents and the rest are natural numbers.
LEMMA Numbers ==
    ASSUME Setup!SetupAssumption
    PROVE  /\ Setup!Accounts = First \cup Second
           /\ \A a \in First \cup Second : Rent[a] \in Nat
           /\ MaxRuns \in Nat /\ Fee \in Nat /\ Lamports \in Nat /\ Spent \in Nat
           /\ SourceTokens \in Nat /\ Amount \in Nat
    BY DEF Setup!SetupAssumption, First, Second

\* the fee c and the rents paid, and the accounts S created, or nothing
Paid(w, n, S, c) ==
    Setup!Result(c <= w.lamports /\ \A a \in S : <<n, a>> \notin w.exists,
           [w EXCEPT !.lamports = w.lamports - c, !.exists = w.exists \cup {<<n, a>> : a \in S}])

\* instruction i of run n on each state of S
Each(S, n, i) == UNION {Setup!Instruct(v, n, i) : v \in S}

\* g is the loop over the instructions: what is left after each number of them
Passes(w, n, m, g) ==
    g = [k \in 0..Len(Setup!Message(m)) |->
            IF k = 0 THEN Setup!Result(Fee <= w.lamports, [w EXCEPT !.lamports = @ - Fee])
            ELSE UNION {Setup!Instruct(v, n, Setup!Message(m)[k]) : v \in g[k - 1]}]

\* A transaction runs its instructions one after the other.
LEMMA ExecutedPasses ==
    ASSUME NEW w, NEW n, NEW m, NEW L \in {2, 3, 4}, L = Len(Setup!Message(m))
    PROVE  \E g : /\ g[0] = Setup!Result(Fee <= w.lamports, [w EXCEPT !.lamports = @ - Fee])
                  /\ g[1] = Each(g[0], n, Setup!Message(m)[1]) /\ g[2] = Each(g[1], n, Setup!Message(m)[2])
                  /\ L >= 3 => g[3] = Each(g[2], n, Setup!Message(m)[3])
                  /\ L >= 4 => g[4] = Each(g[3], n, Setup!Message(m)[4])
                  /\ Setup!Executed(w, n, m) = g[L]
<1>1. PICK a0 : a0 = Setup!Result(Fee <= w.lamports, [w EXCEPT !.lamports = @ - Fee])
    OBVIOUS
<1>2. PICK a1 : a1 = UNION {Setup!Instruct(v, n, Setup!Message(m)[1]) : v \in a0}
    OBVIOUS
<1>3. PICK a2 : a2 = UNION {Setup!Instruct(v, n, Setup!Message(m)[2]) : v \in a1}
    OBVIOUS
<1>4. PICK a3 : a3 = UNION {Setup!Instruct(v, n, Setup!Message(m)[3]) : v \in a2}
    OBVIOUS
<1>5. PICK a4 : a4 = UNION {Setup!Instruct(v, n, Setup!Message(m)[4]) : v \in a3}
    OBVIOUS
<1>6. PICK h : h = [k \in 0..Len(Setup!Message(m)) |->
                       IF k = 0 THEN a0 ELSE IF k = 1 THEN a1 ELSE IF k = 2 THEN a2
                       ELSE IF k = 3 THEN a3 ELSE a4]
    OBVIOUS
<1>7. ASSUME NEW k \in 0..Len(Setup!Message(m))
      PROVE  h[k] = IF k = 0 THEN Setup!Result(Fee <= w.lamports, [w EXCEPT !.lamports = @ - Fee])
                    ELSE UNION {Setup!Instruct(v, n, Setup!Message(m)[k]) : v \in h[k - 1]}
    <2>1. k = 0 \/ k = 1 \/ k = 2 \/ k = 3 \/ k = 4
        <3>1. k \in 0..L
            OBVIOUS
        <3> QED BY <3>1
    <2>2. CASE k = 0
        BY <1>1, <1>6, <2>2
    <2>3. CASE k = 1
        <3>1. h[1] = a1 /\ h[0] = a0
            BY <1>6, <2>3
        <3> QED BY <1>2, <2>3, <3>1
    <2>4. CASE k = 2
        <3>1. h[2] = a2 /\ h[1] = a1
            BY <1>6, <2>4
        <3> QED BY <1>3, <2>4, <3>1
    <2>5. CASE k = 3
        <3>1. h[3] = a3 /\ h[2] = a2
            BY <1>6, <2>5
        <3> QED BY <1>4, <2>5, <3>1
    <2>6. CASE k = 4
        <3>1. h[4] = a4 /\ h[3] = a3
            BY <1>6, <2>6
        <3> QED BY <1>5, <2>6, <3>1
    <2> QED BY <2>1, <2>2, <2>3, <2>4, <2>5, <2>6
<1>8. h = [k \in 0..Len(Setup!Message(m)) |->
              IF k = 0 THEN Setup!Result(Fee <= w.lamports, [w EXCEPT !.lamports = @ - Fee])
              ELSE UNION {Setup!Instruct(v, n, Setup!Message(m)[k]) : v \in h[k - 1]}]
    <2>1. h = [k \in 0..Len(Setup!Message(m)) |-> h[k]]
        BY <1>6, Zenon
    <2> QED BY <1>7, <2>1, Zenon
<1>9. \E g : Passes(w, n, m, g)
    BY <1>8 DEF Passes
<1>10. PICK g : Passes(w, n, m, g) /\ Setup!Executed(w, n, m) = g[L]
    BY <1>9, Zenon DEF Setup!Executed, Passes
<1>11. ASSUME NEW k \in 1..L PROVE g[k] = Each(g[k - 1], n, Setup!Message(m)[k])
    <2>1. k \in 0..Len(Setup!Message(m)) /\ k # 0
        OBVIOUS
    <2>2. g = [j \in 0..Len(Setup!Message(m)) |->
                  IF j = 0 THEN Setup!Result(Fee <= w.lamports, [w EXCEPT !.lamports = @ - Fee])
                  ELSE Each(g[j - 1], n, Setup!Message(m)[j])]
        BY <1>10, Zenon DEF Passes, Each
    <2> QED BY <2>1, <2>2
<1>12. g[0] = Setup!Result(Fee <= w.lamports, [w EXCEPT !.lamports = @ - Fee])
    <2>1. 0 \in 0..Len(Setup!Message(m))
        OBVIOUS
    <2> QED BY <1>10, <2>1, Zenon DEF Passes
<1>13. /\ g[1] = Each(g[1 - 1], n, Setup!Message(m)[1]) /\ g[2] = Each(g[2 - 1], n, Setup!Message(m)[2])
       /\ L >= 3 => g[3] = Each(g[3 - 1], n, Setup!Message(m)[3])
       /\ L >= 4 => g[4] = Each(g[4 - 1], n, Setup!Message(m)[4])
    <2>1. 1 \in 1..L /\ 2 \in 1..L /\ (L >= 3 => 3 \in 1..L) /\ (L >= 4 => 4 \in 1..L)
        OBVIOUS
    <2> QED BY <1>11, <2>1
<1> QED BY <1>10, <1>12, <1>13

\* The three messages.
LEMMA Messages ==
    /\ Setup!Message(1) = <<"reserve", "collateral_mint", "collateral_supply", "user_collateral">>
    /\ Setup!Message(2) = <<"liquidity_supply", "liquidity_fee_receiver">>
    /\ Setup!Message(3) = <<"approve", "init_reserve", "revoke">>
    BY DEF Setup!Message

\* What the instructions of the third message do.
LEMMA Instructions ==
    ASSUME NEW w, NEW n
    PROVE  /\ Setup!Instruct(w, n, "approve") = Setup!Approve(w, n)
           /\ Setup!Instruct(w, n, "init_reserve") = Setup!InitReserve(w, n)
           /\ Setup!Instruct(w, n, "revoke") = Setup!Revoke(w)
<1>1. Setup!Instruct(w, n, "approve") = Setup!Approve(w, n)
    BY DEF Setup!Instruct
<1>2. Setup!Instruct(w, n, "init_reserve") = Setup!InitReserve(w, n)
    BY DEF Setup!Instruct
<1>3. Setup!Instruct(w, n, "revoke") = Setup!Revoke(w)
    BY DEF Setup!Instruct
<1> QED BY <1>1, <1>2, <1>3

\* Before any account is created there is the fee.
LEMMA PaidFee ==
    ASSUME NEW w \in Chain, NEW n
    PROVE  Setup!Result(Fee <= w.lamports, [w EXCEPT !.lamports = @ - Fee]) = Paid(w, n, {}, Fee)
<1>1. w.exists \cup {<<n, a>> : a \in {}} = w.exists
    OBVIOUS
<1>2. [w EXCEPT !.lamports = w.lamports - Fee, !.exists = w.exists]
          = [w EXCEPT !.lamports = w.lamports - Fee]
    BY DEF Chain
<1> QED BY <1>1, <1>2 DEF Paid, Setup!Result

\* An instruction that creates account a, after those that created S.
LEMMA CreatesOneMore ==
    ASSUME Setup!SetupAssumption, NEW w \in Chain, NEW n, NEW S, NEW c \in Nat,
           NEW a \in Setup!Accounts, a \notin S, NEW T, T = S \cup {a}, NEW d, d = c + Rent[a]
    PROVE  Each(Paid(w, n, S, c), n, a) = Paid(w, n, T, d)
<1>1. PICK r \in Nat : r = Rent[a]
    BY Numbers
<1>2. PICK l \in Nat : l = w.lamports
    BY DEF Chain
<1>3. CASE ~(c <= l /\ \A b \in S : <<n, b>> \notin w.exists)
    <2>1. Paid(w, n, S, c) = {}
        BY <1>2, <1>3 DEF Paid, Setup!Result
    <2>2. d <= w.lamports => c <= l
        BY <1>1, <1>2
    <2>3. Paid(w, n, T, d) = {}
        BY <1>3, <2>2 DEF Paid, Setup!Result
    <2> QED BY <2>1, <2>3 DEF Each
<1>4. CASE c <= l /\ \A b \in S : <<n, b>> \notin w.exists
    <2>1. PICK v : v = [w EXCEPT !.lamports = w.lamports - c,
                                 !.exists = w.exists \cup {<<n, b>> : b \in S}]
        OBVIOUS
    <2>2. Paid(w, n, S, c) = {v}
        BY <1>2, <1>4, <2>1 DEF Paid, Setup!Result
    <2>3. v.lamports = l - c /\ v.exists = w.exists \cup {<<n, b>> : b \in S}
        BY <1>2, <2>1 DEF Chain
    <2>4. <<n, a>> \in v.exists <=> <<n, a>> \in w.exists
        BY <2>3
    <2>5. r <= l - c <=> d <= l
        BY <1>1, <1>2
    <2>6. [v EXCEPT !.lamports = v.lamports - r, !.exists = v.exists \cup {<<n, a>>}]
              = [w EXCEPT !.lamports = w.lamports - d,
                          !.exists = w.exists \cup {<<n, b>> : b \in T}]
        <3>1. (l - c) - r = l - d
            BY <1>1, <1>2
        <3>2. v.exists \cup {<<n, a>>} = w.exists \cup {<<n, b>> : b \in T}
            BY <2>3
        <3> QED BY <1>2, <2>1, <2>3, <3>1, <3>2 DEF Chain
    <2>7. a # "approve" /\ a # "init_reserve" /\ a # "revoke"
        BY DEF Setup!SetupAssumption
    <2>8. Each({v}, n, a) = Setup!CreateAccount(v, n, a)
        BY <2>7 DEF Each, Setup!Instruct
    <2> QED BY <1>1, <1>2, <1>4, <2>2, <2>3, <2>4, <2>5, <2>6, <2>8 DEF Setup!CreateAccount,
            Paid, Setup!Result
<1> QED BY <1>3, <1>4

\* The second message.
LEMMA ExecutedSecond ==
    ASSUME Setup!SetupAssumption, NEW w \in Chain, NEW n
    PROVE  Setup!Executed(w, n, 2) = Paid(w, n, Second, Fee + SecondRent)
<1>1. Len(Setup!Message(2)) = 2 /\ Setup!Message(2)[1] = "liquidity_supply"
      /\ Setup!Message(2)[2] = "liquidity_fee_receiver"
    BY Messages
<1>2. PICK a \in Setup!Accounts, b \in Setup!Accounts :
          a = "liquidity_supply" /\ b = "liquidity_fee_receiver" /\ a # b /\ Second = {a, b}
    BY Numbers DEF Second
<1>3. PICK g : /\ g[0] = Setup!Result(Fee <= w.lamports, [w EXCEPT !.lamports = @ - Fee])
               /\ g[1] = Each(g[0], n, a) /\ g[2] = Each(g[1], n, b)
               /\ Setup!Executed(w, n, 2) = g[2]
    BY <1>1, <1>2, ExecutedPasses
<1>4. g[0] = Paid(w, n, {}, Fee)
    BY <1>3, PaidFee
<1>5. Fee \in Nat /\ Rent[a] \in Nat /\ Rent[b] \in Nat
    BY Numbers
<1>6. PICK c1 \in Nat, c2 \in Nat : c1 = Fee + Rent[a] /\ c2 = c1 + Rent[b]
    BY <1>5
<1>s. PICK S1 : S1 = {a}
    OBVIOUS
<1>s0. PICK S0 : S0 = {}
    OBVIOUS
<1>f. PICK f \in Nat : f = Fee
    BY <1>5
<1>7. S1 = S0 \cup {a} /\ a \notin S0 /\ g[0] = Paid(w, n, S0, f) /\ c1 = f + Rent[a]
    BY <1>4, <1>6, <1>f, <1>s, <1>s0
<1>t. PICK S2 : S2 = S1 \cup {b} /\ b \notin S1 /\ S2 = Second
    BY <1>2, <1>s
<1>8. g[1] = Paid(w, n, S1, c1)
    <2>1. Each(Paid(w, n, S0, f), n, a) = Paid(w, n, S1, c1)
        BY <1>7, CreatesOneMore
    <2> QED BY <1>3, <1>7, <2>1
<1>9. g[2] = Paid(w, n, S2, c2)
    <2>1. S2 = S1 \cup {b} /\ b \notin S1 /\ c2 = c1 + Rent[b]
        BY <1>6, <1>t
    <2>2. Each(Paid(w, n, S1, c1), n, b) = Paid(w, n, S2, c2)
        BY <2>1, CreatesOneMore
    <2> QED BY <1>3, <1>8, <2>2
<1>10. c2 = Fee + SecondRent
    BY <1>2, <1>5, <1>6 DEF SecondRent
<1> QED BY <1>3, <1>9, <1>10, <1>t

\* The first message.
LEMMA ExecutedFirst ==
    ASSUME Setup!SetupAssumption, NEW w \in Chain, NEW n
    PROVE  Setup!Executed(w, n, 1) = Paid(w, n, First, Fee + FirstRent)
<1>1. Len(Setup!Message(1)) = 4 /\ Setup!Message(1)[1] = "reserve" /\ Setup!Message(1)[2] = "collateral_mint"
      /\ Setup!Message(1)[3] = "collateral_supply" /\ Setup!Message(1)[4] = "user_collateral"
    BY Messages
<1>2. PICK a \in Setup!Accounts, b \in Setup!Accounts, c \in Setup!Accounts, d \in Setup!Accounts :
          /\ a = "reserve" /\ b = "collateral_mint" /\ c = "collateral_supply"
          /\ d = "user_collateral" /\ a # b /\ a # c /\ b # c /\ a # d /\ b # d /\ c # d
          /\ First = {a, b, c, d}
    BY Numbers DEF First
<1>3. PICK g : /\ g[0] = Setup!Result(Fee <= w.lamports, [w EXCEPT !.lamports = @ - Fee])
               /\ g[1] = Each(g[0], n, a) /\ g[2] = Each(g[1], n, b)
               /\ g[3] = Each(g[2], n, c) /\ g[4] = Each(g[3], n, d)
               /\ Setup!Executed(w, n, 1) = g[4]
    BY <1>1, <1>2, ExecutedPasses
<1>4. g[0] = Paid(w, n, {}, Fee)
    BY <1>3, PaidFee
<1>5. Fee \in Nat /\ Rent[a] \in Nat /\ Rent[b] \in Nat /\ Rent[c] \in Nat /\ Rent[d] \in Nat
    BY Numbers
<1>c1. PICK c1 \in Nat : c1 = Fee + Rent[a]
    BY <1>5
<1>c2. PICK c2 \in Nat : c2 = c1 + Rent[b]
    BY <1>5
<1>c3. PICK c3 \in Nat : c3 = c2 + Rent[c]
    BY <1>5
<1>c4. PICK c4 \in Nat : c4 = c3 + Rent[d]
    BY <1>5
<1>6. c1 = Fee + Rent[a] /\ c2 = c1 + Rent[b] /\ c3 = c2 + Rent[c] /\ c4 = c3 + Rent[d]
    BY <1>c1, <1>c2, <1>c3, <1>c4
<1>s1. PICK S1 : S1 = {a}
    OBVIOUS
<1>s2. PICK S2 : S2 = {a, b}
    OBVIOUS
<1>s3. PICK S3 : S3 = {a, b, c}
    OBVIOUS
<1>s0. PICK S0 : S0 = {}
    OBVIOUS
<1>f. PICK f \in Nat : f = Fee
    BY <1>5
<1>a. S1 = S0 \cup {a} /\ a \notin S0 /\ g[0] = Paid(w, n, S0, f) /\ c1 = f + Rent[a]
    BY <1>4, <1>6, <1>f, <1>s0, <1>s1
<1>7. /\ S2 = S1 \cup {b} /\ S3 = S2 \cup {c} /\ First = S3 \cup {d}
      /\ b \notin S1 /\ c \notin S2 /\ d \notin S3
    BY <1>2, <1>s1, <1>s2, <1>s3
<1>8. g[1] = Paid(w, n, S1, c1)
    <2>1. Each(Paid(w, n, S0, f), n, a) = Paid(w, n, S1, c1)
        BY <1>a, CreatesOneMore
    <2> QED BY <1>3, <1>a, <2>1
<1>9. g[2] = Paid(w, n, S2, c2)
    <2>1. Each(Paid(w, n, S1, c1), n, b) = Paid(w, n, S2, c2)
        <3>1. S2 = S1 \cup {b} /\ b \notin S1 /\ c2 = c1 + Rent[b]
            BY <1>6, <1>7
        <3> QED BY <3>1, CreatesOneMore
    <2> QED BY <1>3, <1>8, <2>1
<1>10. g[3] = Paid(w, n, S3, c3)
    <2>1. Each(Paid(w, n, S2, c2), n, c) = Paid(w, n, S3, c3)
        <3>1. S3 = S2 \cup {c} /\ c \notin S2 /\ c3 = c2 + Rent[c]
            BY <1>6, <1>7
        <3> QED BY <3>1, CreatesOneMore
    <2> QED BY <1>3, <1>9, <2>1
<1>11. g[4] = Paid(w, n, First, c4)
    <2>1. Each(Paid(w, n, S3, c3), n, d) = Paid(w, n, First, c4)
        <3>1. First = S3 \cup {d} /\ d \notin S3 /\ c4 = c3 + Rent[d]
            BY <1>6, <1>7
        <3> QED BY <3>1, CreatesOneMore
    <2> QED BY <1>3, <1>10, <2>1
<1>12. c4 = Fee + FirstRent
    BY <1>2, <1>5, <1>6 DEF FirstRent
<1> QED BY <1>3, <1>11, <1>12

\* what the third message leaves
Deposited(w, n) ==
    [w EXCEPT !.lamports = w.lamports - Fee, !.initialized = w.initialized \cup {n},
              !.source = w.source - Amount, !.supply[n] = w.supply[n] + Amount,
              !.delegate = Setup!NoDelegate]

\* The third message.
LEMMA ExecutedThird ==
    ASSUME Setup!SetupAssumption, NEW w \in Chain, NEW n \in Setup!Runs
    PROVE  Setup!Executed(w, n, 3)
               = Setup!Result(/\ Fee <= w.lamports /\ Amount > 0
                              /\ \A a \in Setup!Accounts : <<n, a>> \in w.exists
                              /\ n \notin w.initialized /\ w.ready /\ w.source >= Amount,
                              Deposited(w, n))
<1>1. Len(Setup!Message(3)) = 3 /\ Setup!Message(3)[1] = "approve" /\ Setup!Message(3)[2] = "init_reserve"
      /\ Setup!Message(3)[3] = "revoke"
    BY Messages
<1>2. PICK g : /\ g[0] = Setup!Result(Fee <= w.lamports, [w EXCEPT !.lamports = @ - Fee])
               /\ g[1] = Each(g[0], n, Setup!Message(3)[1]) /\ g[2] = Each(g[1], n, Setup!Message(3)[2])
               /\ g[3] = Each(g[2], n, Setup!Message(3)[3])
               /\ Setup!Executed(w, n, 3) = g[3]
    BY <1>1, ExecutedPasses
<1>3. /\ g[0] = Setup!Result(Fee <= w.lamports, [w EXCEPT !.lamports = @ - Fee])
      /\ g[1] = Each(g[0], n, "approve")
      /\ g[2] = Each(g[1], n, "init_reserve")
      /\ g[3] = Each(g[2], n, "revoke")
    BY <1>1, <1>2
<1>4. CASE ~(Fee <= w.lamports)
    <2>1. g[0] = {} /\ g[1] = {} /\ g[2] = {} /\ g[3] = {}
        BY <1>3, <1>4 DEF Setup!Result, Each
    <2> QED BY <1>2, <1>4, <2>1 DEF Setup!Result
<1>5. CASE Fee <= w.lamports
    <2>1. PICK v0 : v0 = [w EXCEPT !.lamports = w.lamports - Fee] /\ g[0] = {v0}
        BY <1>3, <1>5 DEF Setup!Result
    <2>2. PICK v1 : v1 = [v0 EXCEPT !.delegate = [run |-> n, amount |-> Amount]] /\ g[1] = {v1}
        <3>1. g[1] = Setup!Instruct(v0, n, "approve")
            BY <1>3, <2>1 DEF Each
        <3> QED BY <3>1, Instructions DEF Setup!Approve
    <2>3. /\ v1.exists = w.exists /\ v1.initialized = w.initialized /\ v1.ready = w.ready
          /\ v1.source = w.source /\ v1.supply = w.supply /\ v1.lamports = w.lamports - Fee
          /\ v1.delegate = [run |-> n, amount |-> Amount]
        BY <2>1, <2>2 DEF Chain
    <2>4. g[2] = Setup!InitReserve(v1, n)
        <3>1. g[2] = Setup!Instruct(v1, n, "init_reserve")
            BY <1>3, <2>2 DEF Each
        <3> QED BY <3>1, Instructions
    <2>5. Amount \in Nat /\ Amount >= Amount
        BY Numbers
    <2>6. CASE ~(/\ Amount > 0 /\ \A a \in Setup!Accounts : <<n, a>> \in w.exists
                 /\ n \notin w.initialized /\ w.ready /\ w.source >= Amount)
        <3>1. g[2] = {}
            BY <2>3, <2>4, <2>6 DEF Setup!InitReserve, Setup!Result
        <3>2. g[3] = {}
            BY <1>3, <3>1 DEF Each
        <3> QED BY <1>2, <2>6, <3>2 DEF Setup!Result
    <2>7. CASE /\ Amount > 0 /\ \A a \in Setup!Accounts : <<n, a>> \in w.exists
               /\ n \notin w.initialized /\ w.ready /\ w.source >= Amount
        <3>1. PICK v2 : v2 = [v1 EXCEPT !.initialized = v1.initialized \cup {n},
                                        !.source = v1.source - Amount,
                                        !.supply[n] = v1.supply[n] + Amount,
                                        !.delegate = Setup!NoDelegate]
                        /\ g[2] = {v2}
            BY <2>3, <2>4, <2>5, <2>7 DEF Setup!InitReserve, Setup!Result
        <3>2. g[3] = Setup!Revoke(v2)
            <4>1. g[3] = Setup!Instruct(v2, n, "revoke")
                BY <1>3, <3>1 DEF Each
            <4> QED BY <4>1, Instructions
        <3>3. [v2 EXCEPT !.delegate = Setup!NoDelegate] = Deposited(w, n)
            BY <2>1, <2>2, <3>1 DEF Deposited, Chain
        <3> QED BY <1>2, <1>5, <2>7, <3>2, <3>3 DEF Setup!Revoke, Setup!Result
    <2> QED BY <2>6, <2>7
<1> QED BY <1>4, <1>5

\* what message m costs
Price(m) == IF m = 1 THEN Fee + FirstRent ELSE IF m = 2 THEN Fee + SecondRent ELSE Fee

\* A message pays for what is still needed, and leaves what the next one needs.
LEMMA Prices ==
    ASSUME Setup!SetupAssumption
    PROVE  /\ \A m \in 1..3 : Price(m) \in Nat /\ Needed(m) \in Nat /\ Price(m) <= Needed(m)
           /\ \A m \in 1..2 : Needed(m) = Price(m) + Needed(m + 1)
           /\ Setup!RequiredBalance = Needed(1)
<1>1. PICK a \in Nat, b \in Nat, f \in Nat : a = FirstRent /\ b = SecondRent /\ f = Fee
    BY Numbers DEF FirstRent, SecondRent, First, Second
<1>2. Setup!RequiredBalance = a + b + 3 * f
    <2>1. /\ Rent["reserve"] \in Nat /\ Rent["collateral_mint"] \in Nat
          /\ Rent["collateral_supply"] \in Nat /\ Rent["user_collateral"] \in Nat
          /\ Rent["liquidity_supply"] \in Nat /\ Rent["liquidity_fee_receiver"] \in Nat
        BY Numbers DEF First, Second
    <2> QED BY <1>1, <2>1 DEF Setup!RequiredBalance, FirstRent, SecondRent
<1>3. /\ Price(1) = f + a /\ Price(2) = f + b /\ Price(3) = f
      /\ Needed(1) = a + b + 3 * f /\ Needed(2) = b + 2 * f /\ Needed(3) = f
    BY <1>1, <1>2 DEF Price, Needed
<1>4. \A m \in 1..3 : Price(m) \in Nat /\ Needed(m) \in Nat /\ Price(m) <= Needed(m)
    <2> SUFFICES ASSUME NEW m \in 1..3
        PROVE  Price(m) \in Nat /\ Needed(m) \in Nat /\ Price(m) <= Needed(m)
        OBVIOUS
    <2>1. m = 1 \/ m = 2 \/ m = 3
        OBVIOUS
    <2> QED BY <1>3, <2>1
<1>5. \A m \in 1..2 : Needed(m) = Price(m) + Needed(m + 1)
    <2> SUFFICES ASSUME NEW m \in 1..2 PROVE Needed(m) = Price(m) + Needed(m + 1)
        OBVIOUS
    <2>1. CASE m = 1
        BY <1>3, <2>1
    <2>2. CASE m = 2
        BY <1>3, <2>2
    <2> QED BY <2>1, <2>2
<1> QED BY <1>2, <1>3, <1>4, <1>5

\* Message m of run n has landed on w and left v.
Landed(w, n, m, v) ==
    /\ v \in Chain
    /\ v.exists = w.exists \cup {<<n, a>> : a \in Creates(m)}
    /\ v.lamports = w.lamports - Price(m)
    /\ v.ready = w.ready
    /\ v.delegate = Setup!NoDelegate
    /\ IF m = 3 THEN n \notin w.initialized /\ v.initialized = w.initialized \cup {n}
                ELSE v.initialized = w.initialized /\ v.source = w.source

\* What a message leaves that succeeds.
LEMMA Lands ==
    ASSUME Setup!SetupAssumption, NEW w \in Chain, w.delegate = Setup!NoDelegate, NEW n \in Setup!Runs,
           NEW m \in 1..3, NEW v \in Setup!Executed(w, n, m)
    PROVE  Landed(w, n, m, v)
<1>1. PICK l \in Nat : l = w.lamports
    BY DEF Chain
<1>2. ASSUME NEW S \in SUBSET Setup!Accounts, NEW c \in Nat, v \in Paid(w, n, S, c)
      PROVE  /\ v \in Chain /\ v.exists = w.exists \cup {<<n, a>> : a \in S}
             /\ v.lamports = w.lamports - c /\ v.ready = w.ready /\ v.delegate = w.delegate
             /\ v.initialized = w.initialized /\ v.source = w.source
    <2>1. c <= l /\ v = [w EXCEPT !.lamports = w.lamports - c,
                                  !.exists = w.exists \cup {<<n, a>> : a \in S}]
        BY <1>1, <1>2 DEF Paid, Setup!Result
    <2>2. w.lamports - c \in Nat
        BY <1>1, <2>1
    <2>3. PICK E \in SUBSET (Setup!Runs \X Setup!Accounts) : E = w.exists \cup {<<n, a>> : a \in S}
        <3>1. w.exists \in SUBSET (Setup!Runs \X Setup!Accounts)
            BY DEF Chain
        <3>2. ASSUME NEW e \in w.exists \cup {<<n, a>> : a \in S} PROVE e \in Setup!Runs \X Setup!Accounts
            BY <3>1
        <3> QED BY <3>2
    <2>4. v = [w EXCEPT !.lamports = w.lamports - c, !.exists = E]
        BY <2>1, <2>3
    <2> QED BY <2>2, <2>3, <2>4 DEF Chain
<1>3. CASE m = 1
    <2>1. v \in Paid(w, n, First, Fee + FirstRent)
        BY <1>3, ExecutedFirst
    <2>2. PICK c \in Nat : c = Fee + FirstRent /\ c = Price(m)
        <3>1. Price(1) \in Nat /\ Price(1) = Fee + FirstRent
            BY Prices DEF Price
        <3> QED BY <1>3, <3>1
    <2>3. First \subseteq Setup!Accounts /\ Creates(m) = First
        BY <1>3, Numbers DEF Creates
    <2>4. /\ v \in Chain /\ v.exists = w.exists \cup {<<n, a>> : a \in First}
          /\ v.lamports = w.lamports - c /\ v.ready = w.ready /\ v.delegate = w.delegate
          /\ v.initialized = w.initialized /\ v.source = w.source
        BY <1>2, <2>1, <2>2, <2>3
    <2> QED BY <1>3, <2>2, <2>3, <2>4 DEF Landed
<1>4. CASE m = 2
    <2>1. v \in Paid(w, n, Second, Fee + SecondRent)
        BY <1>4, ExecutedSecond
    <2>2. PICK c \in Nat : c = Fee + SecondRent /\ c = Price(m)
        <3>1. Price(2) \in Nat /\ Price(2) = Fee + SecondRent
            BY Prices DEF Price
        <3> QED BY <1>4, <3>1
    <2>3. Second \subseteq Setup!Accounts /\ Creates(m) = Second
        BY <1>4, Numbers DEF Creates
    <2>4. /\ v \in Chain /\ v.exists = w.exists \cup {<<n, a>> : a \in Second}
          /\ v.lamports = w.lamports - c /\ v.ready = w.ready /\ v.delegate = w.delegate
          /\ v.initialized = w.initialized /\ v.source = w.source
        BY <1>2, <2>1, <2>2, <2>3
    <2> QED BY <1>4, <2>2, <2>3, <2>4 DEF Landed
<1>5. CASE m = 3
    <2>1. /\ Fee <= w.lamports /\ n \notin w.initialized /\ w.source >= Amount
          /\ v = Deposited(w, n)
        BY <1>5, ExecutedThird DEF Setup!Result
    <2>2. PICK f \in Nat, x \in Nat, t \in Nat : f = Fee /\ x = Amount /\ t = w.source
        BY Numbers DEF Chain
    <2>3. w.lamports - f \in Nat /\ w.source - x \in Nat
        BY <1>1, <2>1, <2>2
    <2>4. Setup!NoDelegate \in [run : Nat, amount : Nat]
        BY DEF Setup!NoDelegate
    <2>5. PICK p \in [Setup!Runs -> Nat] : p = [w.supply EXCEPT ![n] = w.supply[n] + x]
        <3>1. w.supply \in [Setup!Runs -> Nat]
            BY DEF Chain
        <3>2. w.supply[n] + x \in Nat
            BY <3>1
        <3> QED BY <3>1, <3>2
    <2>6. v = [w EXCEPT !.lamports = w.lamports - f, !.initialized = w.initialized \cup {n},
                        !.source = w.source - x, !.supply = p, !.delegate = Setup!NoDelegate]
        BY <2>1, <2>2, <2>5 DEF Deposited, Chain
    <2>7. Creates(m) = {} /\ Price(m) = f
        BY <1>5, <2>2 DEF Creates, Price
    <2>8. w.exists \cup {<<n, a>> : a \in {}} = w.exists
        OBVIOUS
    <2>9. v \in Chain
        BY <2>3, <2>4, <2>6 DEF Chain
    <2>10. /\ v.exists = w.exists /\ v.lamports = w.lamports - f /\ v.ready = w.ready
           /\ v.delegate = Setup!NoDelegate /\ v.initialized = w.initialized \cup {n}
        BY <2>6 DEF Chain
    <2> QED BY <1>5, <2>1, <2>7, <2>8, <2>9, <2>10 DEF Landed
<1> QED BY <1>3, <1>4, <1>5

-----------------------------------------------------------------------------
(* The invariant.                                                          *)

\* At first nothing is on chain and nothing under way.
LEMMA InitSetupInv == Setup!SetupAssumption /\ Setup!Init => SetupInv
<1> SUFFICES ASSUME Setup!SetupAssumption, Setup!Init PROVE SetupInv
    OBVIOUS
<1>1. accounts \in Chain
    <2>1. Lamports \in Nat /\ SourceTokens \in Nat
        BY Numbers
    <2>2. [n \in Setup!Runs |-> 0] \in [Setup!Runs -> Nat] /\ Setup!NoDelegate \in [run : Nat, amount : Nat]
        BY DEF Setup!NoDelegate
    <2> QED BY <2>1, <2>2 DEF Setup!Init, Chain
<1>2. Typed
    <2>1. running \in [run : 0..MaxRuns, message : 0..3, excused : BOOLEAN]
        <3>1. 0 \in 0..MaxRuns /\ 0 \in 0..3
            BY Numbers
        <3> QED BY <3>1 DEF Setup!Init
    <2>2. told = [n \in Setup!Runs |-> told[n]] /\ inflight = {}
        BY DEF Setup!Init
    <2> QED BY <1>1, <2>1, <2>2 DEF Typed
<1>3. ~Setup!Busy /\ running.run = 0
    BY DEF Setup!Init, Setup!Busy
<1>4. NothingAhead /\ AllAwaited /\ RunOpen /\ UndisturbedOnCourse
    BY <1>3 DEF Setup!Init, NothingAhead, Unused, AllAwaited, RunOpen, UndisturbedOnCourse
<1>5. Setup!RetryIsSafe
    BY <1>3 DEF Setup!Init, Setup!RetryIsSafe, Setup!NoApprovalLeft, Setup!BalanceSuffices,
            Setup!ReportIsFinal
<1> QED BY <1>2, <1>4, <1>5 DEF SetupInv

\* A run begins, or is turned away for its balance.
LEMMA AddReserveInv ==
    ASSUME Setup!SetupAssumption, SetupInv, Setup!AddReserve
    PROVE  SetupInv'
<1>1. PICK n \in Setup!Runs : n = running.run + 1 /\ running.run \in 0..MaxRuns
    <2>1. PICK k \in 0..MaxRuns : k = running.run /\ k < MaxRuns
        BY DEF Setup!AddReserve, SetupInv, Typed
    <2>2. MaxRuns \in Nat
        BY Numbers
    <2>3. k + 1 \in 1..MaxRuns
        BY <2>1, <2>2
    <2> QED BY <2>1, <2>3 DEF Setup!Runs
<1>2. /\ ~Setup!Busy /\ accounts' = accounts /\ Unused(n)
      /\ Typed /\ NothingAhead /\ AllAwaited /\ Setup!RetryIsSafe
    <2>1. running.run < n
        BY <1>1
    <2>2. ~Setup!Busy /\ accounts' = accounts
        BY DEF Setup!AddReserve
    <2>3. Typed /\ NothingAhead /\ AllAwaited /\ Setup!RetryIsSafe
        BY DEF SetupInv
    <2> QED BY <2>1, <2>2, <2>3 DEF NothingAhead
<1>3. ASSUME NEW k \in Setup!Runs, k \in accounts.initialized \/ \E m \in 1..3 : <<k, m>> \in inflight
      PROVE  k # n /\ k < n
    <2>1. k \in Nat /\ n \in Nat
        BY Numbers DEF Setup!Runs
    <2>2. k <= running.run
        <3>1. CASE k \in accounts.initialized
            BY <1>1, <1>2, <2>1, <3>1 DEF NothingAhead, Unused
        <3>2. CASE \E m \in 1..3 : <<k, m>> \in inflight
            BY <1>2, <3>2 DEF AllAwaited, Awaited
        <3> QED BY <1>3, <3>1, <3>2
    <2> QED BY <1>1, <2>1, <2>2
<1>4. CASE accounts.lamports < Setup!RequiredBalance
    <2>1. /\ running' = [run |-> n, message |-> 0, excused |-> TRUE]
          /\ told' = [told EXCEPT ![n] = "insufficient balance"] /\ inflight' = inflight
        BY <1>1, <1>4 DEF Setup!AddReserve
    <2>2. Typed'
        <3>1. n \in 0..MaxRuns /\ 0 \in 0..3 /\ TRUE \in BOOLEAN
            BY <1>1, Numbers DEF Setup!Runs
        <3>2. running' \in [run : 0..MaxRuns, message : 0..3, excused : BOOLEAN]
            BY <2>1, <3>1
        <3>3. told' = [k \in Setup!Runs |-> told'[k]]
            BY <1>2, <2>1 DEF Typed
        <3> QED BY <1>2, <2>1, <3>2, <3>3 DEF Typed
    <2>3. ~Setup!Busy' /\ running'.run = n /\ running'.excused
        BY <2>1 DEF Setup!Busy
    <2>4. NothingAhead'
        <3>1. ASSUME NEW k \in Setup!Runs, n < k PROVE running.run < k
            BY <1>1, <3>1 DEF Setup!Runs
        <3> QED BY <1>2, <2>3, <3>1 DEF NothingAhead, Unused
    <2>5. AllAwaited'
        <3> SUFFICES ASSUME NEW k \in Setup!Runs, NEW m \in 1..3, <<k, m>> \in inflight
            PROVE  Awaited(k, m)'
            BY <2>1 DEF AllAwaited
        <3>1. k # n /\ k < n
            BY <1>3
        <3>2. told[k] = "interrupted"
            BY <1>2 DEF AllAwaited, Awaited
        <3>3. told'[k] = "interrupted"
            BY <1>2, <2>1, <3>1, <3>2 DEF Typed
        <3> QED BY <2>3, <3>1, <3>3 DEF Awaited, Setup!Runs
    <2>6. RunOpen' /\ UndisturbedOnCourse'
        BY <2>3 DEF RunOpen, UndisturbedOnCourse
    <2>7. Setup!RetryIsSafe'
        <3>1. Setup!ReportIsFinal'
            <4>1. \A k \in Setup!Runs : k # n => told'[k] = told[k]
                BY <1>2, <2>1 DEF Typed
            <4>2. told'[n] = "insufficient balance" /\ n \notin accounts.initialized
                BY <1>2, <2>1 DEF Typed, Unused
            <4> QED BY <1>2, <4>1, <4>2 DEF Setup!RetryIsSafe, Setup!ReportIsFinal
        <3> QED BY <1>2, <2>3, <3>1 DEF Setup!RetryIsSafe, Setup!NoApprovalLeft,
                Setup!BalanceSuffices
    <2> QED BY <2>2, <2>4, <2>5, <2>6, <2>7 DEF SetupInv
<1>5. CASE ~(accounts.lamports < Setup!RequiredBalance)
    <2>1. /\ running' = [run |-> n, message |-> 1,
                        excused |-> \/ inflight # {} \/ ~accounts.ready
                                    \/ accounts.source < Amount \/ Amount = 0]
          /\ inflight' = inflight \cup {<<n, 1>>} /\ told' = told
        BY <1>1, <1>5 DEF Setup!AddReserve
    <2>2. Typed'
        BY <1>1, <1>2, <2>1 DEF Typed, Setup!Runs
    <2>3. Setup!Busy' /\ running'.run = n /\ running'.message = 1
        BY <2>1 DEF Setup!Busy
    <2>4. NothingAhead'
        <3>1. ASSUME NEW k \in Setup!Runs, n < k PROVE running.run < k
            BY <1>1, <3>1 DEF Setup!Runs
        <3> QED BY <1>2, <2>3, <3>1 DEF NothingAhead, Unused
    <2>5. AllAwaited'
        <3> SUFFICES ASSUME NEW k \in Setup!Runs, NEW m \in 1..3, <<k, m>> \in inflight \cup {<<n, 1>>}
            PROVE  Awaited(k, m)'
            BY <2>1 DEF AllAwaited
        <3>1. CASE <<k, m>> \in inflight
            <4>1. k # n /\ k < n
                BY <1>3, <3>1
            <4>2. told[k] = "interrupted"
                BY <1>2, <3>1 DEF AllAwaited, Awaited
            <4> QED BY <2>1, <2>3, <4>1, <4>2 DEF Awaited, Setup!Runs
        <3>2. CASE k = n /\ m = 1
            BY <2>3, <3>2 DEF Awaited, Setup!Runs
        <3> QED BY <3>1, <3>2
    <2>6. RunOpen'
        BY <1>2, <2>3 DEF RunOpen, Unused
    <2>7. UndisturbedOnCourse'
        <3> SUFFICES ASSUME ~running'.excused PROVE OnCourse'
            BY DEF UndisturbedOnCourse
        <3>1. inflight = {} /\ accounts.ready /\ ~(accounts.source < Amount) /\ Amount # 0
            BY <2>1
        <3>2. Amount \in Nat /\ accounts.source \in Nat /\ accounts.lamports \in Nat
            BY <1>2, Numbers DEF Typed, Chain
        <3>3. Amount > 0 /\ accounts.source >= Amount
            BY <3>1, <3>2
        <3>4. accounts.lamports >= Needed(1)
            <4>1. PICK x \in Nat : x = Needed(1) /\ x = Setup!RequiredBalance
                BY Prices
            <4> QED BY <1>5, <3>2, <4>1
        <3>5. inflight' = {<<n, 1>>} /\ Before(1) = {}
            BY <2>1, <3>1 DEF Before
        <3> QED BY <1>2, <2>3, <3>1, <3>3, <3>4, <3>5 DEF OnCourse, Unused
    <2>8. Setup!RetryIsSafe'
        BY <1>2, <2>1, <2>3 DEF Setup!RetryIsSafe, Setup!NoApprovalLeft, Setup!BalanceSuffices,
                Setup!ReportIsFinal
    <2> QED BY <2>2, <2>4, <2>5, <2>6, <2>7, <2>8 DEF SetupInv
<1> QED BY <1>4, <1>5

\* A simulated run leaves nothing.
LEMMA DryRunInv ==
    ASSUME Setup!SetupAssumption, SetupInv, Setup!DryRun
    PROVE  SetupInv'
<1>1. PICK n \in Setup!Runs : n = running.run + 1 /\ running.run \in 0..MaxRuns
    <2>1. PICK k \in 0..MaxRuns : k = running.run /\ k < MaxRuns
        BY DEF Setup!DryRun, SetupInv, Typed
    <2>2. MaxRuns \in Nat
        BY Numbers
    <2>3. k + 1 \in 1..MaxRuns
        BY <2>1, <2>2
    <2> QED BY <2>1, <2>3 DEF Setup!Runs
<1>2. /\ ~Setup!Busy /\ accounts' = accounts /\ inflight' = inflight
      /\ running' = [run |-> n, message |-> 0, excused |-> TRUE]
      /\ told' = [told EXCEPT ![n] = "simulated"]
    BY <1>1 DEF Setup!DryRun
<1>3. Typed /\ NothingAhead /\ AllAwaited /\ Setup!RetryIsSafe
    BY DEF SetupInv
<1>4. Unused(n)
    <2>1. running.run < n
        BY <1>1
    <2> QED BY <1>3, <2>1 DEF NothingAhead
<1>5. Typed'
    <2>1. n \in 0..MaxRuns /\ 0 \in 0..3 /\ TRUE \in BOOLEAN
        BY <1>1, Numbers DEF Setup!Runs
    <2>2. running' \in [run : 0..MaxRuns, message : 0..3, excused : BOOLEAN]
        BY <1>2, <2>1
    <2>3. told' = [k \in Setup!Runs |-> told'[k]]
        BY <1>2, <1>3 DEF Typed
    <2> QED BY <1>2, <1>3, <2>2, <2>3 DEF Typed
<1>6. ~Setup!Busy' /\ running'.run = n /\ running'.excused
    BY <1>2 DEF Setup!Busy
<1>7. NothingAhead'
    <2>1. ASSUME NEW k \in Setup!Runs, n < k PROVE running.run < k
        BY <1>1, <2>1 DEF Setup!Runs
    <2> QED BY <1>2, <1>3, <1>6, <2>1 DEF NothingAhead, Unused
<1>8. AllAwaited'
    <2> SUFFICES ASSUME NEW k \in Setup!Runs, NEW m \in 1..3, <<k, m>> \in inflight
        PROVE  Awaited(k, m)'
        BY <1>2 DEF AllAwaited
    <2>1. k <= running.run /\ told[k] = "interrupted"
        BY <1>2, <1>3 DEF AllAwaited, Awaited
    <2>2. k \in Nat /\ n \in Nat
        BY Numbers DEF Setup!Runs
    <2>3. k # n /\ k <= n
        BY <1>1, <2>1, <2>2
    <2>4. told'[k] = "interrupted"
        BY <1>2, <1>3, <2>1, <2>3 DEF Typed
    <2> QED BY <1>6, <2>3, <2>4 DEF Awaited
<1>9. RunOpen' /\ UndisturbedOnCourse'
    BY <1>6 DEF RunOpen, UndisturbedOnCourse
<1>10. Setup!RetryIsSafe'
    <2>1. \A k \in Setup!Runs : k # n => told'[k] = told[k]
        BY <1>2, <1>3 DEF Typed
    <2>2. told'[n] = "simulated" /\ n \notin accounts.initialized
        BY <1>2, <1>3, <1>4 DEF Typed, Unused
    <2>3. Setup!ReportIsFinal'
        BY <1>2, <1>3, <2>1, <2>2 DEF Setup!RetryIsSafe, Setup!ReportIsFinal
    <2> QED BY <1>2, <1>3, <1>6, <2>3 DEF Setup!RetryIsSafe, Setup!NoApprovalLeft,
            Setup!BalanceSuffices
<1> QED BY <1>5, <1>7, <1>8, <1>9, <1>10 DEF SetupInv

\* On chain a step touches what belongs to run n only, and leaves no approval.
Spares(n) ==
    /\ accounts' \in Chain /\ Setup!NoApprovalLeft'
    /\ \A k \in Setup!Runs : k # n =>
          /\ k \in accounts'.initialized <=> k \in accounts.initialized
          /\ \A a \in Setup!Accounts : <<k, a>> \in accounts'.exists <=> <<k, a>> \in accounts.exists

\* The run ends: what the user is told fits what is on chain and under way.
Ends(what, excused) ==
    /\ Setup!Busy /\ Setup!Stops(what, excused) /\ excused \in BOOLEAN
    /\ Spares(running.run)
    /\ running.run \in accounts'.initialized <=> what = "ok"
    /\ what = "failed" => running.excused \/ excused
    /\ inflight' \subseteq inflight
    /\ what = "interrupted" \/ <<running.run, running.message>> \notin inflight'

\* However a run ends, the invariant is kept.
LEMMA EndsInv ==
    ASSUME Setup!SetupAssumption, SetupInv, NEW what, NEW excused, Ends(what, excused)
    PROVE  SetupInv'
<1>1. Typed /\ NothingAhead /\ AllAwaited /\ RunOpen /\ Setup!RetryIsSafe
    BY DEF SetupInv
<1>2. PICK n \in Setup!Runs : n = running.run
    BY <1>1 DEF Ends, RunOpen
<1>3. /\ running' = [running EXCEPT !.message = 0, !.excused = running.excused \/ excused]
      /\ told' = [told EXCEPT ![n] = what] /\ excused \in BOOLEAN
    BY <1>2 DEF Ends, Setup!Stops
<1>4. running'.run = n /\ running'.excused = (running.excused \/ excused) /\ ~Setup!Busy'
    BY <1>1, <1>2, <1>3 DEF Typed, Setup!Busy
<1>5. Typed'
    <2>1. running' \in [run : 0..MaxRuns, message : 0..3, excused : BOOLEAN]
        <3>1. PICK e \in BOOLEAN : e = (running.excused \/ excused)
            OBVIOUS
        <3>2. running' = [running EXCEPT !.message = 0, !.excused = e] /\ 0 \in 0..3
            BY <1>3, <3>1
        <3> QED BY <1>1, <3>2 DEF Typed
    <2>2. told' = [k \in Setup!Runs |-> told'[k]]
        BY <1>1, <1>3 DEF Typed
    <2> QED BY <1>1, <2>1, <2>2 DEF Typed, Ends, Spares
<1>6. told'[n] = what /\ \A k \in Setup!Runs : k # n => told'[k] = told[k]
    BY <1>1, <1>3 DEF Typed
<1>7. NothingAhead'
    <2> SUFFICES ASSUME NEW k \in Setup!Runs, n < k PROVE Unused(k)'
        BY <1>4 DEF NothingAhead
    <2>1. k # n
        BY DEF Setup!Runs
    <2>2. Unused(k)
        BY <1>1, <1>2 DEF NothingAhead
    <2> QED BY <1>2, <2>1, <2>2 DEF Ends, Spares, Unused
<1>8. AllAwaited'
    <2> SUFFICES ASSUME NEW k \in Setup!Runs, NEW m \in 1..3, <<k, m>> \in inflight'
        PROVE  k <= n /\ told'[k] = "interrupted"
        BY <1>4 DEF AllAwaited, Awaited
    <2>1. Awaited(k, m) /\ Setup!Busy
        BY <1>1 DEF AllAwaited, Ends
    <2>2. CASE k = n
        <3>1. m = running.message
            BY <1>2, <2>1, <2>2 DEF Awaited
        <3>2. what = "interrupted"
            BY <1>2, <2>2, <3>1 DEF Ends
        <3> QED BY <1>2, <1>6, <2>1, <2>2, <3>2 DEF Awaited
    <2>3. CASE k # n
        BY <1>2, <1>6, <2>1, <2>3 DEF Awaited
    <2> QED BY <2>2, <2>3
<1>9. RunOpen' /\ UndisturbedOnCourse'
    BY <1>4 DEF RunOpen, UndisturbedOnCourse
<1>10. Setup!ReportIsFinal'
    <2> SUFFICES ASSUME NEW k \in Setup!Runs
        PROVE  /\ told'[k] = "ok" => k \in accounts'.initialized
               /\ k \in accounts'.initialized => told'[k] \in {"ok", "interrupted"}
        BY DEF Setup!ReportIsFinal
    <2>1. CASE k = n
        BY <1>2, <1>6, <2>1 DEF Ends
    <2>2. CASE k # n
        BY <1>1, <1>2, <1>6, <2>2 DEF Ends, Spares, Setup!RetryIsSafe, Setup!ReportIsFinal
    <2> QED BY <2>1, <2>2
<1>11. Setup!BalanceSuffices'
    BY <1>4, <1>6 DEF Setup!BalanceSuffices, Ends
<1> QED BY <1>5, <1>7, <1>8, <1>9, <1>10, <1>11 DEF SetupInv, Setup!RetryIsSafe, Ends, Spares

\* The process is stopped; its message may still land.
LEMMA InterruptInv ==
    ASSUME Setup!SetupAssumption, SetupInv, Setup!Interrupt
    PROVE  SetupInv'
<1>1. Typed /\ RunOpen /\ Setup!NoApprovalLeft
    BY DEF SetupInv, Setup!RetryIsSafe
<1>2. Ends("interrupted", TRUE)
    BY <1>1 DEF Setup!Interrupt, Ends, Spares, Typed, RunOpen, Setup!NoApprovalLeft
<1> QED BY <1>2, EndsInv

\* A message expires.
LEMMA ExpireInv ==
    ASSUME Setup!SetupAssumption, SetupInv, NEW n \in Setup!Runs, NEW m \in 1..3, Setup!Expire(n, m)
    PROVE  SetupInv'
<1>1. /\ Typed /\ NothingAhead /\ AllAwaited /\ RunOpen /\ UndisturbedOnCourse /\ Setup!RetryIsSafe
      /\ Setup!NoApprovalLeft /\ accounts' = accounts /\ inflight' = inflight \ {<<n, m>>}
      /\ <<n, m>> \in inflight
    BY DEF SetupInv, Setup!RetryIsSafe, Setup!Expire
<1>2. CASE <<n, m>> = <<running.run, running.message>>
    <2>1. Setup!Busy
        BY <1>2 DEF Setup!Busy
    <2>2. Setup!Stops("expired", TRUE)
        BY <1>2 DEF Setup!Expire
    <2>3. Ends("expired", TRUE)
        BY <1>1, <1>2, <2>1, <2>2 DEF Ends, Spares, Typed, RunOpen, Setup!NoApprovalLeft
    <2> QED BY <2>3, EndsInv
<1>3. CASE <<n, m>> # <<running.run, running.message>>
    <2>1. running' = running /\ told' = told
        BY <1>3 DEF Setup!Expire
    <2>2. Setup!Busy' <=> Setup!Busy
        BY <2>1 DEF Setup!Busy
    <2>3. Typed'
        BY <1>1, <2>1 DEF Typed
    <2>4. NothingAhead' /\ RunOpen'
        BY <1>1, <2>1, <2>2 DEF NothingAhead, RunOpen, Unused
    <2>5. AllAwaited'
        BY <1>1, <2>1, <2>2 DEF AllAwaited, Awaited
    <2>6. UndisturbedOnCourse'
        BY <1>1, <1>3, <2>1, <2>2 DEF UndisturbedOnCourse, OnCourse
    <2>7. Setup!RetryIsSafe'
        BY <1>1, <2>1, <2>2 DEF Setup!RetryIsSafe, Setup!NoApprovalLeft, Setup!BalanceSuffices,
                Setup!ReportIsFinal
    <2> QED BY <2>3, <2>4, <2>5, <2>6, <2>7 DEF SetupInv
<1> QED BY <1>2, <1>3

\* Others use the fee payer's lamports, the source tokens, the market or an oracle.
LEMMA DisturbanceInv ==
    ASSUME Setup!SetupAssumption, SetupInv, Setup!Disturbance
    PROVE  SetupInv'
<1>1. /\ Typed /\ NothingAhead /\ AllAwaited /\ RunOpen /\ UndisturbedOnCourse /\ Setup!RetryIsSafe
      /\ Setup!NoApprovalLeft
    BY DEF SetupInv, Setup!RetryIsSafe
<1>2. /\ accounts' \in Chain /\ accounts'.exists = accounts.exists
      /\ accounts'.initialized = accounts.initialized /\ accounts'.delegate = accounts.delegate
    <2>1. accounts \in Chain /\ accounts.lamports \in Nat /\ accounts.source \in Nat /\ Spent \in Nat
        BY <1>1, Numbers DEF Typed, Chain
    <2>2. CASE accounts.lamports >= Spent /\ accounts' = [accounts EXCEPT !.lamports = accounts.lamports - Spent]
        <3>1. accounts.lamports - Spent \in Nat
            BY <2>1, <2>2
        <3> QED BY <2>1, <2>2, <3>1 DEF Chain
    <2>3. CASE accounts.source >= 1 /\ accounts' = [accounts EXCEPT !.source = accounts.source - 1]
        <3>1. accounts.source - 1 \in Nat
            BY <2>1, <2>3
        <3> QED BY <2>1, <2>3, <3>1 DEF Chain
    <2>4. CASE accounts' = [accounts EXCEPT !.ready = ~accounts.ready]
        BY <2>1, <2>4 DEF Chain
    <2> QED BY <2>2, <2>3, <2>4 DEF Setup!Disturbance, Setup!Disturb
<1>3. /\ running' = [running EXCEPT !.excused = running.excused \/ Setup!Busy]
      /\ inflight' = inflight /\ told' = told
    BY DEF Setup!Disturbance, Setup!Disturb
<1>4. /\ running'.run = running.run /\ running'.message = running.message
      /\ running'.excused = (running.excused \/ Setup!Busy) /\ (Setup!Busy' <=> Setup!Busy)
    BY <1>1, <1>3 DEF Typed, Setup!Busy
<1>5. Typed'
    <2>1. running' \in [run : 0..MaxRuns, message : 0..3, excused : BOOLEAN]
        BY <1>1, <1>3 DEF Typed, Setup!Busy
    <2> QED BY <1>1, <1>2, <1>3, <2>1 DEF Typed
<1>6. NothingAhead' /\ AllAwaited' /\ RunOpen'
    BY <1>1, <1>2, <1>3, <1>4 DEF NothingAhead, AllAwaited, RunOpen, Unused, Awaited
<1>7. UndisturbedOnCourse'
    BY <1>4 DEF UndisturbedOnCourse
<1>8. Setup!RetryIsSafe'
    BY <1>1, <1>2, <1>3, <1>4 DEF Setup!RetryIsSafe, Setup!NoApprovalLeft, Setup!BalanceSuffices,
            Setup!ReportIsFinal
<1> QED BY <1>5, <1>6, <1>7, <1>8 DEF SetupInv

\* A message lands, whoever waits for it.
LEMMA LandSpares ==
    ASSUME Setup!SetupAssumption, Typed, Setup!NoApprovalLeft, NEW n \in Setup!Runs, NEW m \in 1..3, Setup!Land(n, m)
    PROVE  /\ Spares(n)
           /\ IF Setup!Executed(accounts, n, m) # {} THEN Landed(accounts, n, m, accounts')
              ELSE accounts'.initialized = accounts.initialized
<1>1. accounts \in Chain /\ accounts.delegate = Setup!NoDelegate /\ accounts.lamports \in Nat /\ Fee \in Nat
    BY Numbers DEF Typed, Setup!NoApprovalLeft, Chain
<1>2. CASE Setup!Executed(accounts, n, m) # {}
    <2>1. accounts' \in Setup!Executed(accounts, n, m)
        BY <1>2 DEF Setup!Land
    <2>2. Landed(accounts, n, m, accounts')
        BY <1>1, <2>1, Lands
    <2>3. ASSUME NEW k \in Setup!Runs, k # n
          PROVE  /\ k \in accounts'.initialized <=> k \in accounts.initialized
                 /\ \A a \in Setup!Accounts : <<k, a>> \in accounts'.exists <=> <<k, a>> \in accounts.exists
        BY <2>2, <2>3 DEF Landed
    <2> QED BY <1>2, <2>2, <2>3 DEF Spares, Landed, Setup!NoApprovalLeft
<1>3. CASE Setup!Executed(accounts, n, m) = {}
    <2>1. accounts' = [accounts EXCEPT !.lamports = IF Fee <= accounts.lamports THEN accounts.lamports - Fee
                                                                                ELSE accounts.lamports]
        BY <1>3 DEF Setup!Land
    <2>2. (IF Fee <= accounts.lamports THEN accounts.lamports - Fee ELSE accounts.lamports) \in Nat
        BY <1>1
    <2>3. /\ accounts' \in Chain /\ accounts'.exists = accounts.exists
          /\ accounts'.initialized = accounts.initialized /\ accounts'.delegate = Setup!NoDelegate
        BY <1>1, <2>1, <2>2 DEF Chain
    <2> QED BY <1>3, <2>3 DEF Spares, Setup!NoApprovalLeft
<1> QED BY <1>2, <1>3

\* The message that an undisturbed run waits for succeeds.
LEMMA OnCourseLands ==
    ASSUME Setup!SetupAssumption, SetupInv, Setup!Busy, ~running.excused
    PROVE  Setup!Executed(accounts, running.run, running.message) # {}
<1>1. Typed /\ OnCourse /\ RunOpen
    BY DEF SetupInv, UndisturbedOnCourse
<1>2. PICK n \in Setup!Runs, m \in 1..3 : n = running.run /\ m = running.message
    BY <1>1 DEF RunOpen, Typed, Setup!Busy
<1>3. accounts \in Chain /\ n \notin accounts.initialized
    BY <1>1, <1>2 DEF Typed, RunOpen
<1>4. /\ accounts.ready /\ Amount > 0 /\ accounts.source >= Amount /\ accounts.lamports >= Needed(m)
      /\ \A a \in Before(m) : <<n, a>> \in accounts.exists
      /\ \A a \in Setup!Accounts \ Before(m) : <<n, a>> \notin accounts.exists
    BY <1>1, <1>2 DEF OnCourse
<1>5. Price(m) <= accounts.lamports
    <2>1. Price(m) \in Nat /\ Needed(m) \in Nat /\ Price(m) <= Needed(m)
        BY Prices
    <2>2. accounts.lamports \in Nat
        BY <1>3 DEF Chain
    <2> QED BY <1>4, <2>1, <2>2
<1>6. CASE m = 1
    <2>1. \A a \in First : <<n, a>> \notin accounts.exists
        BY <1>4, <1>6, Numbers DEF Before
    <2>2. Fee + FirstRent <= accounts.lamports
        BY <1>5, <1>6 DEF Price
    <2>3. Paid(accounts, n, First, Fee + FirstRent) # {}
        BY <2>1, <2>2 DEF Paid, Setup!Result
    <2> QED BY <1>2, <1>3, <1>6, <2>3, ExecutedFirst
<1>7. CASE m = 2
    <2>1. \A a \in Second : <<n, a>> \notin accounts.exists
        BY <1>4, <1>7, Numbers DEF Before, First, Second
    <2>2. Fee + SecondRent <= accounts.lamports
        BY <1>5, <1>7 DEF Price
    <2>3. Paid(accounts, n, Second, Fee + SecondRent) # {}
        BY <2>1, <2>2 DEF Paid, Setup!Result
    <2> QED BY <1>2, <1>3, <1>7, <2>3, ExecutedSecond
<1>8. CASE m = 3
    <2>1. \A a \in Setup!Accounts : <<n, a>> \in accounts.exists
        BY <1>4, <1>8, Numbers DEF Before
    <2>2. Fee <= accounts.lamports
        BY <1>5, <1>8 DEF Price
    <2>3. Setup!Executed(accounts, n, 3) = {Deposited(accounts, n)}
        BY <1>3, <1>4, <2>1, <2>2, ExecutedThird DEF Setup!Result
    <2> QED BY <1>2, <1>8, <2>3
<1> QED BY <1>6, <1>7, <1>8

\* A message lands that no client waits for.
LEMMA LateLandInv ==
    ASSUME Setup!SetupAssumption, SetupInv, NEW n \in Setup!Runs, NEW m \in 1..3, Setup!Land(n, m),
           <<n, m>> # <<running.run, running.message>>
    PROVE  SetupInv'
<1>1. /\ Typed /\ NothingAhead /\ AllAwaited /\ RunOpen /\ Setup!RetryIsSafe /\ Setup!NoApprovalLeft
      /\ <<n, m>> \in inflight /\ inflight' = inflight \ {<<n, m>>} /\ told' = told
      /\ running' = [running EXCEPT !.excused = running.excused \/ Setup!Busy]
    BY DEF SetupInv, Setup!RetryIsSafe, Setup!Land
<1>2. /\ running'.run = running.run /\ running'.message = running.message
      /\ running'.excused = (running.excused \/ Setup!Busy) /\ (Setup!Busy' <=> Setup!Busy)
    BY <1>1 DEF Typed, Setup!Busy
<1>3. Spares(n) /\ \A k \in accounts.initialized : k \in accounts'.initialized
    BY <1>1, LandSpares DEF Landed
<1>4. n <= running.run /\ told[n] = "interrupted" /\ (Setup!Busy => n # running.run)
    BY <1>1 DEF AllAwaited, Awaited
<1>5. Typed'
    <2>1. running' \in [run : 0..MaxRuns, message : 0..3, excused : BOOLEAN]
        BY <1>1 DEF Typed, Setup!Busy
    <2> QED BY <1>1, <1>3, <2>1 DEF Typed, Spares
<1>6. NothingAhead'
    <2> SUFFICES ASSUME NEW k \in Setup!Runs, running.run < k PROVE Unused(k)'
        BY <1>2 DEF NothingAhead
    <2>1. running.run \in Nat /\ k \in Nat /\ n \in Nat
        BY <1>1, Numbers DEF Typed, Setup!Runs
    <2>2. k # n
        BY <1>4, <2>1
    <2> QED BY <1>1, <1>3, <2>2 DEF NothingAhead, Spares, Unused
<1>7. AllAwaited'
    BY <1>1, <1>2 DEF AllAwaited, Awaited
<1>8. RunOpen' /\ UndisturbedOnCourse'
    BY <1>1, <1>2, <1>3, <1>4 DEF RunOpen, UndisturbedOnCourse, Spares
<1>9. Setup!ReportIsFinal'
    <2> SUFFICES ASSUME NEW k \in Setup!Runs
        PROVE  /\ told[k] = "ok" => k \in accounts'.initialized
               /\ k \in accounts'.initialized => told[k] \in {"ok", "interrupted"}
        BY <1>1 DEF Setup!ReportIsFinal
    <2>1. CASE k = n
        BY <1>4, <2>1
    <2>2. CASE k # n
        BY <1>1, <1>3, <2>2 DEF Spares, Setup!RetryIsSafe, Setup!ReportIsFinal
    <2> QED BY <2>1, <2>2
<1>10. Setup!BalanceSuffices'
    BY <1>1, <1>2 DEF Setup!RetryIsSafe, Setup!BalanceSuffices
<1> QED BY <1>3, <1>5, <1>6, <1>7, <1>8, <1>9, <1>10 DEF SetupInv, Setup!RetryIsSafe, Spares

\* The message lands that the client waits for.
LEMMA OwnLandInv ==
    ASSUME Setup!SetupAssumption, SetupInv, NEW n \in Setup!Runs, NEW m \in 1..3, Setup!Land(n, m),
           n = running.run, m = running.message
    PROVE  SetupInv'
<1>1. /\ Typed /\ NothingAhead /\ AllAwaited /\ RunOpen /\ UndisturbedOnCourse /\ Setup!RetryIsSafe
      /\ Setup!NoApprovalLeft /\ Setup!Busy /\ n \notin accounts.initialized
    BY DEF SetupInv, Setup!RetryIsSafe, Setup!Busy, RunOpen
<1>2. Spares(n) /\ IF Setup!Executed(accounts, n, m) # {} THEN Landed(accounts, n, m, accounts')
                   ELSE accounts'.initialized = accounts.initialized
    BY <1>1, LandSpares
<1>3. Setup!Continue(Setup!Executed(accounts, n, m) # {}, inflight \ {<<n, m>>})
    BY DEF Setup!Land
<1>4. CASE Setup!Executed(accounts, n, m) = {}
    <2>1. running.excused
        BY <1>1, <1>4, OnCourseLands
    <2>2. Setup!Stops("failed", FALSE) /\ inflight' = inflight \ {<<n, m>>}
        BY <1>3, <1>4 DEF Setup!Continue
    <2>3. Ends("failed", FALSE)
        BY <1>1, <1>2, <1>4, <2>1, <2>2 DEF Ends
    <2> QED BY <2>3, EndsInv
<1>5. CASE Setup!Executed(accounts, n, m) # {} /\ m = 3
    <2>1. Setup!Stops("ok", FALSE) /\ inflight' = inflight \ {<<n, m>>}
        BY <1>3, <1>5 DEF Setup!Continue
    <2>2. n \in accounts'.initialized
        BY <1>2, <1>5 DEF Landed
    <2>3. Ends("ok", FALSE)
        BY <1>1, <1>2, <2>1, <2>2 DEF Ends
    <2> QED BY <2>3, EndsInv
<1>6. CASE Setup!Executed(accounts, n, m) # {} /\ m # 3
    <2>1. /\ running' = [running EXCEPT !.message = running.message + 1] /\ told' = told
          /\ inflight' = (inflight \ {<<n, m>>}) \cup {<<n, m + 1>>}
        BY <1>3, <1>6 DEF Setup!Continue
    <2>2. m \in 1..2 /\ m + 1 \in 2..3 /\ m + 1 # 0
        BY <1>6
    <2>3. /\ running'.run = n /\ running'.message = m + 1 /\ running'.excused = running.excused /\ Setup!Busy'
        BY <1>1, <2>1, <2>2 DEF Typed, Setup!Busy
    <2>4. Landed(accounts, n, m, accounts') /\ accounts'.initialized = accounts.initialized
        BY <1>2, <1>6 DEF Landed
    <2>5. Typed'
        <3>1. running' \in [run : 0..MaxRuns, message : 0..3, excused : BOOLEAN]
            BY <1>1, <2>1, <2>2 DEF Typed
        <3>2. inflight' \subseteq Setup!Runs \X (1..3)
            BY <1>1, <2>1, <2>2 DEF Typed
        <3> QED BY <1>1, <1>2, <2>1, <3>1, <3>2 DEF Typed, Spares
    <2>6. NothingAhead'
        <3> SUFFICES ASSUME NEW k \in Setup!Runs, n < k PROVE Unused(k)'
            BY <2>3 DEF NothingAhead
        <3>1. k # n
            BY DEF Setup!Runs
        <3> QED BY <1>1, <1>2, <3>1 DEF NothingAhead, Spares, Unused
    <2>7. AllAwaited'
        <3> SUFFICES ASSUME NEW k \in Setup!Runs, NEW j \in 1..3, <<k, j>> \in inflight'
            PROVE  Awaited(k, j)'
            BY DEF AllAwaited
        <3>1. CASE k = n /\ j = m + 1
            BY <2>3, <3>1 DEF Awaited, Setup!Runs
        <3>2. CASE <<k, j>> \in inflight /\ <<k, j>> # <<n, m>>
            BY <1>1, <2>1, <2>3, <3>2 DEF AllAwaited, Awaited
        <3> QED BY <2>1, <3>1, <3>2
    <2>8. RunOpen'
        BY <1>1, <2>3, <2>4 DEF RunOpen
    <2>9. UndisturbedOnCourse'
        <3> SUFFICES ASSUME ~running.excused PROVE OnCourse'
            BY <2>3 DEF UndisturbedOnCourse
        <3>1. OnCourse
            BY <1>1 DEF UndisturbedOnCourse
        <3>2. inflight' = {<<n, m + 1>>}
            BY <2>1, <3>1 DEF OnCourse
        <3>3. /\ accounts'.ready /\ Amount > 0 /\ accounts'.source >= Amount
              /\ accounts'.exists = accounts.exists \cup {<<n, a>> : a \in Creates(m)}
              /\ accounts'.lamports = accounts.lamports - Price(m) /\ accounts.lamports >= Needed(m)
            BY <1>6, <2>4, <3>1 DEF OnCourse, Landed
        <3>4. accounts'.lamports >= Needed(m + 1)
            <4>1. Price(m) \in Nat /\ Needed(m) \in Nat /\ Needed(m) = Price(m) + Needed(m + 1)
                  /\ Needed(m + 1) \in Nat /\ accounts.lamports \in Nat
                BY <1>1, <2>2, Prices DEF Typed, Chain
            <4> QED BY <3>3, <4>1
        <3>5. Before(m + 1) = Before(m) \cup Creates(m)
            <4>1. CASE m = 1
                BY <4>1 DEF Before, Creates
            <4>2. CASE m = 2
                BY <4>2 DEF Before, Creates
            <4> QED BY <2>2, <4>1, <4>2
        <3>6. \A a \in Before(m + 1) : <<n, a>> \in accounts'.exists
            BY <3>1, <3>3, <3>5 DEF OnCourse
        <3>7. \A a \in Setup!Accounts \ Before(m + 1) : <<n, a>> \notin accounts'.exists
            BY <3>1, <3>3, <3>5 DEF OnCourse
        <3> QED BY <2>3, <3>2, <3>3, <3>4, <3>6, <3>7 DEF OnCourse
    <2>10. Setup!RetryIsSafe'
        BY <1>1, <1>2, <2>1, <2>3, <2>4 DEF Setup!RetryIsSafe, Setup!BalanceSuffices,
                Setup!ReportIsFinal, Spares
    <2> QED BY <2>5, <2>6, <2>7, <2>8, <2>9, <2>10 DEF SetupInv
<1> QED BY <1>4, <1>5, <1>6

\* Every step keeps the invariant.
LEMMA NextSetupInv ==
    ASSUME Setup!SetupAssumption, SetupInv, [Setup!Next]_setupVars
    PROVE  SetupInv'
<1>1. CASE UNCHANGED setupVars
    BY <1>1 DEF setupVars, SetupInv, Typed, NothingAhead, AllAwaited, RunOpen, UndisturbedOnCourse,
                Setup!RetryIsSafe, Unused, Awaited, OnCourse, Setup!Busy, Setup!NoApprovalLeft,
                Setup!BalanceSuffices, Setup!ReportIsFinal
<1>2. ASSUME NEW n \in Setup!Runs, NEW m \in 1..3, Setup!Land(n, m) PROVE SetupInv'
    <2>1. CASE n = running.run /\ m = running.message
        BY <1>2, <2>1, OwnLandInv
    <2>2. CASE <<n, m>> # <<running.run, running.message>>
        BY <1>2, <2>2, LateLandInv
    <2> QED BY <2>1, <2>2
<1>3. ASSUME NEW n \in Setup!Runs, NEW m \in 1..3, Setup!Expire(n, m) PROVE SetupInv'
    BY <1>3, ExpireInv
<1>4. CASE Setup!Deliver
    BY <1>2, <1>3, <1>4 DEF Setup!Deliver
<1> QED BY <1>1, <1>4, AddReserveInv, DryRunInv, InterruptInv, DisturbanceInv DEF Setup!Next

(***************************************************************************)
(* add-reserve can be run again however a run ends, for every rent, fee    *)
(* and balance and any number of runs: no approval is left behind, what    *)
(* check_fee_payer_balance asks for is enough, and what the user was told  *)
(* is final.                                                               *)
(***************************************************************************)
THEOREM RetriesAreSafe == CommandLineSpec => []RetryIsSafe
<1>1. Setup!SetupAssumption
    BY CommandLineAssumption
<1>2. CommandLineInit => SetupInv
    BY <1>1, InitSetupInv DEF CommandLineInit
<1>3. [CommandLineNext]_commandLineVars => [Setup!Next]_setupVars
    BY DEF CommandLineNext, SettingsStep, AddReserveStep, ObligationStep, commandLineVars
<1>4. ASSUME SetupInv, [CommandLineNext]_commandLineVars PROVE SetupInv'
    <2>1. [Setup!Next]_setupVars
        BY <1>3, <1>4
    <2> QED BY <1>1, <1>4, <2>1, NextSetupInv
<1>5. SetupInv => RetryIsSafe
    BY DEF SetupInv, RetryIsSafe
<1> QED BY <1>2, <1>4, <1>5, PTL DEF CommandLineSpec

-----------------------------------------------------------------------------
(* Positions.                                                              *)

\* a position, of any amount
Spot == [reserve : Reserves, amount : Nat]

\* The numbers of reserves are positive.
LEMMA ReserveNumbers == Reserves \subseteq Nat \ {0}
    BY CommandLineAssumption DEF Position!PositionAssumption

\* A set of natural numbers that is not empty holds its minimum, the least.
LEMMA LeastIn ==
    ASSUME NEW S \in SUBSET Nat, S # {}
    PROVE  Position!Min(S) \in S /\ \A y \in S : Position!Min(S) <= y
<1>1. \E x \in S : \A y \in S : ~(<<y, x>> \in OpToRel(<, Nat))
    BY WFMin, NatLessThanWellFounded
<1>2. PICK x \in S : \A y \in S : ~(y < x)
    BY <1>1 DEF OpToRel
<1>3. \A y \in S : x <= y
    BY <1>2
<1> QED BY <1>3 DEF Position!Min

\* The place of a reserve in a list is the first entry with it, 0 for none.
LEMMA IndexPlace ==
    ASSUME NEW s \in Seq(Spot), NEW r, NEW i, i = Position!IndexOf(s, r)
    PROVE  \/ i = 0 /\ \A j \in 1..Len(s) : s[j].reserve # r
           \/ i \in 1..Len(s) /\ s[i].reserve = r /\ \A j \in 1..Len(s) : s[j].reserve = r => i <= j
<1>1. PICK I : I = {j \in 1..Len(s) : s[j].reserve = r}
    OBVIOUS
<1>2. i = IF I # {} THEN Position!Min(I) ELSE 0
    BY <1>1 DEF Position!IndexOf, Position!SelectInSeq
<1>3. CASE I = {}
    BY <1>1, <1>2, <1>3
<1>4. CASE I # {}
    <2>1. I \in SUBSET Nat
        BY <1>1
    <2>2. i \in I /\ \A j \in I : i <= j
        BY <1>2, <1>4, <2>1, LeastIn
    <2> QED BY <1>1, <2>2
<1> QED BY <1>3, <1>4

\* A list without one of its entries.
LEMMA RemoveAtSpots ==
    ASSUME NEW s \in Seq(Spot), NEW i \in 1..Len(s)
    PROVE  Position!RemoveAt(s, i) \in Seq(Spot)
<1>1. PICK n \in Nat : n = Len(s)
    OBVIOUS
<1>2. SubSeq(s, 1, i - 1) \in Seq(Spot)
    BY <1>1
<1>3. SubSeq(s, i + 1, Len(s)) \in Seq(Spot)
    BY <1>1
<1> QED BY <1>2, <1>3 DEF Position!RemoveAt

\* A position that loses a part of its amount.
LEMMA ReducedSpots ==
    ASSUME NEW s \in Seq(Spot), NEW i \in 1..Len(s), NEW n \in 1..s[i].amount
    PROVE  Position!Reduced(s, i, n) \in Seq(Spot)
<1>1. CASE s[i].amount = n
    BY <1>1, RemoveAtSpots DEF Position!Reduced
<1>2. CASE s[i].amount # n
    <2>1. PICK p \in Spot : p = s[i]
        OBVIOUS
    <2>2. [p EXCEPT !.amount = p.amount - n] \in Spot
        <3>1. n \in 1..p.amount /\ p.amount \in Nat
            BY <2>1 DEF Spot
        <3>2. p.amount - n \in Nat
            BY <3>1
        <3> QED BY <3>2 DEF Spot
    <2>3. Position!Reduced(s, i, n) = [s EXCEPT ![i] = [p EXCEPT !.amount = p.amount - n]]
        BY <1>2, <2>1 DEF Position!Reduced
    <2> QED BY <2>2, <2>3
<1> QED BY <1>1, <1>2

\* The recursion of Retained holds of g up to n.
Retains(s, n, g) ==
    \A k \in 0..n : g[k] = IF k = 0 THEN <<>>
                           ELSE IF Position!IsDebt(s[k]) THEN Append(g[k - 1], s[k])
                           ELSE g[k - 1]

\* g is the function that Retained defines.
RetainedLoop(s, n, g) ==
    g = [k \in 0..n |-> IF k = 0 THEN <<>>
                        ELSE IF Position!IsDebt(s[k]) THEN Append(g[k - 1], s[k])
                        ELSE g[k - 1]]

\* There is one.
LEMMA RetainedLoopExists ==
    ASSUME NEW s, NEW N \in Nat
    PROVE  \E g : RetainedLoop(s, N, g)
<1> DEFINE P == {n \in Nat : \E g : Retains(s, n, g)}
<1>1. 0 \in P
    <2>1. Retains(s, 0, [k \in 0..0 |-> <<>>])
        BY DEF Retains
    <2> QED BY <2>1
<1>2. ASSUME NEW n \in P PROVE n + 1 \in P
    <2>1. PICK g : Retains(s, n, g)
        BY <1>2
    <2>2. PICK h : h = [k \in 0..(n + 1) |-> IF k <= n THEN g[k]
                                            ELSE IF Position!IsDebt(s[k]) THEN Append(g[k - 1], s[k])
                                            ELSE g[k - 1]]
        OBVIOUS
    <2>3. \A k \in 0..n : h[k] = g[k]
        BY <2>2
    <2>4. h[n + 1] = IF Position!IsDebt(s[n + 1]) THEN Append(g[n], s[n + 1]) ELSE g[n]
        BY <2>2
    <2>5. Retains(s, n + 1, h)
        <3> SUFFICES ASSUME NEW k \in 0..(n + 1)
            PROVE  h[k] = IF k = 0 THEN <<>>
                    ELSE IF Position!IsDebt(s[k]) THEN Append(h[k - 1], s[k]) ELSE h[k - 1]
            BY DEF Retains
        <3>1. CASE k = n + 1
            BY <2>3, <2>4, <3>1
        <3>2. CASE k \in 1..n
            BY <2>1, <2>3, <3>2 DEF Retains
        <3>3. CASE k = 0
            BY <2>1, <2>3, <3>3 DEF Retains
        <3> QED BY <3>1, <3>2, <3>3
    <2> QED BY <2>5
<1>3. N \in P
    BY <1>1, <1>2, NatSetInduction
<1>4. PICK g : Retains(s, N, g)
    BY <1>3
<1>5. PICK h : h = [n \in 0..N |-> g[n]]
    OBVIOUS
<1>6. \A n \in 0..N : h[n] = IF n = 0 THEN <<>>
                    ELSE IF Position!IsDebt(s[n]) THEN Append(h[n - 1], s[n]) ELSE h[n - 1]
    <2> SUFFICES ASSUME NEW n \in 0..N
        PROVE  h[n] = IF n = 0 THEN <<>>
                    ELSE IF Position!IsDebt(s[n]) THEN Append(h[n - 1], s[n]) ELSE h[n - 1]
        OBVIOUS
    <2>1. CASE n = 0
        BY <1>4, <1>5, <2>1 DEF Retains
    <2>2. CASE n # 0
        <3>1. n - 1 \in 0..N
            BY <2>2
        <3>2. h[n] = g[n] /\ h[n - 1] = g[n - 1]
            BY <1>5, <3>1
        <3> QED BY <1>4, <2>2, <3>2 DEF Retains
    <2> QED BY <2>1, <2>2
<1>7. RetainedLoop(s, N, h)
    BY <1>5, <1>6 DEF RetainedLoop
<1> QED BY <1>7

\* what instruction i makes of the states W
Stepped(W, i) == UNION {Position!Instruct(w, i) : w \in W}

\* The recursion of Executed holds of g up to n.
Executes(b, s, n, g) ==
    \A k \in 0..n : g[k] = IF k = 0 THEN {b} ELSE Stepped(g[k - 1], s[k])

\* g is the function that Executed defines.
ExecutedLoop(b, s, n, g) ==
    g = [k \in 0..n |-> IF k = 0 THEN {b} ELSE Stepped(g[k - 1], s[k])]

\* There is one.
LEMMA ExecutedLoopExists ==
    ASSUME NEW b, NEW s, NEW N \in Nat
    PROVE  \E g : ExecutedLoop(b, s, N, g)
<1> DEFINE P == {n \in Nat : \E g : Executes(b, s, n, g)}
<1>1. 0 \in P
    <2>1. Executes(b, s, 0, [k \in 0..0 |-> {b}])
        BY DEF Executes
    <2> QED BY <2>1
<1>2. ASSUME NEW n \in P PROVE n + 1 \in P
    <2>1. PICK g : Executes(b, s, n, g)
        BY <1>2
    <2>2. PICK h : h = [k \in 0..(n + 1) |-> IF k <= n THEN g[k]
                                            ELSE Stepped(g[k - 1], s[k])]
        OBVIOUS
    <2>3. \A k \in 0..n : h[k] = g[k]
        BY <2>2
    <2>4. h[n + 1] = Stepped(g[n], s[n + 1])
        BY <2>2
    <2>5. Executes(b, s, n + 1, h)
        <3> SUFFICES ASSUME NEW k \in 0..(n + 1)
            PROVE  h[k] = IF k = 0 THEN {b} ELSE Stepped(h[k - 1], s[k])
            BY DEF Executes
        <3>1. CASE k = n + 1
            BY <2>3, <2>4, <3>1
        <3>2. CASE k \in 1..n
            BY <2>1, <2>3, <3>2 DEF Executes
        <3>3. CASE k = 0
            BY <2>1, <2>3, <3>3 DEF Executes
        <3> QED BY <3>1, <3>2, <3>3
    <2> QED BY <2>5
<1>3. N \in P
    BY <1>1, <1>2, NatSetInduction
<1>4. PICK g : Executes(b, s, N, g)
    BY <1>3
<1>5. PICK h : h = [n \in 0..N |-> g[n]]
    OBVIOUS
<1>6. \A n \in 0..N : h[n] = IF n = 0 THEN {b} ELSE Stepped(h[n - 1], s[n])
    <2> SUFFICES ASSUME NEW n \in 0..N
        PROVE  h[n] = IF n = 0 THEN {b} ELSE Stepped(h[n - 1], s[n])
        OBVIOUS
    <2>1. CASE n = 0
        BY <1>4, <1>5, <2>1 DEF Executes
    <2>2. CASE n # 0
        <3>1. n - 1 \in 0..N
            BY <2>2
        <3>2. h[n] = g[n] /\ h[n - 1] = g[n - 1]
            BY <1>5, <3>1
        <3> QED BY <1>4, <2>2, <3>2 DEF Executes
    <2> QED BY <2>1, <2>2
<1>7. ExecutedLoop(b, s, N, h)
    BY <1>5, <1>6 DEF ExecutedLoop
<1> QED BY <1>7

\* t is what is kept of the first n entries of s
Keeps(s, n, t) ==
    /\ t \in Seq(Spot)
    /\ \A i \in 1..Len(t) : \E j \in 1..n : t[i] = s[j] /\ s[j].amount > 0
    /\ \A j \in 1..n : s[j].amount > 0 => \E i \in 1..Len(t) : t[i] = s[j]
    /\ n > 0 /\ s[1].amount > 0 => Len(t) > 0 /\ t[1] = s[1]

\* What retain keeps: the entries that are not empty, the first one first.
LEMMA RetainedKeeps ==
    ASSUME NEW s \in Seq(Spot)
    PROVE  Keeps(s, Len(s), Position!Retained(s))
<1>0. Len(s) \in Nat /\ \A i \in 1..Len(s) : s[i] \in Spot
    OBVIOUS
<1>1. PICK g : RetainedLoop(s, Len(s), g) /\ Position!Retained(s) = g[Len(s)]
    <2>1. \E g : RetainedLoop(s, Len(s), g)
        BY <1>0, RetainedLoopExists
    <2> QED BY <2>1, Zenon DEF Position!Retained, RetainedLoop
<1>2. \A n \in 0..Len(s) : g[n] = IF n = 0 THEN <<>>
                                  ELSE IF s[n].amount > 0 THEN Append(g[n - 1], s[n]) ELSE g[n - 1]
    BY <1>1 DEF RetainedLoop, Position!IsDebt
<1> DEFINE P == {n \in Nat : n <= Len(s) => Keeps(s, n, g[n])}
<1>3. 0 \in P
    <2>1. g[0] = <<>>
        BY <1>0, <1>2
    <2>2. <<>> \in Seq(Spot) /\ Len(<<>>) = 0
        OBVIOUS
    <2>3. Keeps(s, 0, <<>>)
        BY <2>2 DEF Keeps
    <2> QED BY <2>1, <2>3
<1>4. ASSUME NEW n \in P PROVE n + 1 \in P
    <2> SUFFICES ASSUME n + 1 <= Len(s) PROVE Keeps(s, n + 1, g[n + 1])
        OBVIOUS
    <2>1. n \in Nat /\ Keeps(s, n, g[n]) /\ n + 1 \in 1..Len(s) /\ s[n + 1] \in Spot
        BY <1>0, <1>4
    <2>2. g[n + 1] = IF s[n + 1].amount > 0 THEN Append(g[n], s[n + 1]) ELSE g[n]
        BY <1>0, <1>2, <2>1
    <2>3. CASE ~(s[n + 1].amount > 0)
        <3>1. g[n + 1] = g[n]
            BY <2>2, <2>3
        <3>2. \A j \in 1..(n + 1) : s[j].amount > 0 => j \in 1..n
            BY <2>1, <2>3
        <3>3. Keeps(s, n + 1, g[n])
            BY <2>1, <3>2 DEF Keeps
        <3> QED BY <3>1, <3>3
    <2>4. CASE s[n + 1].amount > 0
        <3>1. PICK u, t : u = g[n] /\ t = Append(u, s[n + 1]) /\ t = g[n + 1]
            BY <2>2, <2>4
        <3>2. u \in Seq(Spot) /\ Keeps(s, n, u)
            BY <2>1, <3>1 DEF Keeps
        <3>3. /\ t \in Seq(Spot) /\ Len(t) = Len(u) + 1 /\ Len(u) \in Nat
              /\ t[Len(u) + 1] = s[n + 1] /\ \A k \in 1..Len(u) : t[k] = u[k]
            <4>1. PICK e \in Spot : e = s[n + 1] /\ t = Append(u, e)
                BY <2>1, <3>1
            <4> QED BY <3>2, <4>1
        <3>4. ASSUME NEW i \in 1..Len(t)
              PROVE  \E j \in 1..(n + 1) : t[i] = s[j] /\ s[j].amount > 0
            <4>1. CASE i = Len(u) + 1
                BY <2>1, <2>4, <3>3, <4>1
            <4>2. CASE i \in 1..Len(u)
                <5>1. PICK j \in 1..n : u[i] = s[j] /\ s[j].amount > 0
                    BY <3>2, <4>2 DEF Keeps
                <5>2. j \in 1..(n + 1)
                    BY <2>1
                <5> QED BY <3>3, <4>2, <5>1, <5>2
            <4> QED BY <3>3, <4>1, <4>2
        <3>5. ASSUME NEW j \in 1..(n + 1), s[j].amount > 0
              PROVE  \E i \in 1..Len(t) : t[i] = s[j]
            <4>1. CASE j = n + 1
                BY <3>3, <4>1
            <4>2. CASE j \in 1..n
                <5>1. PICK i \in 1..Len(u) : u[i] = s[j]
                    BY <3>2, <3>5, <4>2 DEF Keeps
                <5>2. i \in 1..Len(t) /\ t[i] = s[j]
                    BY <3>3, <5>1
                <5> QED BY <5>2
            <4> QED BY <2>1, <4>1, <4>2
        <3>6. ASSUME s[1].amount > 0 PROVE Len(t) > 0 /\ t[1] = s[1]
            <4>1. CASE n = 0
                <5>1. u = <<>>
                    BY <1>0, <1>2, <3>1, <4>1
                <5> QED BY <3>3, <4>1, <5>1
            <4>2. CASE n > 0
                <5>1. Len(u) > 0 /\ u[1] = s[1]
                    BY <3>2, <3>6, <4>2 DEF Keeps
                <5> QED BY <3>3, <5>1
            <4> QED BY <2>1, <4>1, <4>2
        <3>7. Keeps(s, n + 1, t)
            BY <3>3, <3>4, <3>5, <3>6 DEF Keeps
        <3> QED BY <3>1, <3>7
    <2> QED BY <2>3, <2>4
<1>5. Len(s) \in P
    BY <1>0, <1>3, <1>4, NatSetInduction
<1> QED BY <1>0, <1>1, <1>5

\* entry i is the heaviest debt among the first n
Tops(s, n, i) ==
    i \in 1..n /\ s[i].amount > 0 /\ \A j \in 1..n : s[j].amount > 0 => s[j].reserve <= s[i].reserve

\* Where there are debts, one is the heaviest.
LEMMA HeaviestExists ==
    ASSUME NEW s \in Seq(Spot), \E i \in 1..Len(s) : s[i].amount > 0
    PROVE  \E i : Tops(s, Len(s), i)
<1>0. /\ Len(s) \in Nat
      /\ \A i \in 1..Len(s) : s[i].amount \in Nat /\ s[i].reserve \in Nat
    <2>1. \A p \in Spot : p.amount \in Nat /\ p.reserve \in Nat
        BY ReserveNumbers DEF Spot
    <2> QED BY <2>1
<1> DEFINE P == {n \in Nat : n <= Len(s) /\ (\E i \in 1..n : s[i].amount > 0)
                                 => \E i : Tops(s, n, i)}
<1>1. 0 \in P
    OBVIOUS
<1>2. ASSUME NEW n \in P PROVE n + 1 \in P
    <2> SUFFICES ASSUME n + 1 <= Len(s), \E i \in 1..(n + 1) : s[i].amount > 0
        PROVE  \E i : Tops(s, n + 1, i)
        OBVIOUS
    <2>0. n \in Nat /\ n + 1 \in 1..Len(s) /\ 1..n \subseteq 1..Len(s)
        BY <1>0
    <2>1. CASE \A i \in 1..n : ~(s[i].amount > 0)
        <3>1. Tops(s, n + 1, n + 1)
            BY <1>0, <2>0, <2>1 DEF Tops
        <3> QED BY <3>1
    <2>2. CASE \E i \in 1..n : s[i].amount > 0
        <3>1. PICK i : Tops(s, n, i)
            BY <1>2, <2>0, <2>2
        <3>2. i \in 1..n /\ i \in 1..(n + 1) /\ s[i].reserve \in Nat /\ s[n + 1].reserve \in Nat
            BY <1>0, <2>0, <3>1 DEF Tops
        <3>3. CASE s[n + 1].amount > 0 /\ s[i].reserve < s[n + 1].reserve
            <4>1. ASSUME NEW j \in 1..(n + 1), s[j].amount > 0 PROVE s[j].reserve <= s[n + 1].reserve
                <5>1. CASE j = n + 1
                    BY <3>2, <5>1
                <5>2. CASE j \in 1..n
                    <6>1. s[j].reserve <= s[i].reserve /\ s[j].reserve \in Nat
                        BY <1>0, <2>0, <3>1, <4>1, <5>2 DEF Tops
                    <6> QED BY <3>2, <3>3, <6>1
                <5> QED BY <2>0, <5>1, <5>2
            <4>2. Tops(s, n + 1, n + 1)
                BY <2>0, <3>3, <4>1 DEF Tops
            <4> QED BY <4>2
        <3>4. CASE ~(s[n + 1].amount > 0 /\ s[i].reserve < s[n + 1].reserve)
            <4>1. ASSUME NEW j \in 1..(n + 1), s[j].amount > 0 PROVE s[j].reserve <= s[i].reserve
                <5>1. CASE j = n + 1
                    BY <3>2, <3>4, <4>1, <5>1
                <5>2. CASE j \in 1..n
                    BY <3>1, <4>1, <5>2 DEF Tops
                <5> QED BY <2>0, <5>1, <5>2
            <4>2. Tops(s, n + 1, i)
                BY <3>1, <3>2, <4>1 DEF Tops
            <4> QED BY <4>2
        <3> QED BY <3>3, <3>4
    <2> QED BY <2>1, <2>2
<1>3. Len(s) \in P
    BY <1>0, <1>1, <1>2, NatSetInduction
<1> QED BY <1>0, <1>3

\* The lists after a refresh: no empty positions, and the heaviest debt first.
LEMMA HeaviestFirstList ==
    ASSUME NEW s \in Seq(Spot), NEW t, t = Position!HeaviestFirst(s)
    PROVE  /\ t \in Seq(Spot)
           /\ (\A i \in 1..Len(s) : ~(s[i].amount > 0)) => t = <<>>
           /\ \A r : /\ \E i \in 1..Len(s) : s[i].amount > 0 /\ s[i].reserve = r
                     /\ \A i \in 1..Len(s) : s[i].amount > 0 => s[i].reserve <= r
                     => Len(t) > 0 /\ t[1].reserve = r /\ t[1].amount > 0
<1>0. /\ Len(s) \in Nat /\ DOMAIN s = 1..Len(s)
      /\ \A i \in 1..Len(s) : s[i] \in Spot /\ s[i].amount \in Nat /\ s[i].reserve \in Nat
    <2>1. \A p \in Spot : p.amount \in Nat /\ p.reserve \in Nat
        BY ReserveNumbers DEF Spot
    <2> QED BY <2>1
<1>a. PICK debts : debts = {i \in DOMAIN s : Position!IsDebt(s[i])}
    OBVIOUS
<1>1. debts = {i \in 1..Len(s) : s[i].amount > 0}
    BY <1>0, <1>a DEF Position!IsDebt
<1>2. PICK top : top = CHOOSE i \in debts : \A j \in debts : s[j].reserve <= s[i].reserve
    OBVIOUS
<1>3. t = Position!Retained(IF debts = {} THEN s
                            ELSE [i \in DOMAIN s |-> s[IF i = 1 THEN top
                                                       ELSE IF i = top THEN 1 ELSE i]])
    <2> DEFINE D == {i \in DOMAIN s : Position!IsDebt(s[i])}
               T == CHOOSE i \in D : \A j \in D : s[j].reserve <= s[i].reserve
    <2>1. t = Position!Retained(IF D = {} THEN s
                  ELSE [i \in DOMAIN s |-> s[IF i = 1 THEN T ELSE IF i = T THEN 1 ELSE i]])
        BY Zenon DEF Position!HeaviestFirst
    <2>2. D = debts
        BY <1>a
    <2>3. T = top
        BY <1>2, <2>2, Zenon
    <2> HIDE DEF D, T
    <2> QED BY <2>1, <2>2, <2>3, Zenon
<1>4. CASE debts = {}
    <2>1. Keeps(s, Len(s), t)
        BY <1>3, <1>4, RetainedKeeps
    <2>2. t \in Seq(Spot) /\ ~(1 \in 1..Len(t))
        BY <1>0, <1>1, <1>4, <2>1 DEF Keeps
    <2>3. t = <<>>
        BY <2>2
    <2> QED BY <1>1, <1>4, <2>2, <2>3
<1>5. CASE debts # {}
    <2>1. \E i \in debts : \A j \in debts : s[j].reserve <= s[i].reserve
        <3>1. PICK i : Tops(s, Len(s), i)
            BY <1>1, <1>5, HeaviestExists
        <3> QED BY <1>1, <3>1 DEF Tops
    <2>2. top \in debts /\ \A j \in debts : s[j].reserve <= s[top].reserve
        BY <1>2, <2>1
    <2>3. PICK u : u = [i \in 1..Len(s) |-> s[IF i = 1 THEN top ELSE IF i = top THEN 1 ELSE i]]
        OBVIOUS
    <2>4. top \in 1..Len(s) /\ 1 \in 1..Len(s) /\ s[top].amount > 0
        BY <1>0, <1>1, <2>2
    <2>5. \A i \in 1..Len(s) : u[i] \in Spot
        BY <1>0, <2>3, <2>4
    <2>6. u \in Seq(Spot) /\ Len(u) = Len(s) /\ u[1] = s[top]
        BY <1>0, <2>3, <2>4, <2>5
    <2>7. t = Position!Retained(u)
        BY <1>0, <1>3, <1>5, <2>3
    <2>8. Keeps(u, Len(u), t)
        BY <2>6, <2>7, RetainedKeeps
    <2>9. t \in Seq(Spot) /\ Len(t) > 0 /\ t[1] = s[top]
        BY <1>0, <2>4, <2>6, <2>8 DEF Keeps
    <2>10. ASSUME NEW r, \E i \in 1..Len(s) : s[i].amount > 0 /\ s[i].reserve = r,
                  \A i \in 1..Len(s) : s[i].amount > 0 => s[i].reserve <= r
           PROVE  s[top].reserve = r
        <3>1. PICK i \in 1..Len(s) : s[i].amount > 0 /\ s[i].reserve = r
            BY <2>10
        <3>2. r <= s[top].reserve /\ s[top].reserve <= r
            BY <1>1, <2>2, <2>4, <2>10, <3>1
        <3>3. r \in Nat /\ s[top].reserve \in Nat
            BY <1>0, <2>4, <3>1
        <3> QED BY <3>2, <3>3
    <2> QED BY <1>1, <1>5, <2>4, <2>9, <2>10
<1> QED BY <1>4, <1>5

-----------------------------------------------------------------------------
(* Transactions on the positions.                                          *)

\* what a reserve may have for its oracle
AnyFeed == Feeds \cup {CHOOSE f \in Feeds : TRUE}

\* what is on the chain
Ledger ==
    [deposits : Seq(Spot), borrows : Seq(Spot), unhealthy : BOOLEAN,
     feed : [Reserves -> AnyFeed], wallet : [Reserves -> Nat],
     ata : SUBSET (Reserves \X Position!Kinds)]

\* and what a transaction works on
Working ==
    [deposits : Seq(Spot), borrows : Seq(Spot), unhealthy : BOOLEAN,
     feed : [Reserves -> AnyFeed], wallet : [Reserves -> Nat],
     ata : SUBSET (Reserves \X Position!Kinds), fresh : SUBSET Reserves,
     payable : SUBSET Reserves, obligation_fresh : BOOLEAN]

\* the reserves F refreshed, those of Y able to pay
Priced(w, F, Y) ==
    [deposits |-> w.deposits, borrows |-> w.borrows, unhealthy |-> w.unhealthy,
     feed |-> w.feed, wallet |-> w.wallet, ata |-> w.ata,
     fresh |-> F, payable |-> Y, obligation_fresh |-> FALSE]

\* and the obligation
Refreshed(w, F, Y) ==
    [deposits |-> Position!Retained(w.deposits), borrows |-> Position!HeaviestFirst(w.borrows),
     unhealthy |-> w.unhealthy, feed |-> w.feed, wallet |-> w.wallet, ata |-> w.ata,
     fresh |-> F, payable |-> Y, obligation_fresh |-> TRUE]

\* Refreshing one more reserve.
LEMMA PricedStep ==
    ASSUME NEW w, NEW F, NEW Y, NEW r, NEW f
    PROVE  Position!RefreshReserve(Priced(w, F, Y), r, f)
               = IF f = w.feed[r] THEN {Priced(w, F \cup {r}, Y)} ELSE {}
<1>1. PICK p : p = Priced(w, F, Y)
    OBVIOUS
<1>a. PICK G : G = F \cup {r}
    OBVIOUS
<1>2. p.feed = w.feed /\ p.fresh = F
    BY <1>1 DEF Priced
<1>3. [p EXCEPT !.fresh = G] = Priced(w, G, Y)
    <2>1. PICK no : no = FALSE
        OBVIOUS
    <2>2. p = [deposits |-> w.deposits, borrows |-> w.borrows, unhealthy |-> w.unhealthy,
               feed |-> w.feed, wallet |-> w.wallet, ata |-> w.ata,
               fresh |-> F, payable |-> Y, obligation_fresh |-> no]
        BY <1>1, <2>1, Zenon DEF Priced
    <2>3. [p EXCEPT !.fresh = G]
              = [deposits |-> w.deposits, borrows |-> w.borrows, unhealthy |-> w.unhealthy,
                 feed |-> w.feed, wallet |-> w.wallet, ata |-> w.ata,
                 fresh |-> G, payable |-> Y, obligation_fresh |-> no]
        BY <2>2, SMT
    <2> QED BY <2>1, <2>3, Zenon DEF Priced
<1> QED BY <1>1, <1>a, <1>2, <1>3 DEF Position!RefreshReserve, Position!Result

\* Refreshing the obligation.
LEMMA RefreshedStep ==
    ASSUME NEW w, NEW F, NEW Y, NEW R
    PROVE  Position!RefreshObligation(Priced(w, F, Y), R)
               = Position!Result(R = Position!ReservesRead(w) /\ Position!Range(R) \subseteq F,
                                 Refreshed(w, F, Y))
<1>1. PICK p : p = Priced(w, F, Y)
    OBVIOUS
<1>2. p.deposits = w.deposits /\ p.borrows = w.borrows /\ p.fresh = F
    BY <1>1 DEF Priced
<1>3. [[p EXCEPT !.borrows = Position!HeaviestFirst(w.borrows),
                 !.deposits = Position!Retained(w.deposits)] EXCEPT !.obligation_fresh = TRUE]
          = Refreshed(w, F, Y)
    <2>1. PICK d, b : d = Position!Retained(w.deposits) /\ b = Position!HeaviestFirst(w.borrows)
        OBVIOUS
    <2>2. PICK q : q = [p EXCEPT !.borrows = b]
        OBVIOUS
    <2>3. q = [deposits |-> w.deposits, borrows |-> b, unhealthy |-> w.unhealthy,
               feed |-> w.feed, wallet |-> w.wallet, ata |-> w.ata,
               fresh |-> F, payable |-> Y, obligation_fresh |-> FALSE]
        BY <1>1, <2>2, Zenon DEF Priced
    <2>4. PICK x : x = [q EXCEPT !.deposits = d]
        OBVIOUS
    <2>5. x = [deposits |-> d, borrows |-> b, unhealthy |-> w.unhealthy,
               feed |-> w.feed, wallet |-> w.wallet, ata |-> w.ata,
               fresh |-> F, payable |-> Y, obligation_fresh |-> FALSE]
        BY <2>3, <2>4, Zenon
    <2>6. [x EXCEPT !.obligation_fresh = TRUE] = Refreshed(w, F, Y)
        <3>1. PICK yes, no : yes = TRUE /\ no = FALSE
            OBVIOUS
        <3>2. Refreshed(w, F, Y) = [deposits |-> d, borrows |-> b, unhealthy |-> w.unhealthy,
                                 feed |-> w.feed, wallet |-> w.wallet, ata |-> w.ata,
                                 fresh |-> F, payable |-> Y, obligation_fresh |-> yes]
            BY <2>1, <3>1, Zenon DEF Refreshed
        <3>3. x = [deposits |-> d, borrows |-> b, unhealthy |-> w.unhealthy,
                   feed |-> w.feed, wallet |-> w.wallet, ata |-> w.ata,
                   fresh |-> F, payable |-> Y, obligation_fresh |-> no]
            BY <2>5, <3>1, Zenon
        <3>4. [x EXCEPT !.obligation_fresh = yes] = Refreshed(w, F, Y)
            BY <3>2, <3>3, SMT
        <3> QED BY <3>1, <3>4, Zenon
    <2> QED BY <2>1, <2>2, <2>4, <2>6, Zenon
<1>4. [Position!RefreshedPositions(p) EXCEPT !.obligation_fresh = TRUE] = Refreshed(w, F, Y)
    BY <1>2, <1>3 DEF Position!RefreshedPositions
<1> QED BY <1>1, <1>2, <1>4 DEF Position!RefreshObligation, Position!ReservesRead

\* A transaction runs its instructions one after the other.
LEMMA ExecutedIsLoop ==
    ASSUME NEW s, Len(s) \in Nat, NEW arrival
    PROVE  \E g : /\ Position!Executed(s, arrival) = {Position!Kept(w) : w \in g[Len(s)]}
                  /\ g[0] = {Position!Arriving(positions, arrival)}
                  /\ \A k \in 1..Len(s) : g[k] = Stepped(g[k - 1], s[k])
<1>1. \E g : ExecutedLoop(Position!Arriving(positions, arrival), s, Len(s), g)
    BY ExecutedLoopExists
<1>2. PICK g : /\ ExecutedLoop(Position!Arriving(positions, arrival), s, Len(s), g)
               /\ Position!Executed(s, arrival) = {Position!Kept(w) : w \in g[Len(s)]}
    BY <1>1, Zenon DEF Position!Executed, ExecutedLoop, Stepped
<1>3. PICK b : b = Position!Arriving(positions, arrival)
    OBVIOUS
<1>4. g = [k \in 0..Len(s) |-> IF k = 0 THEN {b} ELSE Stepped(g[k - 1], s[k])]
    BY <1>2, <1>3, Zenon DEF ExecutedLoop
<1>5. g[0] = {b} /\ \A k \in 1..Len(s) : g[k] = Stepped(g[k - 1], s[k])
    <2>1. 0 \in 0..Len(s) /\ \A k \in 1..Len(s) : k \in 0..Len(s) /\ k # 0
        OBVIOUS
    <2> QED BY <1>4, <2>1
<1> QED BY <1>2, <1>3, <1>5

\* a client that waits for its transaction, or is about to send it
Preparing ==
    [phase : {"accounts", "creating", "sent"}, command : Position!Command,
     reserves : Seq(Reserves), feed : [Reserves -> AnyFeed],
     mints : Seq(Reserves \X Position!Kinds), excused : BOOLEAN]

\* s is the list of instructions of client cl, which has read n reserves
Lists(s, cl, n) ==
    /\ n \in Nat /\ Len(s) = n + 2
    /\ \A k \in 1..n : s[k] = [op |-> "refresh_reserve", reserve |-> cl.reserves[k],
                               feed |-> cl.feed[cl.reserves[k]]]
    /\ s[n + 1] = [op |-> "refresh_obligation", reserves |-> cl.reserves]
    /\ s[n + 2] = cl.command

\* The instructions of a command that refreshes.
LEMMA InstructionList ==
    ASSUME NEW cl \in Preparing, cl.command.op # "redeem", NEW n, n = Len(cl.reserves),
           NEW s, s = Position!Instructions(cl)
    PROVE  Lists(s, cl, n)
<1>1. PICK R \in Seq(Reserves) : R = cl.reserves
    BY DEF Preparing
<1>2. PICK a : a = [i \in DOMAIN R |-> [op |-> "refresh_reserve", reserve |-> R[i], feed |-> cl.feed[R[i]]]]
    OBVIOUS
<1>3. PICK x : x = [op |-> "refresh_obligation", reserves |-> R]
    OBVIOUS
<1>4. PICK E : E = {a[i] : i \in 1..n} \cup {x, cl.command}
    OBVIOUS
<1>5. n \in Nat /\ DOMAIN R = 1..n
    BY <1>1
<1>6. a \in Seq(E) /\ Len(a) = n
    BY <1>2, <1>4, <1>5
<1>7. x \in E /\ cl.command \in E
    BY <1>4
<1>8. s = Append(a \o <<x>>, cl.command)
    BY <1>1, <1>2, <1>3 DEF Position!Instructions, Position!RefreshInstructions
<1>9. PICK b : b = a \o <<x>>
    OBVIOUS
<1>10. /\ b \in Seq(E) /\ Len(b) = n + 1 /\ b[n + 1] = x
       /\ \A k \in 1..n : b[k] = a[k]
    BY <1>5, <1>6, <1>7, <1>9
<1>11. /\ Len(s) = n + 2 /\ s[n + 2] = cl.command
       /\ \A k \in 1..(n + 1) : s[k] = b[k]
    BY <1>5, <1>7, <1>8, <1>9, <1>10
<1>12. s[n + 1] = x /\ \A k \in 1..n : s[k] = a[k]
    BY <1>5, <1>10, <1>11
<1> QED BY <1>1, <1>2, <1>3, <1>5, <1>11, <1>12 DEF Lists

\* the oracles a client read of the first k reserves of its list are those of now
Agrees(cl, k) == \A i \in 1..k : cl.feed[cl.reserves[i]] = positions.feed[cl.reserves[i]]

\* the reserves of A, and the first k of its list
FirstOf(A, cl, k) == A \cup {cl.reserves[i] : i \in 1..k}

\* One instruction on what a step may have left.
LEMMA SteppedResult ==
    ASSUME NEW ok, NEW v, NEW i
    PROVE  Stepped(Position!Result(ok, v), i) = IF ok THEN Position!Instruct(v, i) ELSE {}
    BY DEF Stepped, Position!Result

(***************************************************************************)
(* What a command that refreshes does: the instruction itself on the       *)
(* refreshed positions, provided that the client has listed the reserves   *)
(* of the positions and their oracles.                                     *)
(***************************************************************************)
LEMMA ExecutedCommand ==
    ASSUME NEW cl \in Preparing, cl.command.op # "redeem", NEW n, n = Len(cl.reserves),
           NEW arrival, NEW A, A = arrival.fresh, NEW Y, Y = arrival.payable
    PROVE  Position!Executed(Position!Instructions(cl), arrival)
               = {Position!Kept(v) : v \in
                     IF Agrees(cl, n) /\ cl.reserves = Position!ReservesRead(positions)
                     THEN Position!Instruct(Refreshed(positions, FirstOf(A, cl, n), Y), cl.command)
                     ELSE {}}
<1>1. PICK s : s = Position!Instructions(cl)
    OBVIOUS
<1>2. /\ n \in Nat /\ Len(s) = n + 2
      /\ \A k \in 1..n : s[k] = [op |-> "refresh_reserve", reserve |-> cl.reserves[k],
                                 feed |-> cl.feed[cl.reserves[k]]]
      /\ s[n + 1] = [op |-> "refresh_obligation", reserves |-> cl.reserves]
      /\ s[n + 2] = cl.command
    <2>1. Lists(s, cl, n)
        BY <1>1, InstructionList
    <2> QED BY <2>1 DEF Lists
<1>3. PICK g : /\ Position!Executed(s, arrival) = {Position!Kept(w) : w \in g[n + 2]}
               /\ g[0] = {Position!Arriving(positions, arrival)}
               /\ \A k \in 1..(n + 2) : g[k] = Stepped(g[k - 1], s[k])
    <2>1. Len(s) \in Nat
        BY <1>2
    <2>2. \E g : /\ Position!Executed(s, arrival) = {Position!Kept(w) : w \in g[Len(s)]}
                 /\ g[0] = {Position!Arriving(positions, arrival)}
                 /\ \A k \in 1..Len(s) : g[k] = Stepped(g[k - 1], s[k])
        BY <2>1, ExecutedIsLoop
    <2> QED BY <1>2, <2>2
<1> DEFINE P == {k \in Nat : k <= n =>
                    g[k] = Position!Result(Agrees(cl, k), Priced(positions, FirstOf(A, cl, k), Y))}
<1>4. 0 \in P
    <2>1. Agrees(cl, 0) /\ FirstOf(A, cl, 0) = A
        BY DEF Agrees, FirstOf
    <2>2. Position!Arriving(positions, arrival) = Priced(positions, A, Y)
        BY Zenon DEF Position!Arriving, Priced
    <2> QED BY <1>3, <2>1, <2>2 DEF Position!Result
<1>5. ASSUME NEW k \in P PROVE k + 1 \in P
    <2> SUFFICES ASSUME k + 1 <= n
        PROVE  g[k + 1] = Position!Result(Agrees(cl, k + 1), Priced(positions, FirstOf(A, cl, k + 1), Y))
        OBVIOUS
    <2>1. k \in Nat /\ k + 1 \in 1..n /\ k + 1 \in 1..(n + 2) /\ (k + 1) - 1 = k
        BY <1>2
    <2>2. PICK F, r : F = FirstOf(A, cl, k) /\ r = cl.reserves[k + 1]
        OBVIOUS
    <2>3. g[k] = Position!Result(Agrees(cl, k), Priced(positions, F, Y))
        BY <1>2, <1>5, <2>1, <2>2
    <2>4. PICK i : i = [op |-> "refresh_reserve", reserve |-> r, feed |-> cl.feed[r]]
        OBVIOUS
    <2>5. g[k + 1] = Stepped(g[k], i)
        BY <1>2, <1>3, <2>1, <2>2, <2>4
    <2>6. g[k + 1] = IF Agrees(cl, k) THEN Position!Instruct(Priced(positions, F, Y), i) ELSE {}
        BY <2>3, <2>5, SteppedResult
    <2>7. Position!Instruct(Priced(positions, F, Y), i)
              = Position!RefreshReserve(Priced(positions, F, Y), r, cl.feed[r])
        BY <2>4 DEF Position!Instruct
    <2>8. Position!RefreshReserve(Priced(positions, F, Y), r, cl.feed[r])
              = IF cl.feed[r] = positions.feed[r] THEN {Priced(positions, F \cup {r}, Y)} ELSE {}
        BY PricedStep, Zenon
    <2>9. FirstOf(A, cl, k + 1) = F \cup {r}
        <3>1. 1..(k + 1) = (1..k) \cup {k + 1}
            BY <2>1
        <3> QED BY <2>2, <3>1 DEF FirstOf
    <2>10. Agrees(cl, k + 1) <=> Agrees(cl, k) /\ cl.feed[r] = positions.feed[r]
        <3>1. \A j : j \in 1..(k + 1) <=> j \in 1..k \/ j = k + 1
            BY <2>1
        <3> QED BY <2>2, <3>1 DEF Agrees
    <2> QED BY <2>6, <2>7, <2>8, <2>9, <2>10 DEF Position!Result
<1>6. g[n] = Position!Result(Agrees(cl, n), Priced(positions, FirstOf(A, cl, n), Y))
    <2>1. n \in P
        BY <1>2, <1>4, <1>5, NatSetInduction
    <2> QED BY <1>2, <2>1
<1>7. PICK F, i, ok : /\ F = FirstOf(A, cl, n) /\ i = [op |-> "refresh_obligation", reserves |-> cl.reserves]
                      /\ ok = (Agrees(cl, n) /\ cl.reserves = Position!ReservesRead(positions))
    OBVIOUS
<1>8. g[n + 1] = Position!Result(ok, Refreshed(positions, F, Y))
    <2>1. n + 1 \in 1..(n + 2) /\ (n + 1) - 1 = n
        BY <1>2
    <2>2. g[n + 1] = Stepped(g[n], i)
        BY <1>2, <1>3, <1>7, <2>1
    <2>a. g[n] = Position!Result(Agrees(cl, n), Priced(positions, F, Y))
        BY <1>6, <1>7, Zenon
    <2>3. g[n + 1] = IF Agrees(cl, n) THEN Position!Instruct(Priced(positions, F, Y), i) ELSE {}
        BY <2>a, <2>2, SteppedResult
    <2>4. Position!Instruct(Priced(positions, F, Y), i)
              = Position!RefreshObligation(Priced(positions, F, Y), cl.reserves)
        BY <1>7 DEF Position!Instruct
    <2>5. Position!Range(cl.reserves) \subseteq F
        <3>1. cl.reserves \in Seq(Reserves)
            BY DEF Preparing
        <3>2. DOMAIN cl.reserves = 1..n
            BY <3>1
        <3> QED BY <1>7, <3>2 DEF FirstOf, Position!Range
    <2>6. Position!RefreshObligation(Priced(positions, F, Y), cl.reserves)
              = Position!Result(cl.reserves = Position!ReservesRead(positions)
                                    /\ Position!Range(cl.reserves) \subseteq F, Refreshed(positions, F, Y))
        BY RefreshedStep
    <2> QED BY <1>7, <2>3, <2>4, <2>5, <2>6 DEF Position!Result
<1>9. g[n + 2] = IF ok THEN Position!Instruct(Refreshed(positions, F, Y), cl.command) ELSE {}
    <2>1. n + 2 \in 1..(n + 2) /\ (n + 2) - 1 = n + 1
        BY <1>2
    <2>2. g[n + 2] = Stepped(g[n + 1], cl.command)
        BY <1>2, <1>3, <2>1
    <2>3. Stepped(Position!Result(ok, Refreshed(positions, F, Y)), cl.command)
              = IF ok THEN Position!Instruct(Refreshed(positions, F, Y), cl.command) ELSE {}
        BY SteppedResult, Zenon
    <2> QED BY <1>8, <2>2, <2>3, Zenon
<1> QED BY <1>1, <1>3, <1>7, <1>9

\* What is left of a transaction, when it ends.
LEMMA KeptTyped ==
    ASSUME NEW w \in Working
    PROVE  Position!Kept(w) \in Ledger /\ Position!Kept(w).ata = w.ata
    BY DEF Working, Ledger, Position!Kept

\* The start of a transaction.
LEMMA ArrivingTyped ==
    ASSUME NEW w \in Ledger, NEW arrival \in Position!Arrivals
    PROVE  Position!Arriving(w, arrival) \in Working /\ Position!Arriving(w, arrival).ata = w.ata
<1>1. arrival.fresh \in SUBSET Reserves /\ arrival.payable \in SUBSET Reserves
    BY DEF Position!Arrivals
<1> QED BY <1>1 DEF Working, Ledger, Position!Arriving

\* A refreshed obligation.
LEMMA RefreshedTyped ==
    ASSUME NEW w \in Ledger, NEW F \in SUBSET Reserves, NEW Y \in SUBSET Reserves
    PROVE  Refreshed(w, F, Y) \in Working /\ Refreshed(w, F, Y).ata = w.ata
<1>1. w.deposits \in Seq(Spot) /\ w.borrows \in Seq(Spot)
    BY DEF Ledger
<1>2. Position!Retained(w.deposits) \in Seq(Spot)
    BY <1>1, RetainedKeeps DEF Keeps
<1>3. Position!HeaviestFirst(w.borrows) \in Seq(Spot)
    BY <1>1, HeaviestFirstList
<1> QED BY <1>2, <1>3 DEF Working, Ledger, Refreshed

\* The three commands.
LEMMA CommandOps ==
    ASSUME NEW command \in Position!Command
    PROVE  /\ command.op \in {"liquidate", "withdraw", "redeem"} /\ command.reserve \in Reserves
           /\ command.op = "liquidate" => command.repay \in Reserves
    BY DEF Position!Command

\* The instruction each of them sends.
LEMMA InstructCommand ==
    ASSUME NEW w, NEW i
    PROVE  /\ i.op = "liquidate"
               => Position!Instruct(w, i) = Position!LiquidateObligation(w, i.repay, i.reserve)
           /\ i.op = "withdraw"
               => Position!Instruct(w, i) = Position!WithdrawObligationCollateral(w, i.reserve)
           /\ i.op = "redeem"
               => Position!Instruct(w, i) = Position!RedeemReserveCollateral(w, i.reserve)
<1>1. ASSUME i.op = "liquidate"
      PROVE  Position!Instruct(w, i) = Position!LiquidateObligation(w, i.repay, i.reserve)
    BY <1>1 DEF Position!Instruct
<1>2. ASSUME i.op = "withdraw"
      PROVE  Position!Instruct(w, i) = Position!WithdrawObligationCollateral(w, i.reserve)
    BY <1>2 DEF Position!Instruct
<1>3. ASSUME i.op = "redeem"
      PROVE  Position!Instruct(w, i) = Position!RedeemReserveCollateral(w, i.reserve)
    BY <1>3 DEF Position!Instruct
<1> QED BY <1>1, <1>2, <1>3

\* what a liquidation of n of the first debt and m of deposit d leaves
Liquidated(w, repay, r, d, n, m) ==
    [w EXCEPT !.borrows = Position!Reduced(w.borrows, 1, n),
              !.deposits = Position!Reduced(w.deposits, d, m),
              !.obligation_fresh = FALSE, !.fresh = w.fresh \ {repay, r}]

\* when there is something to liquidate
Liquidable(w, repay, r, d) ==
    /\ w.obligation_fresh /\ {repay, r} \subseteq w.fresh /\ w.unhealthy
    /\ Position!IndexOf(w.borrows, repay) = 1 /\ d # 0
    /\ {<<r, k>> : k \in Position!Kinds} \subseteq w.ata

\* A liquidation takes any part of the debt and of the deposit.
LEMMA LiquidationResult ==
    ASSUME NEW w, NEW repay, NEW r, NEW d, d = Position!IndexOf(w.deposits, r)
    PROVE  Position!LiquidateObligation(w, repay, r)
               = IF Liquidable(w, repay, r, d)
                 THEN {Liquidated(w, repay, r, d, n, m) :
                          n \in 1..w.borrows[1].amount, m \in 1..w.deposits[d].amount}
                 ELSE {}
<1> DEFINE D == Position!IndexOf(w.deposits, r)
<1>1. Position!LiquidateObligation(w, repay, r)
          = IF Liquidable(w, repay, r, D)
            THEN {Liquidated(w, repay, r, D, n, m) :
                     n \in 1..w.borrows[1].amount, m \in 1..w.deposits[D].amount}
            ELSE {}
    BY DEF Position!LiquidateObligation, Liquidable, Liquidated
<1>2. D = d
    OBVIOUS
<1> HIDE DEF D
<1> QED BY <1>1, <1>2

\* what a withdrawal of n of deposit d leaves
Withdrawn(w, r, d, n) ==
    [w EXCEPT !.deposits = Position!Reduced(w.deposits, d, n), !.wallet[r] = w.wallet[r] + n,
              !.obligation_fresh = FALSE]

\* when something can be withdrawn
Withdrawable(w, r, d) ==
    /\ w.obligation_fresh /\ r \in w.fresh
    /\ d # 0 /\ (w.borrows = <<>> \/ ~w.unhealthy) /\ <<r, "collateral">> \in w.ata

\* A withdrawal takes any part of the deposit.
LEMMA WithdrawalResult ==
    ASSUME NEW w, NEW r, NEW d, d = Position!IndexOf(w.deposits, r)
    PROVE  Position!WithdrawObligationCollateral(w, r)
               = IF Withdrawable(w, r, d)
                 THEN {Withdrawn(w, r, d, n) : n \in 1..w.deposits[d].amount}
                 ELSE {}
    BY DEF Position!WithdrawObligationCollateral, Withdrawable, Withdrawn

\* A command leaves positions, and makes no token account.
LEMMA InstructTyped ==
    ASSUME NEW w \in Working, NEW command \in Position!Command,
           NEW v \in Position!Instruct(w, command)
    PROVE  v \in Working /\ v.ata = w.ata
<1>0. PICK r \in Reserves : r = command.reserve
    BY CommandOps
<1>1. w.deposits \in Seq(Spot) /\ w.borrows \in Seq(Spot)
    BY DEF Working
<1>2. PICK d : d = Position!IndexOf(w.deposits, r)
    OBVIOUS
<1>3. d = 0 \/ d \in 1..Len(w.deposits)
    BY <1>1, <1>2, IndexPlace
<1>4. CASE command.op = "liquidate"
    <2>1. PICK repay \in Reserves : repay = command.repay
        BY <1>4, CommandOps
    <2>2. v \in Position!LiquidateObligation(w, repay, r)
        BY <1>0, <1>4, <2>1, InstructCommand
    <2>a. /\ Liquidable(w, repay, r, d)
          /\ v \in {Liquidated(w, repay, r, d, n, m) :
                       n \in 1..w.borrows[1].amount, m \in 1..w.deposits[d].amount}
        BY <1>2, <2>2, LiquidationResult
    <2>3. Position!IndexOf(w.borrows, repay) = 1 /\ d # 0
        BY <2>a DEF Liquidable
    <2>4. PICK n \in 1..w.borrows[1].amount, m \in 1..w.deposits[d].amount :
             v = Liquidated(w, repay, r, d, n, m)
        BY <2>a
    <2>5. 1 \in 1..Len(w.borrows)
        BY <1>1, <2>3, IndexPlace
    <2>6. /\ Position!Reduced(w.borrows, 1, n) \in Seq(Spot)
          /\ Position!Reduced(w.deposits, d, m) \in Seq(Spot)
        BY <1>1, <1>3, <2>3, <2>4, <2>5, ReducedSpots
    <2> QED BY <2>4, <2>6 DEF Working, Liquidated
<1>5. CASE command.op = "withdraw"
    <2>1. v \in Position!WithdrawObligationCollateral(w, r)
        BY <1>0, <1>5, InstructCommand
    <2>2. /\ d # 0
          /\ \E n \in 1..w.deposits[d].amount :
                v = [w EXCEPT !.deposits = Position!Reduced(@, d, n), !.wallet[r] = @ + n,
                              !.obligation_fresh = FALSE]
        BY <1>2, <2>1 DEF Position!WithdrawObligationCollateral
    <2>3. PICK n \in 1..w.deposits[d].amount :
             v = [w EXCEPT !.deposits = Position!Reduced(w.deposits, d, n),
                           !.wallet = [w.wallet EXCEPT ![r] = w.wallet[r] + n],
                           !.obligation_fresh = FALSE]
        BY <2>2
    <2>4. Position!Reduced(w.deposits, d, n) \in Seq(Spot)
        BY <1>1, <1>3, <2>2, <2>3, ReducedSpots
    <2>5. [w.wallet EXCEPT ![r] = w.wallet[r] + n] \in [Reserves -> Nat]
        <3>1. w.wallet \in [Reserves -> Nat] /\ n \in Nat
            BY DEF Working
        <3> QED BY <3>1
    <2> QED BY <2>3, <2>4, <2>5 DEF Working
<1>6. CASE command.op = "redeem"
    <2>1. v \in Position!RedeemReserveCollateral(w, r)
        BY <1>0, <1>6, InstructCommand
    <2>2. /\ w.wallet[r] > 0
          /\ v = [w EXCEPT !.wallet = [w.wallet EXCEPT ![r] = w.wallet[r] - 1], !.fresh = w.fresh \ {r}]
        BY <2>1 DEF Position!RedeemReserveCollateral, Position!Result
    <2>3. [w.wallet EXCEPT ![r] = w.wallet[r] - 1] \in [Reserves -> Nat]
        <3>1. w.wallet \in [Reserves -> Nat]
            BY DEF Working
        <3> QED BY <2>2, <3>1
    <2> QED BY <2>2, <2>3 DEF Working
<1> QED BY <1>4, <1>5, <1>6, CommandOps

\* The token accounts a command needs.
LEMMA MintsRequired ==
    ASSUME NEW command
    PROVE  /\ <<command.reserve, "collateral">> \in Position!Range(Position!RequiredMints(command))
           /\ command.op # "withdraw" =>
                 {<<command.reserve, k>> : k \in Position!Kinds}
                     \subseteq Position!Range(Position!RequiredMints(command))
<1>1. CASE command.op = "withdraw"
    BY <1>1 DEF Position!RequiredMints, Position!Range
<1>2. CASE command.op # "withdraw"
    <2>1. PICK a, b : a = <<command.reserve, "collateral">> /\ b = <<command.reserve, "liquidity">>
        OBVIOUS
    <2>2. Position!RequiredMints(command) = <<a, b>>
        BY <1>2, <2>1 DEF Position!RequiredMints
    <2>3. Position!Range(<<a, b>>) = {a, b}
        BY DEF Position!Range
    <2> QED BY <2>1, <2>2, <2>3 DEF Position!Kinds
<1> QED BY <1>1, <1>2

(***************************************************************************)
(* A command that can be served on w is accepted once everything is fresh. *)
(***************************************************************************)
LEMMA ServedCommand ==
    ASSUME NEW w \in Ledger, NEW command \in Position!Command, command.op # "redeem",
           Position!Servable(w, command), NEW F, NEW Y,
           \A i \in 1..Len(w.deposits) : w.deposits[i].reserve \in F,
           \A i \in 1..Len(w.borrows) : w.borrows[i].reserve \in F
    PROVE  Position!Instruct(Refreshed(w, F, Y), command) # {}
<1>0. Position!Range(Position!RequiredMints(command)) \subseteq w.ata
    BY DEF Position!Servable
<1>1. PICK D \in Seq(Spot), B \in Seq(Spot) : D = w.deposits /\ B = w.borrows
    BY DEF Ledger
<1>2. PICK D2, B2 : D2 = Position!Retained(D) /\ B2 = Position!HeaviestFirst(B)
    OBVIOUS
<1>3. PICK r : r = command.reserve
    OBVIOUS
<1>4. PICK v : v = Refreshed(w, F, Y)
    OBVIOUS
<1>5. /\ v.deposits = D2 /\ v.borrows = B2 /\ v.unhealthy = w.unhealthy /\ v.ata = w.ata
      /\ v.fresh = F /\ v.wallet = w.wallet
    BY <1>1, <1>2, <1>4 DEF Refreshed
<1>a. v.obligation_fresh = TRUE
    BY <1>4, Zenon DEF Refreshed
<1>6. Keeps(D, Len(D), D2) /\ D2 \in Seq(Spot) /\ B2 \in Seq(Spot)
    <2>1. Keeps(D, Len(D), D2)
        BY <1>2, RetainedKeeps
    <2>2. B2 \in Seq(Spot)
        BY <1>2, HeaviestFirstList
    <2> QED BY <2>1, <2>2 DEF Keeps
<1>7. PICK d : d = Position!IndexOf(D, r)
    OBVIOUS
<1>8. command.op \in {"liquidate", "withdraw"}
    BY CommandOps
<1>9. d # 0 /\ D[d].amount > 0
    BY <1>1, <1>3, <1>7, <1>8 DEF Position!Servable
<1>10. d \in 1..Len(D) /\ D[d].reserve = r /\ r \in F
    BY <1>1, <1>7, <1>9, IndexPlace
<1>11. PICK e : e = Position!IndexOf(D2, r)
    OBVIOUS
<1>12. e \in 1..Len(D2) /\ e # 0 /\ D2[e].amount \in Nat /\ D2[e].amount > 0
    <2>1. PICK i \in 1..Len(D2) : D2[i] = D[d]
        BY <1>6, <1>9, <1>10 DEF Keeps
    <2>2. e \in 1..Len(D2)
        BY <1>6, <1>10, <1>11, <2>1, IndexPlace
    <2>3. D2[e] \in Spot
        BY <1>6, <2>2
    <2>4. PICK j \in 1..Len(D) : D2[e] = D[j] /\ D[j].amount > 0
        BY <1>6, <2>2 DEF Keeps
    <2>5. D2[e].amount \in Nat
        BY <2>3 DEF Spot
    <2> QED BY <2>2, <2>4, <2>5
<1>13. 1 \in 1..D2[e].amount
    BY <1>12
<1>14. CASE command.op = "liquidate"
    <2>1. PICK repay : repay = command.repay
        OBVIOUS
    <2>2. /\ w.unhealthy /\ \E p \in Position!Range(B) : Position!IsDebt(p) /\ p.reserve = repay
          /\ \A p \in Position!Range(B) : Position!IsDebt(p) => p.reserve <= repay
        BY <1>1, <1>14, <2>1 DEF Position!Servable
    <2>3. /\ \E i \in 1..Len(B) : B[i].amount > 0 /\ B[i].reserve = repay
          /\ \A i \in 1..Len(B) : B[i].amount > 0 => B[i].reserve <= repay
        <3>1. Position!Range(B) = {B[i] : i \in 1..Len(B)}
            BY DEF Position!Range
        <3> QED BY <2>2, <3>1 DEF Position!IsDebt
    <2>4. Len(B2) > 0 /\ B2[1].reserve = repay /\ B2[1].amount > 0
        BY <1>2, <2>3, HeaviestFirstList
    <2>5. 1 \in 1..Len(B2)
        BY <1>6, <2>4
    <2>6. B2[1] \in Spot
        BY <1>6, <2>5
    <2>7. 1 \in 1..B2[1].amount
        BY <2>4, <2>6 DEF Spot
    <2>8. Position!IndexOf(B2, repay) = 1
        <3>1. PICK i : i = Position!IndexOf(B2, repay)
            OBVIOUS
        <3>2. i \in 1..Len(B2) /\ i <= 1
            BY <1>6, <2>4, <2>5, <3>1, IndexPlace
        <3> QED BY <3>1, <3>2
    <2>9. repay \in F
        BY <1>1, <2>3
    <2>10. {<<r, k>> : k \in Position!Kinds} \subseteq w.ata
        BY <1>0, <1>3, <1>14, MintsRequired
    <2>11. Liquidable(v, repay, r, e)
        BY <1>5, <1>a, <1>10, <1>12, <2>2, <2>8, <2>9, <2>10 DEF Liquidable
    <2>12. Liquidated(v, repay, r, e, 1, 1) \in Position!LiquidateObligation(v, repay, r)
        BY <1>5, <1>11, <1>13, <2>7, <2>11, LiquidationResult
    <2>13. Position!Instruct(v, command) = Position!LiquidateObligation(v, repay, r)
        BY <1>3, <1>14, <2>1, InstructCommand
    <2> QED BY <1>4, <2>12, <2>13
<1>15. CASE command.op = "withdraw"
    <2>1. ~w.unhealthy \/ ~\E p \in Position!Range(B) : Position!IsDebt(p)
        BY <1>1, <1>15 DEF Position!Servable
    <2>2. B2 = <<>> \/ ~w.unhealthy
        <3>1. CASE ~\E p \in Position!Range(B) : Position!IsDebt(p)
            <4>1. Position!Range(B) = {B[i] : i \in 1..Len(B)}
                BY DEF Position!Range
            <4>2. \A i \in 1..Len(B) : ~(B[i].amount > 0)
                BY <3>1, <4>1 DEF Position!IsDebt
            <4> QED BY <1>2, <4>2, HeaviestFirstList
        <3> QED BY <2>1, <3>1
    <2>3. <<r, "collateral">> \in v.ata
        BY <1>0, <1>3, <1>5, MintsRequired
    <2>4. Withdrawn(v, r, e, 1) \in Position!WithdrawObligationCollateral(v, r)
        <3>1. v.obligation_fresh /\ r \in v.fresh /\ e # 0 /\ (v.borrows = <<>> \/ ~v.unhealthy)
            BY <1>5, <1>a, <1>10, <1>12, <2>2
        <3>2. 1 \in 1..v.deposits[e].amount /\ e = Position!IndexOf(v.deposits, r)
            BY <1>5, <1>11, <1>13
        <3>3. Withdrawable(v, r, e)
            BY <2>3, <3>1, Zenon DEF Withdrawable
        <3>4. Position!WithdrawObligationCollateral(v, r)
                  = {Withdrawn(v, r, e, n) : n \in 1..v.deposits[e].amount}
            <4>1. e = Position!IndexOf(v.deposits, r)
                BY <3>2
            <4>2. Position!WithdrawObligationCollateral(v, r)
                      = IF Withdrawable(v, r, e)
                        THEN {Withdrawn(v, r, e, n) : n \in 1..v.deposits[e].amount}
                        ELSE {}
                BY <4>1, WithdrawalResult
            <4> QED BY <3>3, <4>2, Zenon
        <3> QED BY <3>2, <3>4, Zenon
    <2>5. Position!Instruct(v, command) = Position!WithdrawObligationCollateral(v, r)
        BY <1>3, <1>15, InstructCommand
    <2> QED BY <1>4, <2>4, <2>5
<1> QED BY <1>8, <1>14, <1>15

\* redeem-collateral sends its instruction alone.
LEMMA ExecutedRedeem ==
    ASSUME NEW cl, cl.command.op = "redeem", NEW arrival
    PROVE  Position!Executed(Position!Instructions(cl), arrival)
               = {Position!Kept(v) : v \in Position!Instruct(Position!Arriving(positions, arrival), cl.command)}
<1>1. PICK i : i = cl.command
    OBVIOUS
<1>2. Position!Instructions(cl) = <<i>> /\ Len(<<i>>) = 1 /\ <<i>>[1] = i
    BY <1>1 DEF Position!Instructions
<1>3. PICK s : s = <<i>>
    OBVIOUS
<1>4. Len(s) = 1 /\ Len(s) \in Nat /\ s[1] = i
    BY <1>2, <1>3
<1>5. PICK g : /\ Position!Executed(s, arrival) = {Position!Kept(w) : w \in g[Len(s)]}
               /\ g[0] = {Position!Arriving(positions, arrival)}
               /\ \A k \in 1..Len(s) : g[k] = Stepped(g[k - 1], s[k])
    BY <1>4, ExecutedIsLoop
<1>6. g[1] = Stepped(g[1 - 1], i)
    BY <1>4, <1>5
<1>7. g[1] = Stepped({Position!Arriving(positions, arrival)}, i)
    <2>1. 1 - 1 = 0
        OBVIOUS
    <2>2. g[1 - 1] = g[0]
        BY <2>1
    <2> QED BY <1>5, <1>6, <2>2, Zenon
<1>8. g[1] = Position!Instruct(Position!Arriving(positions, arrival), i)
    BY <1>7 DEF Stepped
<1> QED BY <1>1, <1>2, <1>3, <1>4, <1>5, <1>8

-----------------------------------------------------------------------------
(* Clients of positions.                                                   *)

\* a client without a command
Idle == [phase : {"idle"}]

\* a client that has read the obligation
Reading ==
    [phase : {"obligation read"}, command : Position!Command, reserves : Seq(Reserves),
     excused : BOOLEAN]

Taker == Idle \cup Reading \cup Preparing

\* what a user is told
Answers == {"nothing", "ok", "panic", "failed", "expired"}

\* what client cl has read is what is on the chain w, where its command can be served
Current(cl, w) ==
    /\ Position!Servable(w, cl.command)
    /\ cl.command.op # "redeem" => cl.reserves = Position!ReservesRead(w)
    /\ cl.phase # "obligation read" => cl.feed = w.feed

\* a client looks for token accounts its command needs; those it does not find
\* were not there when the command began
Equipped(cl) ==
    /\ Position!Range(cl.mints) \subseteq Position!Range(Position!RequiredMints(cl.command))
    /\ cl.phase = "creating" => cl.excused

InOrder(cl, w) ==
    /\ cl.phase # "idle" /\ ~cl.excused => Current(cl, w)
    /\ cl.phase \in {"accounts", "creating", "sent"} => Equipped(cl)

(***************************************************************************)
(* The invariant: a client nobody has disturbed has read what is on the    *)
(* chain, and finds the token accounts it looks for.                       *)
(***************************************************************************)
PositionInv ==
    /\ positions \in Ledger
    /\ takers \in [Takers -> Taker] /\ answers \in [Takers -> Answers]
    /\ \A c \in Takers : InOrder(takers[c], positions)

\* The phase of a client tells what it knows.
LEMMA TakerPhases ==
    ASSUME NEW cl \in Taker
    PROVE  \/ cl.phase = "idle" /\ cl \in Idle
           \/ cl.phase = "obligation read" /\ cl \in Reading
           \/ cl.phase \in {"accounts", "creating", "sent"} /\ cl \in Preparing
    BY DEF Taker, Idle, Reading, Preparing

\* One client moves on, and the chain does not change.
LEMMA ClientMoves ==
    ASSUME PositionInv, NEW c \in Takers, NEW x \in Taker, InOrder(x, positions), NEW a \in Answers,
           positions' = positions, takers' = [takers EXCEPT ![c] = x],
           answers' = answers \/ answers' = [answers EXCEPT ![c] = a]
    PROVE  PositionInv'
<1>1. takers' \in [Takers -> Taker] /\ answers' \in [Takers -> Answers]
    BY DEF PositionInv
<1>2. ASSUME NEW d \in Takers PROVE InOrder(takers'[d], positions)
    BY DEF PositionInv
<1> QED BY <1>1, <1>2 DEF PositionInv

\* A command ends, with an answer.
LEMMA EndsMoves ==
    ASSUME PositionInv, NEW c \in Takers, NEW a \in Answers, Position!Ends(c, a), positions' = positions
    PROVE  PositionInv'
<1>1. PICK x : x = [phase |-> "idle"]
    OBVIOUS
<1>2. x \in Taker /\ InOrder(x, positions)
    BY <1>1 DEF Taker, Idle, InOrder
<1>3. takers' = [takers EXCEPT ![c] = x] /\ answers' = [answers EXCEPT ![c] = a]
    BY <1>1 DEF Position!Ends
<1> QED BY <1>2, <1>3, ClientMoves

\* The reserves of a list of positions.
LEMMA ReservesOfList ==
    ASSUME NEW s \in Seq(Spot), NEW a, a = Position!ReservesOf(s)
    PROVE  a \in Seq(Reserves) /\ Len(a) = Len(s) /\ \A i \in 1..Len(s) : a[i] = s[i].reserve
<1>1. PICK n \in Nat : n = Len(s) /\ DOMAIN s = 1..n
    OBVIOUS
<1>2. \A i \in 1..n : s[i].reserve \in Reserves
    <2>1. \A p \in Spot : p.reserve \in Reserves
        BY DEF Spot
    <2> QED BY <1>1, <2>1
<1>3. a = [i \in 1..n |-> s[i].reserve]
    BY <1>1 DEF Position!ReservesOf
<1>4. a \in Seq(Reserves) /\ Len(a) = n
    BY <1>2, <1>3
<1> QED BY <1>1, <1>3, <1>4

\* The reserves of positions.
LEMMA ReservesReadTyped ==
    ASSUME NEW w \in Ledger
    PROVE  /\ Position!ReservesRead(w) \in Seq(Reserves)
           /\ \A i \in 1..Len(w.deposits) :
               w.deposits[i].reserve \in Position!Range(Position!ReservesRead(w))
           /\ \A i \in 1..Len(w.borrows) :
               w.borrows[i].reserve \in Position!Range(Position!ReservesRead(w))
<1>1. PICK D \in Seq(Spot), B \in Seq(Spot) : D = w.deposits /\ B = w.borrows
    BY DEF Ledger
<1>2. PICK a, b : a = Position!ReservesOf(D) /\ b = Position!ReservesOf(B)
    OBVIOUS
<1>4. /\ a \in Seq(Reserves) /\ Len(a) = Len(D) /\ \A i \in 1..Len(D) : a[i] = D[i].reserve
      /\ b \in Seq(Reserves) /\ Len(b) = Len(B) /\ \A i \in 1..Len(B) : b[i] = B[i].reserve
    BY <1>2, ReservesOfList
<1>5. Position!ReservesRead(w) = a \o b
    BY <1>1, <1>2 DEF Position!ReservesRead
<1>6. PICK s : s = a \o b
    OBVIOUS
<1>3. PICK j \in Nat, k \in Nat : j = Len(a) /\ k = Len(b)
    BY <1>4
<1>7. /\ s \in Seq(Reserves) /\ Len(s) = j + k
      /\ \A i \in 1..(j + k) : s[i] = IF i <= j THEN a[i] ELSE b[i - j]
    <2>1. a \in Seq(Reserves) /\ b \in Seq(Reserves)
        BY <1>4
    <2>2. s \in Seq(Reserves) /\ Len(s) = j + k
        BY <1>3, <1>6, <2>1
    <2>3. ASSUME NEW i \in 1..(j + k) PROVE s[i] = IF i <= j THEN a[i] ELSE b[i - j]
        BY <1>3, <1>6, <2>1
    <2> QED BY <2>2, <2>3
<1>8. ASSUME NEW i \in 1..Len(D) PROVE D[i].reserve \in Position!Range(s)
    <2>1. i \in DOMAIN s /\ s[i] = D[i].reserve
        BY <1>3, <1>4, <1>7
    <2> QED BY <2>1 DEF Position!Range
<1>9. ASSUME NEW i \in 1..Len(B) PROVE B[i].reserve \in Position!Range(s)
    <2>1. j + i \in 1..(j + k) /\ ~(j + i <= j) /\ (j + i) - j = i
        BY <1>3, <1>4
    <2>2. s[j + i] = b[(j + i) - j]
        BY <1>7, <2>1
    <2>3. j + i \in DOMAIN s /\ s[j + i] = B[i].reserve
        BY <1>4, <1>7, <2>1, <2>2
    <2> QED BY <2>3 DEF Position!Range
<1> QED BY <1>1, <1>5, <1>6, <1>7, <1>8, <1>9

\* A command that can be served finds its reserves among those of the positions.
LEMMA ReservesFound ==
    ASSUME NEW w \in Ledger, NEW command \in Position!Command, command.op # "redeem",
           Position!Servable(w, command)
    PROVE  /\ command.reserve \in Position!Range(Position!ReservesRead(w))
           /\ command.op = "liquidate" => command.repay \in Position!Range(Position!ReservesRead(w))
<1>1. PICK D \in Seq(Spot), B \in Seq(Spot) : D = w.deposits /\ B = w.borrows
    BY DEF Ledger
<1>2. PICK r, d : r = command.reserve /\ d = Position!IndexOf(D, r)
    OBVIOUS
<1>3. command.op \in {"liquidate", "withdraw"}
    BY CommandOps
<1>4. d # 0
    BY <1>1, <1>2, <1>3 DEF Position!Servable
<1>5. d \in 1..Len(D) /\ D[d].reserve = r
    BY <1>2, <1>4, IndexPlace
<1>6. ASSUME command.op = "liquidate" PROVE \E i \in 1..Len(B) : B[i].reserve = command.repay
    <2>1. \E p \in Position!Range(B) : p.reserve = command.repay
        BY <1>1, <1>6 DEF Position!Servable
    <2>2. Position!Range(B) = {B[i] : i \in 1..Len(B)}
        BY DEF Position!Range
    <2> QED BY <2>1, <2>2
<1> QED BY <1>1, <1>2, <1>5, <1>6, ReservesReadTyped

\* The first read.
LEMMA ReadObligationInv ==
    ASSUME PositionInv, NEW c \in Takers, NEW command \in Position!Command,
           Position!ReadObligation(c, command)
    PROVE  PositionInv'
<1>1. PICK R \in Seq(Reserves) : R = IF command.op = "redeem" THEN <<>>
          ELSE Position!ReservesRead(positions)
    <2>1. Position!ReservesRead(positions) \in Seq(Reserves)
        BY ReservesReadTyped DEF PositionInv
    <2>2. <<>> \in Seq(Reserves)
        OBVIOUS
    <2>3. PICK Q : Q = Position!ReservesRead(positions)
        OBVIOUS
    <2> QED BY <2>1, <2>2, <2>3
<1>2. PICK e \in BOOLEAN : e = ~Position!Servable(positions, command)
    OBVIOUS
<1>3. PICK x : x = [phase |-> "obligation read", command |-> command, reserves |-> R, excused |-> e]
    OBVIOUS
<1>4. x \in Reading
    BY <1>3 DEF Reading
<1>5. x.phase = "obligation read" /\ x.command = command /\ x.reserves = R /\ x.excused = e
    BY <1>3
<1>6. InOrder(x, positions)
    BY <1>1, <1>2, <1>5 DEF InOrder, Current
<1>7. /\ positions' = positions /\ takers' = [takers EXCEPT ![c] = x]
      /\ answers' = [answers EXCEPT ![c] = "nothing"]
    BY <1>1, <1>2, <1>3 DEF Position!ReadObligation
<1> QED BY <1>4, <1>6, <1>7, ClientMoves DEF Taker, Answers

\* The second read.
LEMMA ReadReservesInv ==
    ASSUME PositionInv, NEW c \in Takers, Position!ReadReserves(c)
    PROVE  PositionInv'
<1>1. PICK cl \in Reading : cl = takers[c] /\ InOrder(cl, positions)
    <2>1. takers[c] \in Taker /\ takers[c].phase = "obligation read"
        BY DEF PositionInv, Position!ReadReserves
    <2> QED BY <2>1, TakerPhases DEF PositionInv
<1>2. positions' = positions
    BY DEF Position!ReadReserves
<1>a. PICK W : W = IF cl.command.op = "liquidate" THEN {cl.command.repay, cl.command.reserve}
                   ELSE {cl.command.reserve}
    OBVIOUS
<1>3. CASE cl.command.op # "redeem" /\ ~ W \subseteq Position!Range(cl.reserves)
    <2>1. cl.excused
        <3>1. ASSUME ~cl.excused PROVE FALSE
            <4>1. Current(cl, positions) /\ cl.command \in Position!Command
                BY <1>1, <3>1 DEF InOrder, Reading
            <4>2. /\ Position!Servable(positions, cl.command)
                  /\ cl.reserves = Position!ReservesRead(positions)
                BY <1>3, <4>1 DEF Current
            <4>3. /\ cl.command.reserve \in Position!Range(cl.reserves)
                  /\ cl.command.op = "liquidate" => cl.command.repay \in Position!Range(cl.reserves)
                BY <1>3, <4>1, <4>2, ReservesFound DEF PositionInv
            <4> QED BY <1>a, <1>3, <4>3
        <3> QED BY <3>1
    <2>2. Position!Ends(c, "panic")
        BY <1>1, <1>a, <1>3, <2>1 DEF Position!ReadReserves
    <2> QED BY <1>2, <2>2, EndsMoves DEF Answers
<1>4. CASE ~(cl.command.op # "redeem" /\ ~ W \subseteq Position!Range(cl.reserves))
    <2>1. PICK m, f : m = Position!RequiredMints(cl.command) /\ f = positions.feed
        OBVIOUS
    <2>2. PICK x : x = [phase |-> "accounts", command |-> cl.command, reserves |-> cl.reserves,
                        feed |-> f, mints |-> m, excused |-> cl.excused]
        OBVIOUS
    <2>3. takers' = [takers EXCEPT ![c] = x] /\ answers' = answers
        BY <1>1, <1>a, <1>4, <2>1, <2>2 DEF Position!ReadReserves
    <2>4. m \in Seq(Reserves \X Position!Kinds)
        <3>1. PICK r \in Reserves : r = cl.command.reserve
            BY CommandOps DEF Reading
        <3>2. <<r, "collateral">> \in Reserves \X Position!Kinds /\ <<r, "liquidity">> \in Reserves \X Position!Kinds
            BY DEF Position!Kinds
        <3>3. PICK T, p, q : T = Reserves \X Position!Kinds /\ p = <<r, "collateral">> /\ q = <<r, "liquidity">>
            OBVIOUS
        <3>4. p \in T /\ q \in T
            BY <3>2, <3>3
        <3>5. m = <<p>> \/ m = <<p, q>>
            BY <2>1, <3>1, <3>3 DEF Position!RequiredMints
        <3>6. <<p>> \in Seq(T) /\ <<p, q>> \in Seq(T)
            BY <3>4
        <3> QED BY <3>3, <3>5, <3>6
    <2>5. f \in [Reserves -> AnyFeed]
        BY <2>1 DEF PositionInv, Ledger
    <2>6. cl.command \in Position!Command /\ cl.reserves \in Seq(Reserves) /\ cl.excused \in BOOLEAN
          /\ cl.phase = "obligation read"
        BY DEF Reading
    <2>7. x \in Preparing
        BY <2>2, <2>4, <2>5, <2>6 DEF Preparing
    <2>8. /\ x.phase = "accounts" /\ x.command = cl.command /\ x.reserves = cl.reserves
          /\ x.feed = f /\ x.mints = m /\ x.excused = cl.excused
        BY <2>2
    <2>9. Equipped(x)
        BY <2>1, <2>8 DEF Equipped
    <2>10. InOrder(x, positions)
        BY <1>1, <2>1, <2>6, <2>8, <2>9 DEF InOrder, Current
    <2>11. x \in Taker /\ "ok" \in Answers
        BY <2>7 DEF Taker, Answers
    <2> QED BY <1>2, <2>3, <2>10, <2>11, ClientMoves
<1> QED BY <1>3, <1>4

\* The head of a list, and the rest.
LEMMA RangeTail ==
    ASSUME NEW T, NEW m \in Seq(T), m # <<>>
    PROVE  Tail(m) \in Seq(T) /\ Head(m) \in Position!Range(m) /\ Position!Range(Tail(m)) \subseteq Position!Range(m)
<1>1. PICK n \in Nat : n = Len(m) /\ n > 0
    OBVIOUS
<1>2. PICK t : t = Tail(m)
    OBVIOUS
<1>3. t \in Seq(T) /\ Len(t) = n - 1 /\ \A i \in 1..(n - 1) : t[i] = m[i + 1]
    BY <1>1, <1>2
<1>4. Position!Range(m) = {m[i] : i \in 1..n} /\ Position!Range(t) = {t[i] : i \in 1..(n - 1)}
    BY <1>1, <1>3 DEF Position!Range
<1>5. ASSUME NEW i \in 1..(n - 1) PROVE t[i] \in Position!Range(m)
    <2>1. i + 1 \in 1..n
        BY <1>1
    <2> QED BY <1>3, <1>4, <2>1
<1>6. Head(m) = m[1] /\ 1 \in 1..n
    BY <1>1
<1> QED BY <1>2, <1>3, <1>4, <1>5, <1>6

\* A client that gets on with its preparations knows what it knew.
LEMMA PreparingMoves ==
    ASSUME NEW w, NEW cl \in Preparing, NEW x \in Preparing, InOrder(cl, w),
           x.command = cl.command, x.reserves = cl.reserves, x.feed = cl.feed, x.excused = cl.excused,
           Equipped(x)
    PROVE  InOrder(x, w)
<1>1. /\ cl.phase # "idle" /\ x.phase # "idle"
      /\ cl.phase # "obligation read" /\ x.phase # "obligation read"
    BY DEF Preparing
<1> QED BY <1>1 DEF InOrder, Current

\* Looking for a token account.
LEMMA CheckAtaInv ==
    ASSUME PositionInv, NEW c \in Takers, Position!CheckAta(c)
    PROVE  PositionInv'
<1>1. PICK cl \in Preparing : cl = takers[c] /\ InOrder(cl, positions) /\ cl.phase = "accounts"
                              /\ cl.mints # <<>>
    <2>1. takers[c] \in Taker /\ takers[c].phase = "accounts" /\ takers[c].mints # <<>>
        BY DEF PositionInv, Position!CheckAta
    <2> QED BY <2>1, TakerPhases DEF PositionInv
<1>2. PICK x : x = IF Head(cl.mints) \in positions.ata THEN [cl EXCEPT !.mints = Tail(cl.mints)]
                   ELSE [cl EXCEPT !.phase = "creating"]
    OBVIOUS
<1>3. positions' = positions /\ takers' = [takers EXCEPT ![c] = x] /\ answers' = answers
    BY <1>1, <1>2 DEF Position!CheckAta
<1>4. PICK m, t : m = cl.mints /\ t = Tail(m)
    OBVIOUS
<1>5. /\ m \in Seq(Reserves \X Position!Kinds) /\ t \in Seq(Reserves \X Position!Kinds)
      /\ Head(m) \in Position!Range(m) /\ Position!Range(t) \subseteq Position!Range(m)
    <2>1. m \in Seq(Reserves \X Position!Kinds) /\ m # <<>>
        BY <1>1, <1>4 DEF Preparing
    <2> QED BY <1>4, <2>1, RangeTail
<1>6. Equipped(cl)
    BY <1>1 DEF InOrder
<1>7. CASE Head(m) \in positions.ata
    <2>1. x = [cl EXCEPT !.mints = t]
        BY <1>2, <1>4, <1>7
    <2>2. x \in Preparing
        BY <1>5, <2>1 DEF Preparing
    <2>3. /\ x.command = cl.command /\ x.reserves = cl.reserves /\ x.feed = cl.feed
          /\ x.excused = cl.excused /\ x.mints = t /\ x.phase = "accounts"
        BY <1>1, <2>1 DEF Preparing
    <2>4. Equipped(x)
        BY <1>4, <1>5, <1>6, <1>7, <2>3 DEF Equipped
    <2>5. InOrder(x, positions)
        BY <1>1, <2>2, <2>3, <2>4, PreparingMoves
    <2> QED BY <1>3, <2>2, <2>5, ClientMoves DEF Taker, Answers
<1>8. CASE Head(m) \notin positions.ata
    <2>1. x = [cl EXCEPT !.phase = "creating"]
        BY <1>2, <1>4, <1>8
    <2>2. x \in Preparing
        BY <2>1 DEF Preparing
    <2>3. /\ x.command = cl.command /\ x.reserves = cl.reserves /\ x.feed = cl.feed
          /\ x.excused = cl.excused /\ x.mints = cl.mints /\ x.phase = "creating"
        BY <2>1 DEF Preparing
    <2>a. cl.excused
        <3>1. ASSUME ~cl.excused PROVE FALSE
            <4>1. Current(cl, positions)
                BY <1>1, <3>1 DEF InOrder
            <4>2. Position!Range(Position!RequiredMints(cl.command)) \subseteq positions.ata
                BY <4>1 DEF Current, Position!Servable
            <4>3. Head(m) \in Position!Range(Position!RequiredMints(cl.command))
                BY <1>4, <1>5, <1>6 DEF Equipped
            <4> QED BY <1>8, <4>2, <4>3
        <3> QED BY <3>1
    <2>4. Equipped(x)
        BY <1>6, <2>a, <2>3 DEF Equipped
    <2>5. InOrder(x, positions)
        BY <1>1, <2>2, <2>3, <2>4, PreparingMoves
    <2> QED BY <1>3, <2>2, <2>5, ClientMoves DEF Taker, Answers
<1> QED BY <1>7, <1>8

\* Sending the transaction.
LEMMA SendInv ==
    ASSUME PositionInv, NEW c \in Takers, Position!Send(c)
    PROVE  PositionInv'
<1>1. PICK cl \in Preparing : cl = takers[c] /\ InOrder(cl, positions) /\ cl.phase = "accounts"
                              /\ cl.mints = <<>>
    <2>1. takers[c] \in Taker /\ takers[c].phase = "accounts" /\ takers[c].mints = <<>>
        BY DEF PositionInv, Position!Send
    <2> QED BY <2>1, TakerPhases DEF PositionInv
<1>2. PICK x : x = [cl EXCEPT !.phase = "sent"]
    OBVIOUS
<1>3. positions' = positions /\ takers' = [takers EXCEPT ![c] = x] /\ answers' = answers
    BY <1>1, <1>2 DEF Position!Send
<1>4. Equipped(cl)
    BY <1>1 DEF InOrder
<1>5. x \in Preparing
    BY <1>2 DEF Preparing
<1>6. /\ x.command = cl.command /\ x.reserves = cl.reserves /\ x.feed = cl.feed
      /\ x.excused = cl.excused /\ x.mints = cl.mints /\ x.phase = "sent"
    BY <1>2 DEF Preparing
<1>7. Equipped(x)
    BY <1>1, <1>4, <1>6 DEF Equipped
<1>8. InOrder(x, positions)
    BY <1>1, <1>5, <1>6, <1>7, PreparingMoves
<1> QED BY <1>3, <1>5, <1>8, ClientMoves DEF Taker, Answers

\* A transaction that creates a token account names the wrong program, and fails.
LEMMA CreationFails ==
    ASSUME NEW mint, NEW arrival
    PROVE  Position!Executed(<<Position!CreateInstruction(mint)>>, arrival) = {}
<1>1. PICK i : i = Position!CreateInstruction(mint)
    OBVIOUS
<1>2. PICK s : s = <<i>>
    OBVIOUS
<1>3. Len(s) = 1 /\ Len(s) \in Nat /\ s[1] = i
    BY <1>2
<1>4. PICK g : /\ Position!Executed(s, arrival) = {Position!Kept(w) : w \in g[Len(s)]}
               /\ g[0] = {Position!Arriving(positions, arrival)}
               /\ \A k \in 1..Len(s) : g[k] = Stepped(g[k - 1], s[k])
    BY <1>3, ExecutedIsLoop
<1>5. \A w : Position!Instruct(w, i) = {}
    <2>1. i.op = "create_ata" /\ i.token_program = "spl_associated_token_account" /\ i.mint = mint
        BY <1>1 DEF Position!CreateInstruction
    <2>2. ASSUME NEW w PROVE Position!Instruct(w, i) = Position!CreateAta(w, i.mint, i.token_program)
        BY <2>1 DEF Position!Instruct
    <2>3. ASSUME NEW w PROVE Position!CreateAta(w, i.mint, i.token_program) = {}
        BY <2>1 DEF Position!CreateAta, Position!Result
    <2> QED BY <2>2, <2>3
<1>6. g[1] = Stepped(g[1 - 1], i)
    BY <1>3, <1>4
<1>7. g[1] = {}
    BY <1>5, <1>6 DEF Stepped
<1> QED BY <1>1, <1>2, <1>3, <1>4, <1>7

\* So the command ends.
LEMMA LandAtaInv ==
    ASSUME PositionInv, NEW c \in Takers, Position!LandAta(c)
    PROVE  PositionInv'
<1>1. PICK arrival : arrival = [fresh |-> {}, payable |-> {}]
    OBVIOUS
<1>2. Position!Executed(<<Position!CreateInstruction(Head(takers[c].mints))>>, arrival) = {}
    BY CreationFails
<1>3. /\ positions' = positions
      /\ Position!Ends(c, IF takers[c].excused THEN "panic" ELSE "panic for no reason")
    BY <1>1, <1>2 DEF Position!LandAta
<1>4. takers[c].phase = "creating" /\ InOrder(takers[c], positions)
    BY DEF PositionInv, Position!LandAta
<1>5. takers[c].excused
    BY <1>4 DEF InOrder, Equipped
<1>6. Position!Ends(c, "panic")
    BY <1>3, <1>5
<1> QED BY <1>3, <1>6, EndsMoves DEF Answers

\* No confirmation comes.
LEMMA ConfirmationLostInv ==
    ASSUME PositionInv, NEW c \in Takers, Position!Expire(c)
    PROVE  PositionInv'
    BY EndsMoves DEF Answers, Position!Expire

\* A client that is disturbed is excused.
LEMMA ExcusedOne ==
    ASSUME NEW cl \in Taker, cl.phase # "idle", NEW w, NEW v, InOrder(cl, w),
           NEW x, x = [cl EXCEPT !.excused = TRUE]
    PROVE  x \in Taker /\ InOrder(x, v)
<1>1. CASE cl \in Reading
    <2>1. x \in Reading /\ x.excused = TRUE /\ x.phase = "obligation read"
        BY <1>1 DEF Reading
    <2> QED BY <2>1 DEF Taker, InOrder
<1>2. CASE cl \in Preparing
    <2>1. x \in Preparing /\ x.excused = TRUE
        BY <1>2 DEF Preparing
    <2>2. x.phase = cl.phase /\ x.command = cl.command /\ x.mints = cl.mints
        BY <1>2 DEF Preparing
    <2>3. Equipped(cl)
        BY <1>2 DEF InOrder, Preparing
    <2>4. Equipped(x)
        BY <2>1, <2>2, <2>3 DEF Equipped
    <2> QED BY <2>1, <2>4 DEF Taker, InOrder
<1> QED BY <1>1, <1>2, TakerPhases

\* The chain changes, and every client is excused or done.
LEMMA ExcusingInv ==
    ASSUME PositionInv, positions' \in Ledger, answers' \in [Takers -> Answers], NEW x, takers' = [d \in Takers |-> x[d]],
           \A d \in Takers : x[d] = [phase |-> "idle"] \/ x[d] = Position!Excusing({})[d]
    PROVE  PositionInv'
<1>0. \A d \in Takers : takers'[d] = x[d]
    OBVIOUS
<1> SUFFICES ASSUME NEW d \in Takers PROVE takers'[d] \in Taker /\ InOrder(takers'[d], positions')
    BY <1>0 DEF PositionInv
<1>1. takers[d] \in Taker /\ InOrder(takers[d], positions)
    BY DEF PositionInv
<1>2. CASE takers'[d] = [phase |-> "idle"]
    BY <1>2 DEF InOrder, Taker, Idle
<1>3. CASE takers'[d] = Position!Excusing({})[d]
    <2>1. CASE takers[d].phase = "idle"
        <3>1. takers'[d] = takers[d]
            BY <1>3, <2>1 DEF Position!Excusing, Position!Busy
        <3> QED BY <1>1, <2>1, <3>1 DEF InOrder
    <2>2. CASE takers[d].phase # "idle"
        <3>1. takers'[d] = [takers[d] EXCEPT !.excused = TRUE]
            BY <1>3, <2>2 DEF Position!Excusing, Position!Busy
        <3> QED BY <1>1, <2>2, <3>1, ExcusedOne
    <2> QED BY <2>1, <2>2
<1> QED BY <1>0, <1>2, <1>3

\* What a transaction leaves.
LEMMA ExecutedTyped ==
    ASSUME positions \in Ledger, NEW cl \in Preparing,
           NEW arrival \in Position!Arrivals,
           NEW u \in Position!Executed(Position!Instructions(cl), arrival)
    PROVE  u \in Ledger
<1>0. cl.command \in Position!Command
    BY DEF Preparing
<1>1. CASE cl.command.op = "redeem"
    <2>1. PICK v \in Position!Instruct(Position!Arriving(positions, arrival), cl.command) : u = Position!Kept(v)
        BY <1>1, ExecutedRedeem
    <2>2. v \in Working
        BY <1>0, <2>1, InstructTyped, ArrivingTyped
    <2> QED BY <2>1, <2>2, KeptTyped
<1>2. CASE cl.command.op # "redeem"
    <2>1. PICK n : n = Len(cl.reserves)
        OBVIOUS
    <2>a. PICK A, Y : A = arrival.fresh /\ Y = arrival.payable
        OBVIOUS
    <2>b. A \in SUBSET Reserves /\ Y \in SUBSET Reserves
        BY <2>a DEF Position!Arrivals
    <2>2. PICK F : F = FirstOf(A, cl, n)
        OBVIOUS
    <2>3. u \in {Position!Kept(v) : v \in
                     IF Agrees(cl, n) /\ cl.reserves = Position!ReservesRead(positions)
                     THEN Position!Instruct(Refreshed(positions, FirstOf(A, cl, n), Y), cl.command)
                     ELSE {}}
        BY <1>2, <2>a, <2>1, ExecutedCommand
    <2>4. PICK v \in Position!Instruct(Refreshed(positions, F, Y), cl.command) : u = Position!Kept(v)
        BY <2>2, <2>3
    <2>5. F \in SUBSET Reserves
        <3>1. cl.reserves \in Seq(Reserves)
            BY DEF Preparing
        <3>2. \A i \in 1..n : cl.reserves[i] \in Reserves
            BY <2>1, <3>1
        <3> QED BY <2>b, <2>2, <3>2 DEF FirstOf
    <2>6. v \in Working
        BY <1>0, <2>b, <2>4, <2>5, InstructTyped, RefreshedTyped
    <2> QED BY <2>4, <2>6, KeptTyped
<1> QED BY <1>1, <1>2

(***************************************************************************)
(* A transaction of a client that nobody disturbed is accepted; one that   *)
(* redeems, when it finds the reserve fresh and able to pay.               *)
(***************************************************************************)
LEMMA CurrentIsServed ==
    ASSUME positions \in Ledger, NEW cl \in Preparing, Current(cl, positions), NEW arrival,
           cl.command.op = "redeem" => cl.command.reserve \in arrival.fresh \cap arrival.payable
    PROVE  Position!Executed(Position!Instructions(cl), arrival) # {}
<1>0. cl.command \in Position!Command /\ cl.phase # "obligation read"
    BY DEF Preparing
<1>1. CASE cl.command.op = "redeem"
    <2>1. PICK r : r = cl.command.reserve
        OBVIOUS
    <2>2. PICK w : w = Position!Arriving(positions, arrival)
        OBVIOUS
    <2>3. /\ w.wallet = positions.wallet /\ w.ata = positions.ata
          /\ w.fresh = arrival.fresh /\ w.payable = arrival.payable
        BY <2>2 DEF Position!Arriving
    <2>4. positions.wallet[r] > 0
        BY <1>1, <2>1 DEF Current, Position!Servable
    <2>5. {<<r, k>> : k \in Position!Kinds} \subseteq positions.ata
        <3>1. Position!Range(Position!RequiredMints(cl.command)) \subseteq positions.ata
            BY DEF Current, Position!Servable
        <3> QED BY <1>1, <2>1, <3>1, MintsRequired
    <2>6. Position!RedeemReserveCollateral(w, r) # {}
        BY <1>1, <2>1, <2>3, <2>4, <2>5 DEF Position!RedeemReserveCollateral, Position!Result
    <2>7. Position!Instruct(w, cl.command) # {}
        BY <1>1, <2>1, <2>6, InstructCommand
    <2>8. PICK S : S = Position!Instruct(w, cl.command)
        OBVIOUS
    <2>9. Position!Executed(Position!Instructions(cl), arrival) = {Position!Kept(v) : v \in S}
        BY <1>1, <2>2, <2>8, ExecutedRedeem
    <2> QED BY <2>7, <2>8, <2>9
<1>2. CASE cl.command.op # "redeem"
    <2>1. PICK n : n = Len(cl.reserves)
        OBVIOUS
    <2>a. PICK A, Y : A = arrival.fresh /\ Y = arrival.payable
        OBVIOUS
    <2>2. PICK F : F = FirstOf(A, cl, n)
        OBVIOUS
    <2>3. cl.reserves = Position!ReservesRead(positions) /\ cl.feed = positions.feed
        BY <1>0, <1>2 DEF Current
    <2>4. Agrees(cl, n)
        BY <2>3 DEF Agrees
    <2>5. Position!Range(Position!ReservesRead(positions)) \subseteq F
        <3>1. cl.reserves \in Seq(Reserves)
            BY DEF Preparing
        <3>2. DOMAIN cl.reserves = 1..n
            BY <2>1, <3>1
        <3> QED BY <2>2, <2>3, <3>2 DEF FirstOf, Position!Range
    <2>6. /\ \A i \in 1..Len(positions.deposits) : positions.deposits[i].reserve \in F
          /\ \A i \in 1..Len(positions.borrows) : positions.borrows[i].reserve \in F
        BY <2>5, ReservesReadTyped
    <2>7. Position!Servable(positions, cl.command)
        BY DEF Current
    <2>8. Position!Instruct(Refreshed(positions, F, Y), cl.command) # {}
        BY <1>0, <1>2, <2>6, <2>7, ServedCommand
    <2>9. Position!Executed(Position!Instructions(cl), arrival)
              = {Position!Kept(v) : v \in Position!Instruct(Refreshed(positions, F, Y), cl.command)}
        BY <1>2, <2>a, <2>1, <2>2, <2>3, <2>4, ExecutedCommand
    <2> QED BY <2>8, <2>9
<1> QED BY <1>1, <1>2

\* A transaction lands.
LEMMA LandInv ==
    ASSUME PositionInv, NEW c \in Takers, Position!Land(c)
    PROVE  PositionInv'
<1>1. PICK cl \in Preparing : cl = takers[c] /\ InOrder(cl, positions) /\ cl.phase = "sent"
    <2>1. takers[c] \in Taker /\ takers[c].phase = "sent"
        BY DEF PositionInv, Position!Land
    <2> QED BY <2>1, TakerPhases DEF PositionInv
<1>a. PICK arrival \in Position!Arrivals :
         LET after == Position!Executed(Position!Instructions(cl), arrival)
         IN  \/ /\ after # {} /\ positions' \in after
                /\ takers' = [Position!Excusing({c}) EXCEPT ![c] = [phase |-> "idle"]]
                /\ answers' = [answers EXCEPT ![c] = "ok"]
             \/ /\ after = {}
                /\ Position!Ends(c, Position!Failure(cl, arrival))
                /\ positions' = positions
    BY <1>1 DEF Position!Land
<1>2. PICK after : after = Position!Executed(Position!Instructions(cl), arrival)
    OBVIOUS
<1>3. positions \in Ledger
    BY DEF PositionInv
<1>4. CASE after # {}
    <2>1. /\ positions' \in after
          /\ takers' = [Position!Excusing({c}) EXCEPT ![c] = [phase |-> "idle"]]
          /\ answers' = [answers EXCEPT ![c] = "ok"]
        BY <1>a, <1>2, <1>4
    <2>2. positions' \in Ledger
        BY <1>2, <1>3, <2>1, ExecutedTyped
    <2>3. PICK x : x = [Position!Excusing({c}) EXCEPT ![c] = [phase |-> "idle"]]
        OBVIOUS
    <2>4. takers' = [d \in Takers |-> x[d]]
        BY <2>1, <2>3 DEF Position!Excusing
    <2>5. \A d \in Takers : x[d] = [phase |-> "idle"] \/ x[d] = Position!Excusing({})[d]
        BY <2>3 DEF Position!Excusing
    <2>6. answers' \in [Takers -> Answers]
        BY <2>1 DEF PositionInv, Answers
    <2> QED BY <2>2, <2>4, <2>5, <2>6, ExcusingInv
<1>5. CASE after = {}
    <2>1. positions' = positions /\ Position!Ends(c, Position!Failure(cl, arrival))
        BY <1>a, <1>2, <1>5
    <2>2. ASSUME ~cl.excused
          PROVE  /\ cl.command.op = "redeem"
                 /\ cl.command.reserve \notin arrival.fresh \/ cl.command.reserve \notin arrival.payable
        <3>1. Current(cl, positions)
            BY <1>1, <2>2 DEF InOrder
        <3> QED BY <1>2, <1>3, <1>5, <3>1, CurrentIsServed
    <2>3. Position!Failure(cl, arrival) = "failed"
        BY <2>2 DEF Position!Failure
    <2> QED BY <2>1, <2>3, EndsMoves DEF Answers
<1> QED BY <1>4, <1>5

\* Others add to positions.
LEMMA GrownSpots ==
    ASSUME NEW s \in Seq(Spot), NEW r \in Reserves, NEW t \in Position!Grown(s, r)
    PROVE  t \in Seq(Spot)
<1>1. PICK i : i = Position!IndexOf(s, r)
    OBVIOUS
<1>2. CASE i = 0
    <2>1. t = Append(s, [reserve |-> r, amount |-> 1])
        BY <1>1, <1>2 DEF Position!Grown, Position!Result
    <2>2. [reserve |-> r, amount |-> 1] \in Spot
        BY DEF Spot
    <2> QED BY <2>1, <2>2
<1>3. CASE i # 0
    <2>1. i \in 1..Len(s)
        BY <1>1, <1>3, IndexPlace
    <2>2. PICK n \in {s[i].amount + 1} : t = [s EXCEPT ![i].amount = n]
        BY <1>1, <1>3 DEF Position!Grown
    <2>3. PICK p \in Spot : p = s[i]
        BY <2>1
    <2>4. n \in Nat
        BY <2>2, <2>3 DEF Spot
    <2>5. [p EXCEPT !.amount = n] \in Spot
        BY <2>4 DEF Spot
    <2>6. t = [s EXCEPT ![i] = [p EXCEPT !.amount = n]]
        BY <2>2, <2>3
    <2> QED BY <2>1, <2>5, <2>6
<1> QED BY <1>2, <1>3

\* Others take from positions.
LEMMA ShrunkSpots ==
    ASSUME NEW s \in Seq(Spot), NEW r, NEW t \in Position!Shrunk(s, r)
    PROVE  t \in Seq(Spot)
<1>1. PICK i : i = Position!IndexOf(s, r)
    OBVIOUS
<1>2. i # 0 /\ s[i].amount # 0 /\ t = Position!Reduced(s, i, 1)
    BY <1>1 DEF Position!Shrunk
<1>3. i \in 1..Len(s)
    BY <1>1, <1>2, IndexPlace
<1>4. 1 \in 1..s[i].amount
    <2>1. s[i] \in Spot
        BY <1>3
    <2> QED BY <1>2, <2>1 DEF Spot
<1> QED BY <1>2, <1>3, <1>4, ReducedSpots

\* What others leave on the chain.
LEMMA OtherTyped ==
    ASSUME positions \in Ledger, NEW u \in Position!OtherOutcomes
    PROVE  u \in Ledger
<1>1. positions.deposits \in Seq(Spot) /\ positions.borrows \in Seq(Spot)
    BY DEF Ledger
<1>2. CASE u = Position!RefreshedPositions(positions)
    <2>1. PICK d, b : d = Position!Retained(positions.deposits) /\ b = Position!HeaviestFirst(positions.borrows)
        OBVIOUS
    <2>2. d \in Seq(Spot)
        BY <1>1, <2>1, RetainedKeeps DEF Keeps
    <2>3. b \in Seq(Spot)
        BY <1>1, <2>1, HeaviestFirstList
    <2>4. u = [positions EXCEPT !.borrows = b, !.deposits = d]
        BY <1>2, <2>1 DEF Position!RefreshedPositions
    <2> QED BY <2>2, <2>3, <2>4 DEF Ledger
<1>3. CASE u = [positions EXCEPT !.unhealthy = ~positions.unhealthy]
    BY <1>3 DEF Ledger
<1>4. CASE \E r \in Reserves : \E d \in Position!Grown(positions.deposits, r) :
          u = [positions EXCEPT !.deposits = d]
    <2>0. PICK r \in Reserves : \E d \in Position!Grown(positions.deposits, r) :
              u = [positions EXCEPT !.deposits = d]
        BY <1>4
    <2>1. PICK d \in Position!Grown(positions.deposits, r) : u = [positions EXCEPT !.deposits = d]
        BY <2>0
    <2>2. d \in Seq(Spot)
        BY <1>1, <2>1, GrownSpots
    <2> QED BY <2>1, <2>2 DEF Ledger
<1>5. CASE \E r \in Reserves : \E b \in Position!Grown(positions.borrows, r)
          \cup Position!Shrunk(positions.borrows, r) :
              u = [positions EXCEPT !.borrows = b]
    <2>0. PICK r \in Reserves :
              \E b \in Position!Grown(positions.borrows, r) \cup Position!Shrunk(positions.borrows, r) :
                 u = [positions EXCEPT !.borrows = b]
        BY <1>5
    <2>1. PICK b \in Position!Grown(positions.borrows, r) \cup Position!Shrunk(positions.borrows, r) :
              u = [positions EXCEPT !.borrows = b]
        BY <2>0
    <2>2. b \in Seq(Spot)
        BY <1>1, <2>1, GrownSpots, ShrunkSpots
    <2> QED BY <2>1, <2>2 DEF Ledger
<1>6. CASE \E r \in Reserves, f \in Feeds : u = [positions EXCEPT !.feed[r] = f]
    <2>1. PICK r \in Reserves, f \in Feeds :
              u = [positions EXCEPT !.feed = [positions.feed EXCEPT ![r] = f]]
        BY <1>6
    <2>2. [positions.feed EXCEPT ![r] = f] \in [Reserves -> AnyFeed]
        <3>1. positions.feed \in [Reserves -> AnyFeed] /\ f \in AnyFeed
            BY DEF Ledger, AnyFeed
        <3> QED BY <3>1
    <2> QED BY <2>1, <2>2 DEF Ledger
<1>7. CASE \E mint \in Reserves \X Position!Kinds :
          u = [positions EXCEPT !.ata = positions.ata \cup {mint}]
    <2>1. PICK mint \in Reserves \X Position!Kinds :
              u = [positions EXCEPT !.ata = positions.ata \cup {mint}]
        BY <1>7
    <2> QED BY <2>1 DEF Ledger
<1>8. \/ u = Position!RefreshedPositions(positions) \/ u = [positions EXCEPT !.unhealthy = ~positions.unhealthy]
      \/ \E r \in Reserves : \E d \in Position!Grown(positions.deposits, r) :
          u = [positions EXCEPT !.deposits = d]
      \/ \E r \in Reserves : \E b \in Position!Grown(positions.borrows, r)
          \cup Position!Shrunk(positions.borrows, r) :
            u = [positions EXCEPT !.borrows = b]
      \/ \E r \in Reserves, f \in Feeds : u = [positions EXCEPT !.feed[r] = f]
      \/ \E mint \in Reserves \X Position!Kinds :
          u = [positions EXCEPT !.ata = positions.ata \cup {mint}]
    <2> DEFINE A == UNION {{[positions EXCEPT !.deposits = d] :
            d \in Position!Grown(positions.deposits, r)} : r \in Reserves}
               B == UNION {{[positions EXCEPT !.borrows = b] :
                               b \in Position!Grown(positions.borrows, r)
                                       \cup Position!Shrunk(positions.borrows, r)} : r \in Reserves}
               C == {[positions EXCEPT !.feed[r] = f] : r \in Reserves, f \in Feeds}
               D == {[positions EXCEPT !.ata = positions.ata \cup {mint}] :
                   mint \in Reserves \X Position!Kinds}
               E == {Position!RefreshedPositions(positions),
                   [positions EXCEPT !.unhealthy = ~positions.unhealthy]}
    <2>0. Position!OtherOutcomes = E \cup A \cup B \cup C \cup D
        BY DEF Position!OtherOutcomes
    <2>1. u \in E \cup A \cup B \cup C \cup D
        <3> HIDE DEF A, B, C, D, E
        <3> QED BY <2>0
    <2>2. CASE u \in A
        <3>1. PICK r \in Reserves :
                  u \in {[positions EXCEPT !.deposits = d] : d \in Position!Grown(positions.deposits, r)}
            BY <2>2
        <3>2. \E d \in Position!Grown(positions.deposits, r) : u = [positions EXCEPT !.deposits = d]
            BY <3>1
        <3> QED BY <3>2
    <2>3. CASE u \in B
        <3>1. PICK r \in Reserves :
                  u \in {[positions EXCEPT !.borrows = b] :
                            b \in Position!Grown(positions.borrows, r)
                                \cup Position!Shrunk(positions.borrows, r)}
            BY <2>3
        <3>2. \E b \in Position!Grown(positions.borrows, r) \cup Position!Shrunk(positions.borrows, r) :
                 u = [positions EXCEPT !.borrows = b]
            BY <3>1
        <3> QED BY <3>2
    <2>4. CASE u \in C
        BY <2>4
    <2>5. CASE u \in D
        BY <2>5
    <2>6. CASE u \in E
        BY <2>6
    <2> HIDE DEF A, B, C, D, E
    <2>7. u \in A \/ u \in B \/ u \in C \/ u \in D \/ u \in E
        BY <2>1
    <2> QED BY <2>2, <2>3, <2>4, <2>5, <2>6, <2>7, Zenon
<1> QED BY <1>2, <1>3, <1>4, <1>5, <1>6, <1>7, <1>8

\* A step of others.
LEMMA OtherStepInv ==
    ASSUME PositionInv, Position!OtherStep
    PROVE  PositionInv'
<1>1. positions' \in Position!OtherOutcomes /\ takers' = Position!Excusing({}) /\ answers' = answers
    BY DEF Position!OtherStep
<1>2. positions' \in Ledger
    BY <1>1, OtherTyped DEF PositionInv
<1>3. PICK x : x = Position!Excusing({})
    OBVIOUS
<1>4. takers' = [d \in Takers |-> x[d]]
    BY <1>1, <1>3 DEF Position!Excusing
<1>5. answers' \in [Takers -> Answers]
    BY <1>1 DEF PositionInv
<1> QED BY <1>2, <1>3, <1>4, <1>5, ExcusingInv

\* The first state.
LEMMA InitPositionInv ==
    ASSUME Position!Init
    PROVE  PositionInv
<1>1. /\ Deposits0 \in Seq(Position!Position) /\ Borrows0 \in Seq(Position!Position)
      /\ Atas0 \subseteq SUBSET (Reserves \X Position!Kinds) /\ MaxAmount \in Nat
    BY CommandLineAssumption DEF Position!PositionAssumption
<1>2. Deposits0 \in Seq(Spot) /\ Borrows0 \in Seq(Spot)
    <2>1. Position!Position \subseteq Spot
        BY <1>1 DEF Position!Position, Spot
    <2> QED BY <1>1, <2>1
<1>3. PICK mints \in Atas0 :
          positions = [deposits |-> Deposits0, borrows |-> Borrows0, unhealthy |-> TRUE,
                       feed |-> [r \in Reserves |-> CHOOSE f \in Feeds : TRUE],
                       wallet |-> [r \in Reserves |-> 0], ata |-> mints]
    BY DEF Position!Init
<1>4. positions \in Ledger
    <2>1. [r \in Reserves |-> CHOOSE f \in Feeds : TRUE] \in [Reserves -> AnyFeed]
        BY DEF AnyFeed
    <2>2. [r \in Reserves |-> 0] \in [Reserves -> Nat]
        OBVIOUS
    <2>3. mints \in SUBSET (Reserves \X Position!Kinds)
        BY <1>1
    <2>4. PICK g, l : g = [r \in Reserves |-> CHOOSE f \in Feeds : TRUE] /\ l = [r \in Reserves |-> 0]
        OBVIOUS
    <2>5. positions = [deposits |-> Deposits0, borrows |-> Borrows0, unhealthy |-> TRUE,
                       feed |-> g, wallet |-> l, ata |-> mints]
        BY <1>3, <2>4, Zenon
    <2> QED BY <1>2, <2>1, <2>2, <2>3, <2>4, <2>5 DEF Ledger
<1>5. /\ takers = [c \in Takers |-> [phase |-> "idle"]] /\ answers = [c \in Takers |-> "nothing"]
    BY DEF Position!Init
<1>6. takers \in [Takers -> Taker] /\ answers \in [Takers -> Answers]
    BY <1>5 DEF Taker, Idle, Answers
<1>7. \A c \in Takers : InOrder(takers[c], positions)
    BY <1>5 DEF InOrder
<1> QED BY <1>4, <1>6, <1>7 DEF PositionInv

\* Every step keeps the invariant.
LEMMA NextPositionInv ==
    ASSUME PositionInv, [Position!Next]_positionVars
    PROVE  PositionInv'
<1>1. CASE UNCHANGED positionVars
    BY <1>1 DEF positionVars, PositionInv
<1>2. ASSUME NEW c \in Takers, Position!ClientStep(c) PROVE PositionInv'
    <2>1. TakerCommands \subseteq Position!Command
        BY CommandLineAssumption DEF Position!PositionAssumption
    <2>2. CASE \E command \in TakerCommands : Position!ReadObligation(c, command)
        BY <2>1, <2>2, ReadObligationInv
    <2> QED BY <1>2, <2>2, ReadReservesInv, CheckAtaInv, SendInv, LandAtaInv,
            LandInv, ConfirmationLostInv
            DEF Position!ClientStep
<1> QED BY <1>1, <1>2, OtherStepInv DEF Position!Next

\* client c learns that its command on the obligation has been done
Acts(c) ==
    /\ takers[c].phase = "sent" /\ takers'[c].phase = "idle" /\ answers'[c] = "ok"
    /\ takers[c].command.op # "redeem"

\* An excused client is where it was.
LEMMA ExcusedPhase ==
    ASSUME PositionInv, NEW c \in Takers, NEW S, c \notin S
    PROVE  Position!Excusing(S)[c].phase = takers[c].phase
<1>1. takers[c] \in Taker
    BY DEF PositionInv
<1>2. CASE takers[c].phase = "idle"
    BY <1>2 DEF Position!Excusing, Position!Busy
<1>3. CASE takers[c].phase # "idle"
    <2>1. Position!Excusing(S)[c] = [takers[c] EXCEPT !.excused = TRUE]
        BY <1>3 DEF Position!Excusing, Position!Busy
    <2>2. CASE takers[c] \in Reading
        BY <2>1, <2>2 DEF Reading
    <2>3. CASE takers[c] \in Preparing
        BY <2>1, <2>3 DEF Preparing
    <2> QED BY <1>1, <1>3, <2>2, <2>3, TakerPhases
<1> QED BY <1>2, <1>3

\* Only its own transaction ends a client that waits for it.
LEMMA ActsByLanding ==
    ASSUME PositionInv, [Position!Next]_positionVars, NEW c \in Takers, Acts(c)
    PROVE  /\ Position!Land(c)
           /\ \E arrival \in Position!Arrivals :
                 Position!Executed(Position!Instructions(takers[c]), arrival) # {}
<1>1. /\ takers \in [Takers -> Taker] /\ answers \in [Takers -> Answers]
      /\ takers[c].phase = "sent" /\ takers'[c].phase = "idle" /\ answers'[c] = "ok"
    BY DEF PositionInv, Acts
<1>2. ~ UNCHANGED positionVars
    BY <1>1 DEF positionVars
<1>3. ~ Position!OtherStep
    <2>1. ASSUME Position!OtherStep PROVE FALSE
        <3>1. takers' = Position!Excusing({})
            BY <2>1 DEF Position!OtherStep
        <3> QED BY <1>1, <3>1, ExcusedPhase
    <2> QED BY <2>1
<1>4. PICK d \in Takers : Position!ClientStep(d)
    BY <1>2, <1>3 DEF Position!Next
<1>5. CASE Position!Land(d)
    <2>a. PICK arrival \in Position!Arrivals :
             LET after == Position!Executed(Position!Instructions(takers[d]), arrival)
             IN  \/ /\ after # {} /\ positions' \in after
                    /\ takers' = [Position!Excusing({d}) EXCEPT ![d] = [phase |-> "idle"]]
                    /\ answers' = [answers EXCEPT ![d] = "ok"]
                 \/ /\ after = {}
                    /\ Position!Ends(d, Position!Failure(takers[d], arrival))
                    /\ positions' = positions
        BY <1>5 DEF Position!Land
    <2>1. PICK after : after = Position!Executed(Position!Instructions(takers[d]), arrival)
        OBVIOUS
    <2>2. CASE after # {}
        <3>1. takers' = [Position!Excusing({d}) EXCEPT ![d] = [phase |-> "idle"]]
            BY <2>a, <2>1, <2>2
        <3>2. ASSUME d # c PROVE FALSE
            <4>1. takers'[c] = Position!Excusing({d})[c]
                BY <3>1, <3>2 DEF Position!Excusing
            <4>2. Position!Excusing({d})[c].phase = takers[c].phase
                BY <3>2, ExcusedPhase
            <4> QED BY <1>1, <4>1, <4>2
        <3> QED BY <1>5, <2>1, <2>2, <3>2
    <2>3. CASE after = {}
        <3>a. Position!Ends(d, Position!Failure(takers[d], arrival))
            BY <2>a, <2>1, <2>3
        <3>1. PICK a \in {"failed", "failed for no reason"} : Position!Ends(d, a)
            BY <3>a DEF Position!Failure
        <3>2. takers' = [takers EXCEPT ![d] = [phase |-> "idle"]] /\ answers' = [answers EXCEPT ![d] = a]
            BY <3>1 DEF Position!Ends
        <3> QED BY <1>1, <3>2
    <2> QED BY <2>2, <2>3
<1>6. CASE Position!LandAta(d)
    <2>a. PICK arrival : arrival = [fresh |-> {}, payable |-> {}]
        OBVIOUS
    <2>1. Position!Executed(<<Position!CreateInstruction(Head(takers[d].mints))>>, arrival) = {}
        BY CreationFails
    <2>2. Position!Ends(d, IF takers[d].excused THEN "panic" ELSE "panic for no reason")
        BY <1>6, <2>a, <2>1 DEF Position!LandAta
    <2> QED BY <1>1, <2>2 DEF Position!Ends
<1>7. CASE Position!Expire(d)
    <2>1. Position!Ends(d, "expired")
        BY <1>7 DEF Position!Expire
    <2> QED BY <1>1, <2>1 DEF Position!Ends
<1>8. ASSUME NEW x, takers' = [takers EXCEPT ![d] = x], takers[d].phase # "sent" PROVE FALSE
    BY <1>1, <1>8
<1>9. CASE \E command \in TakerCommands : Position!ReadObligation(d, command)
    <2>1. PICK command \in TakerCommands : Position!ReadObligation(d, command)
        BY <1>9
    <2> QED BY <1>8, <2>1 DEF Position!ReadObligation, Position!Busy
<1>10. CASE Position!ReadReserves(d)
    BY <1>8, <1>10 DEF Position!ReadReserves, Position!Ends
<1>11. CASE Position!CheckAta(d)
    BY <1>8, <1>11 DEF Position!CheckAta
<1>12. CASE Position!Send(d)
    <2>1. takers[d].phase = "accounts" /\ takers' = [takers EXCEPT ![d] = [takers[d] EXCEPT !.phase = "sent"]]
        BY <1>12 DEF Position!Send
    <2> QED BY <1>8, <2>1
<1> QED BY <1>4, <1>5, <1>6, <1>7, <1>9, <1>10, <1>11, <1>12 DEF Position!ClientStep

\* What such a client has read is still there.
LEMMA ActsAsRead ==
    ASSUME PositionInv, [Position!Next]_positionVars, NEW c \in Takers, Acts(c)
    PROVE  /\ takers[c].reserves = Position!ReservesOf(positions.deposits)
                                         \o Position!ReservesOf(positions.borrows)
           /\ \A r \in Position!Range(takers[c].reserves) : takers[c].feed[r] = positions.feed[r]
<1>1. PICK cl : cl = takers[c]
    OBVIOUS
<1>2. cl \in Preparing /\ cl.command.op # "redeem"
    <2>1. takers[c] \in Taker /\ takers[c].phase = "sent" /\ takers[c].command.op # "redeem"
        BY DEF PositionInv, Acts
    <2> QED BY <1>1, <2>1, TakerPhases
<1>3. PICK n : n = Len(cl.reserves)
    OBVIOUS
<1>4. PICK arrival \in Position!Arrivals : Position!Executed(Position!Instructions(cl), arrival) # {}
    BY <1>1, ActsByLanding
<1>5. Agrees(cl, n) /\ cl.reserves = Position!ReservesRead(positions)
    BY <1>2, <1>3, <1>4, ExecutedCommand
<1>6. cl.reserves = Position!ReservesOf(positions.deposits) \o Position!ReservesOf(positions.borrows)
    BY <1>5, Zenon DEF Position!ReservesRead
<1>7. DOMAIN cl.reserves = 1..n
    BY <1>2, <1>3 DEF Preparing
<1>8. ASSUME NEW r \in Position!Range(cl.reserves) PROVE cl.feed[r] = positions.feed[r]
    <2>1. PICK i \in DOMAIN cl.reserves : r = cl.reserves[i]
        BY DEF Position!Range
    <2> QED BY <1>5, <1>7, <2>1 DEF Agrees
<1> QED BY <1>1, <1>6, <1>8

(***************************************************************************)
(* A command that can be served with the token accounts there are is       *)
(* served when nobody interferes, for any positions, any number of clients *)
(* and of steps of others: the client finds its reserves and its token     *)
(* accounts, the list of reserves it puts together is the one              *)
(* refresh_obligation asks for, and refreshing drops and swaps nothing     *)
(* that the command needs.  redeem-collateral refreshes nothing and is     *)
(* served when it finds the reserve fresh and able to pay.                 *)
(***************************************************************************)
THEOREM UndisturbedIsServed == CommandLineSpec => []NeverRefusedUndisturbed
<1>1. CommandLineInit => PositionInv
    BY InitPositionInv DEF CommandLineInit
<1>2. [CommandLineNext]_commandLineVars => [Position!Next]_positionVars
    BY DEF CommandLineNext, SettingsStep, AddReserveStep, ObligationStep, commandLineVars
<1>3. ASSUME PositionInv, [CommandLineNext]_commandLineVars PROVE PositionInv'
    <2>1. [Position!Next]_positionVars
        BY <1>2, <1>3
    <2> QED BY <1>3, <2>1, NextPositionInv
<1>4. PositionInv => NeverRefusedUndisturbed
    BY DEF PositionInv, Answers, NeverRefusedUndisturbed, Position!NeverRefusedUndisturbed
<1> QED BY <1>1, <1>3, <1>4, PTL DEF CommandLineSpec

(***************************************************************************)
(* liquidate-obligation and withdraw-collateral act on the positions they  *)
(* have read or not at all, whatever others do between the two reads and   *)
(* the transaction: when it takes effect the positions of the obligation   *)
(* and the oracles of their reserves are, one by one, those that were      *)
(* read.                                                                   *)
(***************************************************************************)
THEOREM ActedOnWhatWasRead == CommandLineSpec => ActsOnWhatWasRead
<1>1. CommandLineInit => PositionInv
    BY InitPositionInv DEF CommandLineInit
<1>2. [CommandLineNext]_commandLineVars => [Position!Next]_positionVars
    BY DEF CommandLineNext, SettingsStep, AddReserveStep, ObligationStep, commandLineVars
<1>3. PositionInv /\ [CommandLineNext]_commandLineVars => PositionInv'
    <2> SUFFICES ASSUME PositionInv, [CommandLineNext]_commandLineVars PROVE PositionInv'
        OBVIOUS
    <2>1. [Position!Next]_positionVars
        BY <1>2
    <2> QED BY <2>1, NextPositionInv
<1>4. PositionInv /\ [CommandLineNext]_commandLineVars
         => [\A c \in Takers :
               /\ takers[c].phase = "sent" /\ takers'[c].phase = "idle" /\ answers'[c] = "ok"
               /\ takers[c].command.op # "redeem"
               => /\ takers[c].reserves = Position!ReservesOf(positions.deposits)
                                             \o Position!ReservesOf(positions.borrows)
                  /\ \A r \in Position!Range(takers[c].reserves) :
                        takers[c].feed[r] = positions.feed[r]]_(Position!vars)
    <2> SUFFICES ASSUME PositionInv, [CommandLineNext]_commandLineVars, NEW c \in Takers, Acts(c)
        PROVE  /\ takers[c].reserves = Position!ReservesOf(positions.deposits)
                                             \o Position!ReservesOf(positions.borrows)
               /\ \A r \in Position!Range(takers[c].reserves) : takers[c].feed[r] = positions.feed[r]
        BY DEF Acts
    <2>1. [Position!Next]_positionVars
        BY <1>2
    <2> QED BY <2>1, ActsAsRead
<1> QED BY <1>1, <1>3, <1>4, PTL DEF CommandLineSpec, ActsOnWhatWasRead, Position!ActsOnWhatWasRead
=============================================================================
