------------------------- MODULE MarketBooksProofs -------------------------
(***************************************************************************)
(* Proofs about the books of a market: what its obligations hold and owe,  *)
(* against what its reserves and token accounts record; what leaves a      *)
(* reserve whose limiter lets nothing out; and that the copies a client    *)
(* keeps (OffchainView) can be refreshed.                                  *)
(***************************************************************************)
EXTENDS OffchainView, LendingMarketProofs

-----------------------------------------------------------------------------
(* Collateral of one obligation.                                           *)

\* what each deposit in the list s holds of reserve r
HeldIn(s, r) ==
    [i \in 1..Len(s) |-> IF s[i].deposit_reserve = r THEN s[i].deposited_amount ELSE 0]

HeldSum(s, r) == SumFunctionOnSet(HeldIn(s, r), 1..Len(s))

\* Its parts are natural numbers.
LEMMA HeldParts ==
    ASSUME NEW s \in Seq(ObligationCollateral), NEW r
    PROVE  /\ Len(s) \in Nat /\ DOMAIN s = 1..Len(s) /\ IsFiniteSet(1..Len(s))
           /\ \A i \in 1..Len(s) : /\ s[i] \in ObligationCollateral
                                   /\ s[i].deposited_amount \in Nat
                                   /\ HeldIn(s, r)[i] \in Nat
           /\ HeldSum(s, r) \in Nat
<1>1. Len(s) \in Nat /\ DOMAIN s = 1..Len(s)
    OBVIOUS
<1>2. IsFiniteSet(1..Len(s))
    BY <1>1, FS_Interval
<1>3. ASSUME NEW i \in 1..Len(s)
      PROVE  s[i] \in ObligationCollateral /\ s[i].deposited_amount \in Nat /\ HeldIn(s, r)[i] \in Nat
    <2>1. s[i] \in ObligationCollateral
        OBVIOUS
    <2>2. s[i].deposited_amount \in Nat
        BY <2>1, WadAssumption DEF ObligationCollateral, U64
    <2> QED BY <2>1, <2>2 DEF HeldIn
<1>4. HeldSum(s, r) \in Nat
    BY <1>2, <1>3, SumNat DEF HeldSum
<1> QED BY <1>1, <1>2, <1>3, <1>4

\* HeldCollateral, as this sum.
LEMMA HeldIsSum ==
    ASSUME NEW ob \in ObligationRec, NEW r
    PROVE  HeldCollateral(ob, r) = HeldSum(ob.deposits, r)
<1>1. ob.deposits \in Seq(ObligationCollateral)
    BY DEF ObligationRec
<1>2. DOMAIN ob.deposits = 1..Len(ob.deposits)
    BY <1>1
<1> QED BY <1>2 DEF HeldCollateral, SumOver, SumFunction, HeldSum, HeldIn

\* A deposit adds to what is held of its reserve, and of no other.
LEMMA DepositHeld ==
    ASSUME NEW ob \in ObligationRec, NEW r \in Reserves, NEW x \in Nat,
           ObligationDeposit(ob, r, x) \in ObligationRec, NEW q
    PROVE  HeldCollateral(ObligationDeposit(ob, r, x), q)
              = HeldCollateral(ob, q) + (IF q = r THEN x ELSE 0)
<1>1. PICK s : s = ob.deposits
    OBVIOUS
<1>2. PICK t : t = ObligationDeposit(ob, r, x).deposits
    OBVIOUS
<1>3. s \in Seq(ObligationCollateral) /\ t \in Seq(ObligationCollateral)
    BY <1>1, <1>2 DEF ObligationRec
<1>4. HeldSum(t, q) = HeldSum(s, q) + (IF q = r THEN x ELSE 0)
    <2>0. PICK i : i = DepositIndex(ob, r)
        OBVIOUS
    <2>1. CASE i # 0
        <3>1. i \in 1..Len(s) /\ s[i].deposit_reserve = r
            BY <1>1, <2>0, <2>1, DepositIndexIn
        <3>2. t = [s EXCEPT ![i].deposited_amount = @ + x]
            BY <1>1, <1>2, <2>0, <2>1 DEF ObligationDeposit, ObligationRec
        <3>3. /\ Len(t) = Len(s) /\ t[i] = [s[i] EXCEPT !.deposited_amount = @ + x]
              /\ \A k \in (1..Len(s)) \ {i} : t[k] = s[k]
            BY <1>3, <3>1, <3>2
        <3>4. t[i].deposit_reserve = r /\ t[i].deposited_amount = s[i].deposited_amount + x
            BY <1>3, <3>1, <3>3, HeldParts DEF ObligationCollateral
        <3>5. /\ \A k \in (1..Len(s)) \ {i} : HeldIn(t, q)[k] = HeldIn(s, q)[k]
              /\ HeldIn(t, q)[i] = HeldIn(s, q)[i] + (IF q = r THEN x ELSE 0)
            <4>1. s[i].deposited_amount \in Nat /\ s[i].deposit_reserve = r
                BY <1>3, <3>1, HeldParts
            <4>2. \A k \in (1..Len(s)) \ {i} : HeldIn(t, q)[k] = HeldIn(s, q)[k]
                BY <3>3 DEF HeldIn
            <4>3. HeldIn(t, q)[i] = IF r = q THEN s[i].deposited_amount + x ELSE 0
                BY <3>1, <3>3, <3>4 DEF HeldIn
            <4>4. HeldIn(s, q)[i] = IF r = q THEN s[i].deposited_amount ELSE 0
                BY <3>1 DEF HeldIn
            <4> QED BY <4>1, <4>2, <4>3, <4>4
        <3>6. SumFunctionOnSet(HeldIn(t, q), 1..Len(s)) + HeldIn(s, q)[i]
                 = SumFunctionOnSet(HeldIn(s, q), 1..Len(s)) + HeldIn(t, q)[i]
            <4>1. DiffersAt(i, 1..Len(s), HeldIn(s, q), HeldIn(t, q))
                BY <1>3, <3>1, <3>3, <3>5, HeldParts DEF DiffersAt
            <4> QED BY <4>1, SumChange
        <3>7. HeldSum(t, q) + HeldIn(s, q)[i] = HeldSum(s, q) + HeldIn(t, q)[i]
            BY <3>3, <3>6 DEF HeldSum
        <3>8. HeldSum(t, q) \in Nat /\ HeldSum(s, q) \in Nat /\ HeldIn(s, q)[i] \in Nat
            BY <1>3, <3>1, HeldParts
        <3> QED BY <3>5, <3>7, <3>8
    <2>2. CASE i = 0
        <3>1. PICK e : e = [deposit_reserve |-> r, deposited_amount |-> x, market_value |-> 0]
            OBVIOUS
        <3>2. t = Append(s, e)
            BY <1>1, <1>2, <2>0, <2>2, <3>1 DEF ObligationDeposit, ObligationRec
        <3>3. PICK n \in Nat : n = Len(s)
            BY <1>3
        <3>4. /\ Len(t) = n + 1 /\ t[n + 1] = e
              /\ \A k \in 1..n : t[k] = s[k]
            BY <1>3, <3>2, <3>3
        <3>5. /\ \A k \in 1..n : HeldIn(s, q)[k] \in Nat /\ HeldIn(t, q)[k] = HeldIn(s, q)[k]
              /\ HeldIn(t, q)[n + 1] = IF q = r THEN x ELSE 0
            <4>1. \A k \in 1..n : HeldIn(s, q)[k] \in Nat
                BY <1>3, <3>3, HeldParts
            <4>2. \A k \in 1..n : HeldIn(t, q)[k] = HeldIn(s, q)[k]
                BY <3>3, <3>4 DEF HeldIn
            <4>3. HeldIn(t, q)[n + 1] = IF r = q THEN x ELSE 0
                BY <3>1, <3>4 DEF HeldIn
            <4> QED BY <4>1, <4>2, <4>3
        <3>6. SumFunctionOnSet(HeldIn(t, q), 1..(n + 1))
                 = SumFunctionOnSet(HeldIn(s, q), 1..n) + HeldIn(t, q)[n + 1]
            BY <3>5, SumAppended
        <3> QED BY <3>3, <3>4, <3>5, <3>6 DEF HeldSum
    <2> QED BY <2>1, <2>2
<1> QED BY <1>1, <1>2, <1>4, HeldIsSum

\* A withdrawal takes off what is held of its reserve, and of no other.
LEMMA WithdrawHeld ==
    ASSUME NEW ob \in ObligationRec, NEW i \in 1..Len(ob.deposits), NEW x \in Nat,
           NEW r, ob.deposits[i].deposit_reserve = r,
           ObligationWithdraw(ob, i, x) \in ObligationRec, NEW q
    PROVE  HeldCollateral(ob, q)
              = HeldCollateral(ObligationWithdraw(ob, i, x), q) + (IF q = r THEN x ELSE 0)
<1>1. PICK s : s = ob.deposits
    OBVIOUS
<1>2. PICK t : t = ObligationWithdraw(ob, i, x).deposits
    OBVIOUS
<1>3. s \in Seq(ObligationCollateral) /\ t \in Seq(ObligationCollateral)
    BY <1>1, <1>2 DEF ObligationRec
<1>4. i \in 1..Len(s) /\ s[i].deposit_reserve = r /\ s[i].deposited_amount \in Nat
    BY <1>1, <1>3, HeldParts
<1>5. HeldIn(s, q)[i] = IF r = q THEN s[i].deposited_amount ELSE 0
    BY <1>4 DEF HeldIn
<1>6. HeldSum(s, q) = HeldSum(t, q) + (IF q = r THEN x ELSE 0)
    <2>1. CASE x = s[i].deposited_amount
        <3>1. t = RemoveAt(s, i)
            BY <1>1, <1>2, <2>1 DEF ObligationWithdraw, ObligationRec
        <3>2. PICK n \in Nat : n = Len(s)
            BY <1>3
        <3>3. /\ Len(t) = n - 1
              /\ \A k \in 1..(n - 1) : t[k] = s[IF k < i THEN k ELSE k + 1]
            BY <1>3, <1>4, <3>1, <3>2, RemoveAtList
        <3>4. \A k \in 1..(n - 1) : HeldIn(t, q)[k] = HeldIn(s, q)[IF k < i THEN k ELSE k + 1]
            BY <1>4, <3>2, <3>3 DEF HeldIn
        <3>5. i \in 1..n /\ \A k \in 1..n : HeldIn(s, q)[k] \in Nat
            BY <1>3, <1>4, <3>2, HeldParts
        <3>6. PICK f, g : f = HeldIn(s, q) /\ g = HeldIn(t, q)
            OBVIOUS
        <3>7. SumFunctionOnSet(f, 1..n) = SumFunctionOnSet(g, 1..(n - 1)) + f[i]
            BY <3>4, <3>5, <3>6, SumRemoved
        <3> QED BY <1>5, <2>1, <3>2, <3>3, <3>6, <3>7 DEF HeldSum
    <2>2. CASE x # s[i].deposited_amount
        <3>1. t = [s EXCEPT ![i].deposited_amount = @ - x]
            BY <1>1, <1>2, <2>2 DEF ObligationWithdraw, ObligationRec
        <3>2. /\ Len(t) = Len(s) /\ t[i] = [s[i] EXCEPT !.deposited_amount = @ - x]
              /\ \A k \in (1..Len(s)) \ {i} : t[k] = s[k]
            BY <1>3, <1>4, <3>1
        <3>3. t[i].deposit_reserve = r /\ t[i].deposited_amount = s[i].deposited_amount - x
            BY <1>3, <1>4, <3>2, HeldParts DEF ObligationCollateral
        <3>4. \A k \in (1..Len(s)) \ {i} : HeldIn(t, q)[k] = HeldIn(s, q)[k]
            BY <3>2 DEF HeldIn
        <3>5. HeldIn(t, q)[i] = IF r = q THEN s[i].deposited_amount - x ELSE 0
            BY <1>4, <3>2, <3>3 DEF HeldIn
        <3>6. DiffersAt(i, 1..Len(s), HeldIn(s, q), HeldIn(t, q))
            BY <1>3, <1>4, <3>2, <3>4, HeldParts DEF DiffersAt
        <3>7. HeldSum(t, q) + HeldIn(s, q)[i] = HeldSum(s, q) + HeldIn(t, q)[i]
            BY <3>2, <3>6, SumChange DEF HeldSum
        <3>8. PICK a \in Nat, b \in Nat, c \in Nat :
                 HeldSum(t, q) = a /\ HeldSum(s, q) = b /\ s[i].deposited_amount = c
            BY <1>3, <1>4, HeldParts
        <3>9. CASE r = q
            <4>1. a + c = b + (c - x)
                BY <1>5, <3>5, <3>7, <3>8, <3>9
            <4>2. b = a + x
                BY <4>1
            <4> QED BY <3>8, <3>9, <4>2
        <3>10. CASE r # q
            BY <1>5, <3>5, <3>7, <3>8, <3>10
        <3> QED BY <3>9, <3>10
    <2> QED BY <2>1, <2>2
<1> QED BY <1>1, <1>2, <1>6, HeldIsSum

(***************************************************************************)
(* A refresh changes no amount of collateral; the deposits it drops were   *)
(* empty.                                                                  *)
(***************************************************************************)
LEMMA RefreshHeld ==
    ASSUME NEW ob \in ObligationRec, NEW res, NEW cfg,
           RefreshedObligation(ob, res, cfg) \in ObligationRec, NEW q
    PROVE  HeldCollateral(RefreshedObligation(ob, res, cfg), q) = HeldCollateral(ob, q)
<1>1. PICK s : s = ob.deposits
    OBVIOUS
<1>2. PICK t : t = RefreshedObligation(ob, res, cfg).deposits
    OBVIOUS
<1>3. s \in Seq(ObligationCollateral) /\ t \in Seq(ObligationCollateral)
    BY <1>1, <1>2 DEF ObligationRec
<1>4. PICK w, m : DepositsRefreshed(s, t, w, m)
    BY <1>1, <1>2, RefreshedDeposits
<1>5. /\ Kept(w, Funded(w), Len(w), t, m) /\ Len(w) = Len(s) /\ DOMAIN w = 1..Len(s)
      /\ \A i \in 1..Len(s) : /\ w[i].deposit_reserve = s[i].deposit_reserve
                              /\ w[i].deposited_amount = s[i].deposited_amount
    BY <1>4 DEF DepositsRefreshed
<1>6. PICK X : w \in Seq(X)
    BY <1>4 DEF DepositsRefreshed
<1>7. ASSUME NEW k \in 1..Len(t)
      PROVE  HeldIn(t, q)[k] = HeldIn(s, q)[m[k]]
    <2>1. m[k] \in 1..Len(s) /\ t[k] = w[m[k]]
        BY <1>5 DEF Kept, Funded
    <2>2. /\ t[k].deposit_reserve = s[m[k]].deposit_reserve
          /\ t[k].deposited_amount = s[m[k]].deposited_amount
        BY <1>5, <2>1
    <2> QED BY <2>1, <2>2 DEF HeldIn
<1>8. ASSUME NEW i \in (1..Len(w)) \ Funded(w)
      PROVE  HeldIn(s, q)[i] = 0
    <2>1. i \in 1..Len(s) /\ s[i] \in ObligationCollateral
        BY <1>3, <1>5
    <2>2. s[i].deposited_amount \in Nat
        BY <2>1, WadAssumption DEF ObligationCollateral, U64
    <2>3. s[i].deposited_amount = 0
        BY <1>5, <2>1, <2>2 DEF Funded
    <2> QED BY <2>1, <2>3 DEF HeldIn
<1>9. \A i \in 1..Len(w) : HeldIn(s, q)[i] \in Nat
    BY <1>3, <1>5, HeldParts
<1>10. PICK f, g : f = HeldIn(s, q) /\ g = HeldIn(t, q)
    OBVIOUS
<1>11. SumFunctionOnSet(g, 1..Len(t)) = SumFunctionOnSet(f, 1..Len(w))
    BY <1>3, <1>5, <1>6, <1>7, <1>8, <1>9, <1>10, SumRetained
<1>12. HeldSum(t, q) = HeldSum(s, q)
    BY <1>5, <1>10, <1>11 DEF HeldSum
<1> QED BY <1>1, <1>2, <1>12, HeldIsSum

-----------------------------------------------------------------------------
(* Collateral of all obligations.                                          *)

HeldBy(obs, r) ==
    SumFunctionOnSet([o \in Obligations |-> HeldCollateral(obs[o], r)], Obligations)

\* The books of one reserve, with the total its obligations hold.
Balanced(res, t, held) ==
    /\ t.ctoken_supply = held
    /\ res.mint_total_supply = t.ctoken_mint
    /\ t.ctoken_mint = t.ctoken_supply + t.ctoken_wallet

\* CollateralConserved, reserve by reserve.
Conserved == \A r \in Reserves : Balanced(reserve[r], token[r], HeldBy(obligation, r))

\* The property is about these sums.
LEMMA ConservedMeans == CollateralConserved <=> Conserved
<1> DEFINE Books(r) == /\ token[r].ctoken_supply
                             = MapThenSumSet(LAMBDA o : HeldCollateral(obligation[o], r), Obligations)
                       /\ reserve[r].mint_total_supply = token[r].ctoken_mint
                       /\ token[r].ctoken_mint = token[r].ctoken_supply + token[r].ctoken_wallet
<1>1. ASSUME NEW r \in Reserves
      PROVE  Books(r) <=> Balanced(reserve[r], token[r], HeldBy(obligation, r))
    <2>1. MapThenSumSet(LAMBDA o : HeldCollateral(obligation[o], r), Obligations)
             = HeldBy(obligation, r)
        BY DEF HeldBy, MapThenSumSet, MapThenFoldSet, SumFunctionOnSet, FoldFunctionOnSet
    <2> QED BY <2>1, Zenon DEF Balanced
<1>2. CollateralConserved <=> \A r \in Reserves : Books(r)
    BY Zenon DEF CollateralConserved
<1> HIDE DEF Books
<1> QED BY <1>1, <1>2 DEF Conserved

\* It says the books of every reserve balance, before a step and after it.
LEMMA ConservedIs ==
    /\ CollateralConserved <=>
          \A r \in Reserves : Balanced(reserve[r], token[r], HeldBy(obligation, r))
    /\ CollateralConserved' <=>
          \A r \in Reserves : Balanced(reserve'[r], token'[r], HeldBy(obligation', r))
<1>1. CollateralConserved <=> Conserved
    BY ConservedMeans
<1>2. CollateralConserved' <=> Conserved'
    BY ConservedMeans, PTL
<1>3. Conserved' <=> \A r \in Reserves : Balanced(reserve'[r], token'[r], HeldBy(obligation', r))
    BY DEF Conserved, Balanced, HeldBy
<1> QED BY <1>1, <1>2, <1>3 DEF Conserved

\* What one obligation gains or loses, all of them together do.
LEMMA HeldByShift ==
    ASSUME NEW obs \in [Obligations -> ObligationRec], NEW o \in Obligations,
           NEW ob \in ObligationRec, NEW q, NEW d \in Int,
           HeldCollateral(ob, q) = HeldCollateral(obs[o], q) + d
    PROVE  HeldBy([obs EXCEPT ![o] = ob], q) = HeldBy(obs, q) + d
<1>1. ASSUME NEW b \in ObligationRec PROVE HeldCollateral(b, q) \in Nat
    <2>1. b.deposits \in Seq(ObligationCollateral)
        BY DEF ObligationRec
    <2>2. HeldCollateral(b, q) = HeldSum(b.deposits, q)
        BY HeldIsSum
    <2> QED BY <2>1, <2>2, HeldParts
<1>2. PICK f : f = [p \in Obligations |-> HeldCollateral(obs[p], q)]
    OBVIOUS
<1>3. PICK g : g = [p \in Obligations |-> HeldCollateral([obs EXCEPT ![o] = ob][p], q)]
    OBVIOUS
<1>4. \A p \in Obligations \ {o} : [obs EXCEPT ![o] = ob][p] = obs[p]
    OBVIOUS
<1>5. [obs EXCEPT ![o] = ob][o] = ob
    OBVIOUS
<1>6. f[o] = HeldCollateral(obs[o], q) /\ g[o] = HeldCollateral(ob, q)
    BY <1>2, <1>3, <1>5
<1>7. DiffersAt(o, Obligations, f, g)
    <2>1. \A p \in Obligations \ {o} : g[p] = f[p]
        BY <1>2, <1>3, <1>4
    <2>2. \A p \in Obligations : f[p] \in Nat
        BY <1>1, <1>2
    <2>3. g[o] \in Nat
        BY <1>1, <1>6
    <2> QED BY <2>1, <2>2, <2>3, MarketAssumption DEF DiffersAt
<1>8. SumFunctionOnSet(g, Obligations) + f[o] = SumFunctionOnSet(f, Obligations) + g[o]
    BY <1>7, SumChange
<1>9. SumFunctionOnSet(f, Obligations) \in Nat /\ SumFunctionOnSet(g, Obligations) \in Nat
    BY <1>7, SumNat DEF DiffersAt
<1>10. f[o] \in Nat /\ g[o] = f[o] + d
    BY <1>6, <1>7 DEF DiffersAt
<1>11. SumFunctionOnSet(g, Obligations) = SumFunctionOnSet(f, Obligations) + d
    BY <1>8, <1>9, <1>10
<1> QED BY <1>2, <1>3, <1>11 DEF HeldBy

-----------------------------------------------------------------------------
(* Collateral tokens.                                                      *)

\* no collateral token moved
SameCTokens(t, u) ==
    /\ u.ctoken_mint = t.ctoken_mint /\ u.ctoken_supply = t.ctoken_supply
    /\ u.ctoken_wallet = t.ctoken_wallet

\* Where each flow leaves the collateral tokens.
LEMMA CTokenFlows ==
    ASSUME NEW t, Balances(t), NEW x
    PROVE  /\ SameCTokens(t, Transfer(t, "wallet", "supply", x))
           /\ SameCTokens(t, Transfer(t, "supply", "wallet", x))
           /\ SameCTokens(t, Transfer(t, "supply", "fee_receiver", x))
           /\ SameCTokens(t, Transfer(t, "wallet", "fee_receiver", x))
           /\ Transfer(t, "ctoken_wallet", "ctoken_supply", x).ctoken_mint = t.ctoken_mint
           /\ Transfer(t, "ctoken_wallet", "ctoken_supply", x).ctoken_supply = t.ctoken_supply + x
           /\ Transfer(t, "ctoken_wallet", "ctoken_supply", x).ctoken_wallet = t.ctoken_wallet - x
           /\ Transfer(t, "ctoken_supply", "ctoken_wallet", x).ctoken_mint = t.ctoken_mint
           /\ Transfer(t, "ctoken_supply", "ctoken_wallet", x).ctoken_supply = t.ctoken_supply - x
           /\ Transfer(t, "ctoken_supply", "ctoken_wallet", x).ctoken_wallet = t.ctoken_wallet + x
           /\ MintTo(t, x).ctoken_mint = t.ctoken_mint + x
           /\ MintTo(t, x).ctoken_supply = t.ctoken_supply
           /\ MintTo(t, x).ctoken_wallet = t.ctoken_wallet + x
           /\ Burn(t, x).ctoken_mint = t.ctoken_mint - x
           /\ Burn(t, x).ctoken_supply = t.ctoken_supply
           /\ Burn(t, x).ctoken_wallet = t.ctoken_wallet - x
<1>1. \A f \in TokenFields : f \in DOMAIN t
    BY DEF Balances
<1>2. /\ SameCTokens(t, Transfer(t, "wallet", "supply", x))
      /\ SameCTokens(t, Transfer(t, "supply", "wallet", x))
      /\ SameCTokens(t, Transfer(t, "supply", "fee_receiver", x))
      /\ SameCTokens(t, Transfer(t, "wallet", "fee_receiver", x))
    BY TransferFields DEF TokenFields, SameCTokens
<1>3. /\ Transfer(t, "ctoken_wallet", "ctoken_supply", x).ctoken_mint = t.ctoken_mint
      /\ Transfer(t, "ctoken_wallet", "ctoken_supply", x).ctoken_supply = t.ctoken_supply + x
      /\ Transfer(t, "ctoken_wallet", "ctoken_supply", x).ctoken_wallet = t.ctoken_wallet - x
      /\ Transfer(t, "ctoken_supply", "ctoken_wallet", x).ctoken_mint = t.ctoken_mint
      /\ Transfer(t, "ctoken_supply", "ctoken_wallet", x).ctoken_supply = t.ctoken_supply - x
      /\ Transfer(t, "ctoken_supply", "ctoken_wallet", x).ctoken_wallet = t.ctoken_wallet + x
    BY TransferFields DEF TokenFields
<1>4. /\ MintTo(t, x).ctoken_mint = t.ctoken_mint + x
      /\ MintTo(t, x).ctoken_supply = t.ctoken_supply
      /\ MintTo(t, x).ctoken_wallet = t.ctoken_wallet + x
      /\ Burn(t, x).ctoken_mint = t.ctoken_mint - x
      /\ Burn(t, x).ctoken_supply = t.ctoken_supply
      /\ Burn(t, x).ctoken_wallet = t.ctoken_wallet - x
    BY <1>1 DEF MintTo, Burn, TokenFields
<1> QED BY <1>2, <1>3, <1>4

\* Depositing mints what the reserve says, redeeming burns it.
LEMMA CTokensMinted ==
    ASSUME NEW t, Balances(t), NEW res, NEW x, NEW c
    PROVE  /\ Deposited(t, res, x).ctoken_mint = t.ctoken_mint + CollateralFor(res, x)
           /\ Deposited(t, res, x).ctoken_supply = t.ctoken_supply
           /\ Deposited(t, res, x).ctoken_wallet = t.ctoken_wallet + CollateralFor(res, x)
           /\ Redeemed(t, res, c).ctoken_mint = t.ctoken_mint - c
           /\ Redeemed(t, res, c).ctoken_supply = t.ctoken_supply
           /\ Redeemed(t, res, c).ctoken_wallet = t.ctoken_wallet - c
<1>1. PICK u : u = Transfer(t, "wallet", "supply", x)
    OBVIOUS
<1>2. Balances(u) /\ SameCTokens(t, u)
    BY <1>1, CTokenFlows, TransferFields DEF TokenFields
<1>3. PICK v : v = Burn(t, c)
    OBVIOUS
<1>4. Balances(v)
    BY <1>3, MintFields
<1>5. /\ Deposited(t, res, x) = MintTo(u, CollateralFor(res, x))
      /\ Redeemed(t, res, c) = Transfer(v, "supply", "wallet", LiquidityFor(res, c))
    BY <1>1, <1>3 DEF Deposited, Redeemed
<1>6. SameCTokens(v, Redeemed(t, res, c))
    BY <1>4, <1>5, CTokenFlows
<1> QED BY <1>2, <1>3, <1>5, <1>6, CTokenFlows DEF SameCTokens

-----------------------------------------------------------------------------
(* Each instruction moves collateral tokens and books together.            *)

\* The balances of a reserve's collateral tokens are natural numbers.
LEMMA CTokensNat ==
    ASSUME TypeOK, NEW r \in Reserves
    PROVE  /\ Balances(token[r]) /\ reserve[r] \in ReserveRec
           /\ token[r].ctoken_mint \in Nat /\ token[r].ctoken_supply \in Nat
           /\ token[r].ctoken_wallet \in Nat
<1>1. token[r] \in TokenRec /\ reserve[r] \in ReserveRec
    BY DEF TypeOK
<1>2. /\ token[r].ctoken_mint \in U64 /\ token[r].ctoken_supply \in U64
      /\ token[r].ctoken_wallet \in U64
    BY <1>1 DEF TokenRec
<1>3. U64 \subseteq Nat
    BY WadAssumption DEF U64
<1> QED BY <1>1, <1>2, <1>3, TokenBalances

\* the obligations gain, or lose, d of reserve r's collateral and nothing else
Gains(r, d) ==
    /\ d \in Int
    /\ \A q \in Reserves :
          HeldBy(obligation', q) = HeldBy(obligation, q) + (IF q = r THEN d ELSE 0)

\* the collateral supply account gains d, and mint and reserve agree
Receives(r, res, t, d) ==
    /\ t.ctoken_supply = token[r].ctoken_supply + d
    /\ res.mint_total_supply = t.ctoken_mint
    /\ t.ctoken_mint = t.ctoken_supply + t.ctoken_wallet

\* A step on one reserve that does both keeps the books.
LEMMA BooksKept ==
    ASSUME TypeOK, CollateralConserved, NEW r \in Reserves, NEW res, NEW t, NEW d,
           reserve' = [reserve EXCEPT ![r] = res], token' = [token EXCEPT ![r] = t],
           Gains(r, d), Receives(r, res, t, d)
    PROVE  CollateralConserved'
<1> USE DEF Gains, Receives
<1>1. ASSUME NEW q \in Reserves
      PROVE  Balanced(reserve'[q], token'[q], HeldBy(obligation', q))
    <2>1. Balanced(reserve[q], token[q], HeldBy(obligation, q))
        BY ConservedIs
    <2>2. token[q].ctoken_supply \in Nat
        BY CTokensNat
    <2>3. CASE q = r
        BY <2>1, <2>3 DEF Balanced, TypeOK
    <2>4. CASE q # r
        <3>1. reserve'[q] = reserve[q] /\ token'[q] = token[q]
            BY <2>4 DEF TypeOK
        <3>2. HeldBy(obligation', q) = HeldBy(obligation, q)
            BY <2>1, <2>2, <2>4 DEF Balanced
        <3> QED BY <2>1, <3>1, <3>2
    <2> QED BY <2>3, <2>4
<1> QED BY <1>1, ConservedIs

\* Interest and repayments mint nothing.
LEMMA InterestMintsNothing ==
    ASSUME TypeOK, NEW r \in Reserves, NEW res \in WithInterest(r)
    PROVE  /\ res.mint_total_supply = reserve[r].mint_total_supply
           /\ \A x : DepositLiquidity(res, x).mint_total_supply
                        = reserve[r].mint_total_supply + CollateralFor(res, x)
           /\ \A x, y : LiquidityRepay(res, x, y).mint_total_supply
                           = reserve[r].mint_total_supply
           /\ \A x : LiquidityBorrow(res, x).mint_total_supply = reserve[r].mint_total_supply
           /\ \A m, p : [res EXCEPT !.market_price = m, !.smoothed_market_price = p]
                           .mint_total_supply = reserve[r].mint_total_supply
<1>1. reserve[r] \in ReserveRec
    BY DEF TypeOK
<1>2. CASE res = reserve[r]
    BY <1>1, <1>2 DEF DepositLiquidity, LiquidityRepay, LiquidityBorrow, ReserveRec
<1>3. CASE res # reserve[r]
    <2>1. res = CompoundInterest(config[r], reserve[r], slot - reserve_update[r].slot)
        BY <1>3 DEF WithInterest, AccrueInterest, Result
    <2>2. PICK x, y, z : res = [reserve[r] EXCEPT !.cumulative_borrow_rate_wads = x,
                                                  !.accumulated_protocol_fees_wads = y,
                                                  !.borrowed_amount_wads = z]
        BY <2>1, Zenon DEF CompoundInterest
    <2> QED BY <1>1, <2>2 DEF DepositLiquidity, LiquidityRepay, LiquidityBorrow, ReserveRec
<1> QED BY <1>2, <1>3

\* A step that leaves the obligations alone keeps what they hold.
LEMMA HeldUnchanged ==
    ASSUME TypeOK, CollateralConserved, UNCHANGED obligation
    PROVE  \A r \in Reserves : Gains(r, 0)
<1>1. ASSUME NEW q \in Reserves PROVE HeldBy(obligation, q) \in Nat
    BY ConservedIs, CTokensNat DEF Balanced
<1> QED BY <1>1 DEF Gains

\* CollateralFor is a number of tokens.
LEMMA CollateralForNat ==
    ASSUME NEW res, NEW x \in Nat, HasExchangeRate(res) \/ res.mint_total_supply = 0
    PROVE  CollateralFor(res, x) \in Nat
<1>1. FromU64(x) \in Nat
    BY ConversionsNat
<1>2. CASE HasExchangeRate(res)
    BY <1>1, <1>2, LiquidityToCollateralNat DEF CollateralFor
<1>3. CASE res.mint_total_supply = 0
    <2>1. ExchangeRate(res) = WAD /\ WAD \in Nat
        BY <1>3, WadAssumption DEF ExchangeRate
    <2>2. DecMul(FromU64(x), WAD) \in Nat
        BY <1>1, <2>1, DecMulNat
    <2> QED BY <2>1, <2>2, ConversionsNat DEF CollateralFor, LiquidityToCollateral
<1> QED BY <1>2, <1>3

\* d collateral tokens of reserve r minted, or burnt, and recorded as such
Mints(r, res, t, d) ==
    /\ d \in Int
    /\ res.mint_total_supply = reserve[r].mint_total_supply + d
    /\ t.ctoken_mint = token[r].ctoken_mint + d
    /\ t.ctoken_supply = token[r].ctoken_supply
    /\ t.ctoken_wallet = token[r].ctoken_wallet + d

\* A step on a reserve alone keeps the books when what it mints it records.
LEMMA MintKept ==
    ASSUME TypeOK, CollateralConserved, UNCHANGED obligation, NEW r \in Reserves, NEW res, NEW t,
           NEW d, reserve' = [reserve EXCEPT ![r] = res], token' = [token EXCEPT ![r] = t],
           Mints(r, res, t, d)
    PROVE  CollateralConserved'
<1>1. /\ reserve[r].mint_total_supply = token[r].ctoken_mint
      /\ token[r].ctoken_mint = token[r].ctoken_supply + token[r].ctoken_wallet
    BY ConservedIs DEF Balanced
<1>2. /\ token[r].ctoken_mint \in Nat /\ token[r].ctoken_supply \in Nat
      /\ token[r].ctoken_wallet \in Nat
    BY CTokensNat
<1>3. Receives(r, res, t, 0)
    BY <1>1, <1>2 DEF Mints, Receives
<1>4. Gains(r, 0)
    BY HeldUnchanged
<1> QED BY <1>3, <1>4, BooksKept

\* So does one that moves no collateral token at all.
LEMMA NothingMinted ==
    ASSUME TypeOK, CollateralConserved, UNCHANGED obligation, NEW r \in Reserves, NEW res, NEW t,
           reserve' = [reserve EXCEPT ![r] = res], token' = [token EXCEPT ![r] = t],
           res.mint_total_supply = reserve[r].mint_total_supply, SameCTokens(token[r], t)
    PROVE  CollateralConserved'
<1>1. reserve[r].mint_total_supply \in Nat
    BY CTokensNat, ReserveNat
<1>2. /\ token[r].ctoken_mint \in Nat /\ token[r].ctoken_supply \in Nat
      /\ token[r].ctoken_wallet \in Nat
    BY CTokensNat
<1>3. Mints(r, res, t, 0)
    BY <1>1, <1>2 DEF SameCTokens, Mints
<1> QED BY <1>3, MintKept

\* The steps of one reserve keep its collateral books.
LEMMA ReserveStepBooks ==
    ASSUME TypeOK, CollateralConserved, NEW r \in Reserves, ReserveStep(r),
           r \notin live => reserve[r] = NoReserve
    PROVE  CollateralConserved'
<1> USE DEF clockVars, configVars, obligationVars
<1>0. Balances(token[r]) /\ reserve[r] \in ReserveRec
    BY CTokensNat
<1>1. ASSUME NEW amount \in InitAmounts, NEW cfg, NEW setup, NEW reading,
             InitReserve(r, amount, cfg, setup, reading)
      PROVE  CollateralConserved'
    <2>1. PICK m, p, fresh :
             /\ fresh = [NoReserve EXCEPT !.cumulative_borrow_rate_wads = WAD, !.market_price = m,
                                          !.smoothed_market_price = p]
             /\ PackReserve(r, DepositLiquidity(fresh, amount))
             /\ SetToken(r, Deposited(token[r], fresh, amount))
        BY <1>1, Zenon DEF InitReserve, Deposited
    <2>2. fresh.mint_total_supply = 0 /\ reserve[r].mint_total_supply = 0
        BY <1>1, <2>1 DEF NoReserve, InitReserve
    <2>3. CollateralFor(fresh, amount) \in Nat
        <3>1. amount \in Nat
            BY MarketAssumption, WadAssumption DEF U64
        <3> QED BY <2>2, <3>1, CollateralForNat
    <2>4. DepositLiquidity(fresh, amount).mint_total_supply = 0 + CollateralFor(fresh, amount)
        BY <2>1 DEF DepositLiquidity, NoReserve
    <2>5. UNCHANGED obligation
        BY <1>1 DEF InitReserve
    <2>6. Mints(r, DepositLiquidity(fresh, amount), Deposited(token[r], fresh, amount),
                CollateralFor(fresh, amount))
        BY <1>0, <2>2, <2>3, <2>4, CTokensMinted DEF Mints
    <2> QED BY <2>1, <2>5, <2>6, MintKept DEF PackReserve, SetToken
<1>2. ASSUME NEW reading, RefreshReserve(r, reading)
      PROVE  CollateralConserved'
    <2>1. PICK res \in WithInterest(r) : \E m, p :
             PackReserve(r, [res EXCEPT !.market_price = m, !.smoothed_market_price = p])
        BY <1>2, Zenon DEF RefreshReserve
    <2>2. PICK m, p :
             PackReserve(r, [res EXCEPT !.market_price = m, !.smoothed_market_price = p])
        BY <2>1
    <2>3. [res EXCEPT !.market_price = m, !.smoothed_market_price = p].mint_total_supply
             = reserve[r].mint_total_supply
        BY InterestMintsNothing
    <2>4. token' = [token EXCEPT ![r] = token[r]] /\ SameCTokens(token[r], token[r])
          /\ UNCHANGED obligation
        BY <1>2 DEF RefreshReserve, TypeOK, SameCTokens
    <2> QED BY <2>2, <2>3, <2>4, NothingMinted DEF PackReserve
<1>3. ASSUME NEW amount \in DepositAmounts, DepositReserveLiquidity(r, amount)
      PROVE  CollateralConserved'
    <2>1. PICK res \in WithInterest(r) : /\ PackReserve(r, DepositLiquidity(res, amount))
                                         /\ SetToken(r, Deposited(token[r], res, amount))
                                         /\ HasExchangeRate(res)
        BY <1>3 DEF DepositReserveLiquidity, CanDeposit
    <2>2. CollateralFor(res, amount) \in Nat
        <3>1. amount \in Nat
            BY MarketAssumption, WadAssumption DEF U64
        <3> QED BY <2>1, <3>1, CollateralForNat
    <2>3. DepositLiquidity(res, amount).mint_total_supply
             = reserve[r].mint_total_supply + CollateralFor(res, amount)
        BY InterestMintsNothing
    <2>4. UNCHANGED obligation
        BY <1>3 DEF DepositReserveLiquidity
    <2>5. Mints(r, DepositLiquidity(res, amount), Deposited(token[r], res, amount),
                CollateralFor(res, amount))
        BY <1>0, <2>2, <2>3, CTokensMinted DEF Mints
    <2> QED BY <2>1, <2>4, <2>5, MintKept DEF PackReserve, SetToken
<1>4. ASSUME NEW amount \in RedeemAmounts, RedeemReserveCollateral(r, amount)
      PROVE  CollateralConserved'
    <2>1. /\ PackReserve(r, RedeemCollateral(reserve[r], amount))
          /\ SetToken(r, Redeemed(token[r], reserve[r], amount))
          /\ UNCHANGED obligation
        BY <1>4 DEF RedeemReserveCollateral
    <2>2. PICK d \in Int : d = -amount /\ amount \in Nat
        BY MarketAssumption, WadAssumption DEF U64
    <2>3. RedeemCollateral(reserve[r], amount).mint_total_supply
             = reserve[r].mint_total_supply + d
        <3>1. reserve[r].mint_total_supply \in Nat
            BY <1>0, ReserveNat
        <3> QED BY <1>0, <2>2, <3>1 DEF RedeemCollateral, ReserveRec
    <2>4. Mints(r, RedeemCollateral(reserve[r], amount), Redeemed(token[r], reserve[r], amount), d)
        BY <2>2, <2>3, CTokensMinted, CTokensNat DEF Mints
    <2> QED BY <2>1, <2>4, MintKept DEF PackReserve, SetToken
<1>5. ASSUME RedeemFees(r)
      PROVE  CollateralConserved'
    <2>1. PICK amount : /\ PackReserve(r, LiquidityRedeemFees(reserve[r], amount))
                        /\ SetToken(r, Transfer(token[r], "supply", "fee_receiver", amount))
        BY <1>5 DEF RedeemFees
    <2>2. LiquidityRedeemFees(reserve[r], amount).mint_total_supply = reserve[r].mint_total_supply
        BY <1>0 DEF LiquidityRedeemFees, ReserveRec
    <2>3. SameCTokens(token[r], Transfer(token[r], "supply", "fee_receiver", amount))
        BY <1>0, CTokenFlows
    <2>4. UNCHANGED obligation
        BY <1>5 DEF RedeemFees
    <2> QED BY <2>1, <2>2, <2>3, <2>4, NothingMinted DEF PackReserve, SetToken
<1>6. ASSUME NEW amount, FlashBorrowReserveLiquidity(r, amount)
      PROVE  CollateralConserved'
    <2>1. PICK res \in WithInterest(r) : PackReserve(r, LiquidityBorrow(res, FromU64(amount)))
        BY <1>6 DEF FlashBorrowReserveLiquidity
    <2>2. SetToken(r, Transfer(token[r], "supply", "wallet", amount)) /\ UNCHANGED obligation
        BY <1>6 DEF FlashBorrowReserveLiquidity
    <2>3. LiquidityBorrow(res, FromU64(amount)).mint_total_supply = reserve[r].mint_total_supply
        BY InterestMintsNothing
    <2>4. SameCTokens(token[r], Transfer(token[r], "supply", "wallet", amount))
        BY <1>0, CTokenFlows
    <2> QED BY <2>1, <2>2, <2>3, <2>4, NothingMinted DEF PackReserve, SetToken
<1> QED BY <1>1, <1>2, <1>3, <1>4, <1>5, <1>6 DEF ReserveStep

\* One obligation's gain, packed, is the gain of all.
LEMMA PackedGains ==
    ASSUME TypeOK, NEW o \in Obligations, NEW ob, PackObligation(o, ob), NEW r \in Reserves,
           NEW d \in Int,
           \A q \in Reserves : HeldCollateral(ob, q)
                                  = HeldCollateral(obligation[o], q) + (IF q = r THEN d ELSE 0)
    PROVE  Gains(r, d)
<1>1. /\ ob \in ObligationRec /\ obligation' = [obligation EXCEPT ![o] = ob]
      /\ obligation \in [Obligations -> ObligationRec]
    BY DEF PackObligation, TypeOK
<1>2. ASSUME NEW q \in Reserves
      PROVE  HeldBy(obligation', q) = HeldBy(obligation, q) + (IF q = r THEN d ELSE 0)
    <2>1. PICK e \in Int : e = IF q = r THEN d ELSE 0
        OBVIOUS
    <2>2. HeldCollateral(ob, q) = HeldCollateral(obligation[o], q) + e
        BY <2>1
    <2>3. HeldBy([obligation EXCEPT ![o] = ob], q) = HeldBy(obligation, q) + e
        BY <1>1, <2>2, HeldByShift
    <2> QED BY <1>1, <2>1, <2>3
<1> QED BY <1>2 DEF Gains

\* What an obligation holds is a natural number, and a matter of its deposits.
LEMMA HeldNat ==
    ASSUME NEW ob \in ObligationRec, NEW q
    PROVE  /\ HeldCollateral(ob, q) \in Nat
           /\ \A new \in ObligationRec : new.deposits = ob.deposits =>
                 HeldCollateral(new, q) = HeldCollateral(ob, q)
<1>1. ob.deposits \in Seq(ObligationCollateral)
    BY DEF ObligationRec
<1>2. HeldSum(ob.deposits, q) \in Nat
    BY <1>1, HeldParts
<1> QED BY <1>2, HeldIsSum

\* A step on one obligation's debts leaves all collateral where it is.
LEMMA DepositsKeptGains ==
    ASSUME TypeOK, NEW o \in Obligations, NEW ob, PackObligation(o, ob), NEW r \in Reserves,
           ob.deposits = obligation[o].deposits
    PROVE  Gains(r, 0)
<1>1. ob \in ObligationRec /\ obligation[o] \in ObligationRec
    BY DEF PackObligation, TypeOK
<1>2. \A q \in Reserves : HeldCollateral(ob, q)
                              = HeldCollateral(obligation[o], q) + (IF q = r THEN 0 ELSE 0)
    BY <1>1, HeldNat
<1> QED BY <1>2, PackedGains

\* Depositing and withdrawing collateral, and the tokens that go with it.
LEMMA DepositGains ==
    ASSUME TypeOK, NEW o \in Obligations, NEW r \in Reserves, NEW x \in Nat,
           PackObligation(o, ObligationDeposit(obligation[o], r, x))
    PROVE  Gains(r, x)
<1>1. PICK ob : ob = ObligationDeposit(obligation[o], r, x)
    OBVIOUS
<1>2. ob \in ObligationRec /\ obligation[o] \in ObligationRec
    BY <1>1 DEF PackObligation, TypeOK
<1>3. \A q \in Reserves : HeldCollateral(ob, q)
                              = HeldCollateral(obligation[o], q) + (IF q = r THEN x ELSE 0)
    BY <1>1, <1>2, DepositHeld
<1> QED BY <1>1, <1>3, PackedGains

\* A withdrawal takes the amount withdrawn off what obligations hold.
LEMMA WithdrawGains ==
    ASSUME TypeOK, NEW o \in Obligations, NEW r \in Reserves, NEW x \in Nat,
           NEW ob \in ObligationRec, ob.deposits = obligation[o].deposits,
           DepositIndex(ob, r) # 0,
           PackObligation(o, ObligationWithdraw(ob, DepositIndex(ob, r), x))
    PROVE  Gains(r, -x)
<1>1. PICK i : i = DepositIndex(ob, r)
    OBVIOUS
<1>2. i \in 1..Len(ob.deposits) /\ ob.deposits[i].deposit_reserve = r
    BY <1>1, DepositIndexIn
<1>3. PICK new : new = ObligationWithdraw(ob, i, x)
    OBVIOUS
<1>4. new \in ObligationRec /\ obligation[o] \in ObligationRec
    BY <1>1, <1>3 DEF PackObligation, TypeOK
<1>5. ASSUME NEW q \in Reserves
      PROVE  HeldCollateral(new, q)
                = HeldCollateral(obligation[o], q) + (IF q = r THEN -x ELSE 0)
    <2>1. HeldCollateral(ob, q) = HeldCollateral(new, q) + (IF q = r THEN x ELSE 0)
        BY <1>2, <1>3, <1>4, WithdrawHeld
    <2>2. PICK a \in Nat, b \in Nat : a = HeldCollateral(ob, q) /\ b = HeldCollateral(new, q)
        BY <1>4, HeldNat
    <2>3. a = HeldCollateral(obligation[o], q)
        BY <1>4, <2>2, HeldNat
    <2> QED BY <2>1, <2>2, <2>3
<1>6. -x \in Int
    OBVIOUS
<1> QED BY <1>1, <1>3, <1>5, <1>6, PackedGains

\* The indices of an obligation's deposits are those of its deposit list.
LEMMA SameDepositIndex ==
    ASSUME NEW a, NEW b, NEW r, a.deposits = b.deposits
    PROVE  DepositIndex(a, r) = DepositIndex(b, r)
<1> QED BY DEF DepositIndex

\* d collateral tokens of reserve r put into its supply account, e of them minted
Moves(r, res, t, d, e) ==
    /\ d \in Int /\ e \in Int
    /\ res.mint_total_supply = reserve[r].mint_total_supply + e
    /\ t.ctoken_mint = token[r].ctoken_mint + e
    /\ t.ctoken_supply = token[r].ctoken_supply + d
    /\ t.ctoken_wallet = token[r].ctoken_wallet + e - d

\* A step that moves tokens of one reserve and books the same gain keeps the books.
LEMMA MovesKept ==
    ASSUME TypeOK, CollateralConserved, NEW r \in Reserves, NEW res, NEW t, NEW d, NEW e,
           reserve' = [reserve EXCEPT ![r] = res], token' = [token EXCEPT ![r] = t],
           Gains(r, d), Moves(r, res, t, d, e)
    PROVE  CollateralConserved'
<1>1. /\ reserve[r].mint_total_supply = token[r].ctoken_mint
      /\ token[r].ctoken_mint = token[r].ctoken_supply + token[r].ctoken_wallet
    BY ConservedIs DEF Balanced
<1>2. /\ token[r].ctoken_mint \in Nat /\ token[r].ctoken_supply \in Nat
      /\ token[r].ctoken_wallet \in Nat
    BY CTokensNat
<1>3. Receives(r, res, t, d)
    BY <1>1, <1>2 DEF Moves, Receives
<1> QED BY <1>3, BooksKept

\* The packed records of a step on one reserve and one obligation.
LEMMA PackedAre ==
    /\ \A r, res : PackReserve(r, res) => reserve' = [reserve EXCEPT ![r] = res]
    /\ \A r, t : SetToken(r, t) => token' = [token EXCEPT ![r] = t]
    /\ \A r \in Reserves : TypeOK /\ UNCHANGED reserve => reserve' = [reserve EXCEPT ![r] = reserve[r]]
    /\ \A r \in Reserves : TypeOK /\ UNCHANGED token => token' = [token EXCEPT ![r] = token[r]]
<1> QED BY DEF PackReserve, SetToken, TypeOK

\* Collateral tokens put into an obligation.
LEMMA DepositCollateralBooks ==
    ASSUME TypeOK, CollateralConserved, NEW o \in Obligations, NEW r \in Reserves,
           NEW amount \in Nat, DepositObligationCollateral(o, r, amount)
    PROVE  CollateralConserved'
<1>1. PICK res \in WithInterest(r) : PackReserve(r, res)
    BY DEF DepositObligationCollateral
<1>2. PICK t : t = Transfer(token[r], "ctoken_wallet", "ctoken_supply", amount)
    OBVIOUS
<1>3. SetToken(r, t) /\ PackObligation(o, ObligationDeposit(obligation[o], r, amount))
    BY <1>2 DEF DepositObligationCollateral
<1>4. Gains(r, amount)
    BY <1>3, DepositGains
<1>5. Moves(r, res, t, amount, 0)
    <2>1. /\ token[r].ctoken_mint \in Nat /\ token[r].ctoken_supply \in Nat
          /\ token[r].ctoken_wallet \in Nat /\ Balances(token[r])
          /\ reserve[r].mint_total_supply \in Nat
        BY CTokensNat, ReserveNat
    <2>2. res.mint_total_supply = reserve[r].mint_total_supply
        BY InterestMintsNothing
    <2>3. /\ t.ctoken_mint = token[r].ctoken_mint
          /\ t.ctoken_supply = token[r].ctoken_supply + amount
          /\ t.ctoken_wallet = token[r].ctoken_wallet - amount
        BY <1>2, <2>1, CTokenFlows
    <2> QED BY <2>1, <2>2, <2>3 DEF Moves
<1> QED BY <1>1, <1>3, <1>4, <1>5, MovesKept, PackedAre

\* Liquidity turned into collateral tokens and those put into an obligation.
LEMMA DepositBothBooks ==
    ASSUME TypeOK, CollateralConserved, NEW o \in Obligations, NEW r \in Reserves,
           NEW amount \in Nat, DepositReserveLiquidityAndObligationCollateral(o, r, amount)
    PROVE  CollateralConserved'
<1>1. PICK res \in WithInterest(r) :
         /\ HasExchangeRate(res)
         /\ PackReserve(r, DepositLiquidity(res, amount))
         /\ PackObligation(o, ObligationDeposit(obligation[o], r, CollateralFor(res, amount)))
         /\ SetToken(r, Transfer(Deposited(token[r], res, amount),
                                 "ctoken_wallet", "ctoken_supply", CollateralFor(res, amount)))
    BY DEF DepositReserveLiquidityAndObligationCollateral, CanDeposit
<1>2. PICK c \in Nat : c = CollateralFor(res, amount)
    BY <1>1, CollateralForNat
<1>3. PICK u, t : /\ u = Deposited(token[r], res, amount)
                  /\ t = Transfer(u, "ctoken_wallet", "ctoken_supply", c)
    OBVIOUS
<1>4. Gains(r, c)
    BY <1>1, <1>2, DepositGains
<1>5. Moves(r, DepositLiquidity(res, amount), t, c, c)
    <2>1. /\ token[r].ctoken_mint \in Nat /\ token[r].ctoken_supply \in Nat
          /\ token[r].ctoken_wallet \in Nat /\ Balances(token[r])
        BY CTokensNat
    <2>2. DepositLiquidity(res, amount).mint_total_supply = reserve[r].mint_total_supply + c
        BY <1>2, InterestMintsNothing
    <2>3. /\ u.ctoken_mint = token[r].ctoken_mint + c /\ u.ctoken_supply = token[r].ctoken_supply
          /\ u.ctoken_wallet = token[r].ctoken_wallet + c
        BY <1>2, <1>3, <2>1, CTokensMinted
    <2>4. Balances(u)
        BY <1>3, <2>1, VaultFlows
    <2>5. /\ t.ctoken_mint = u.ctoken_mint /\ t.ctoken_supply = u.ctoken_supply + c
          /\ t.ctoken_wallet = u.ctoken_wallet - c
        BY <1>3, <2>4, CTokenFlows
    <2> QED BY <2>1, <2>2, <2>3, <2>5 DEF Moves
<1> QED BY <1>1, <1>2, <1>3, <1>4, <1>5, MovesKept, PackedAre

\* Collateral tokens taken out of an obligation.
LEMMA WithdrawBooks ==
    ASSUME TypeOK, CollateralConserved, NEW o \in Obligations, NEW r \in Reserves,
           NEW amount \in Nat, WithdrawObligationCollateral(o, r, amount)
    PROVE  CollateralConserved'
<1>1. PICK x \in WithdrawAmount(o, r, amount, U64_MAX) :
         /\ PackObligation(o, Withdrawn(o, r, x))
         /\ SetToken(r, Transfer(token[r], "ctoken_supply", "ctoken_wallet", x))
    BY DEF WithdrawObligationCollateral
<1>2. CanWithdraw(o, r) /\ U64_MAX \in Nat
    BY WadAssumption DEF WithdrawObligationCollateral
<1>3. x \in Nat
    BY <1>1, <1>2, CappedWithdrawNat
<1>4. PICK t : t = Transfer(token[r], "ctoken_supply", "ctoken_wallet", x)
    OBVIOUS
<1>5. Gains(r, -x)
    <2>1. obligation[o] \in ObligationRec /\ DepositIndex(obligation[o], r) # 0
        BY <1>2 DEF TypeOK, CanWithdraw
    <2>2. PackObligation(o, ObligationWithdraw(obligation[o], DepositIndex(obligation[o], r), x))
        BY <1>1 DEF Withdrawn
    <2> QED BY <1>3, <2>1, <2>2, WithdrawGains
<1>6. Moves(r, reserve[r], t, -x, 0)
    <2>1. /\ token[r].ctoken_mint \in Nat /\ token[r].ctoken_supply \in Nat
          /\ token[r].ctoken_wallet \in Nat /\ Balances(token[r])
          /\ reserve[r].mint_total_supply \in Nat
        BY CTokensNat, ReserveNat
    <2>2. /\ t.ctoken_mint = token[r].ctoken_mint /\ t.ctoken_supply = token[r].ctoken_supply - x
          /\ t.ctoken_wallet = token[r].ctoken_wallet + x
        BY <1>4, <2>1, CTokenFlows
    <2> QED BY <1>3, <2>1, <2>2 DEF Moves
<1>7. UNCHANGED reserve
    BY DEF WithdrawObligationCollateral, reserveVars
<1> QED BY <1>1, <1>4, <1>5, <1>6, <1>7, MovesKept, PackedAre

\* Collateral tokens taken out of an obligation and redeemed.
LEMMA WithdrawRedeemBooks ==
    ASSUME TypeOK, CollateralConserved, NEW o \in Obligations, NEW r \in Reserves,
           NEW amount \in Nat, WithdrawObligationCollateralAndRedeem(o, r, amount)
    PROVE  CollateralConserved'
<1>1. PICK cap \in OutflowCollateral(o, r) : \E x \in WithdrawAmount(o, r, amount, cap) :
         /\ PackObligation(o, Withdrawn(o, r, x))
         /\ PackReserve(r, RedeemCollateral(reserve[r], x))
         /\ SetToken(r, Redeemed(Transfer(token[r], "ctoken_supply", "ctoken_wallet", x),
                                 reserve[r], x))
    BY DEF WithdrawObligationCollateralAndRedeem
<1>2. PICK x \in WithdrawAmount(o, r, amount, cap) :
         /\ PackObligation(o, Withdrawn(o, r, x))
         /\ PackReserve(r, RedeemCollateral(reserve[r], x))
         /\ SetToken(r, Redeemed(Transfer(token[r], "ctoken_supply", "ctoken_wallet", x),
                                 reserve[r], x))
    BY <1>1
<1>3. CanWithdraw(o, r)
    BY DEF WithdrawObligationCollateralAndRedeem
<1>4. x \in Nat
    BY <1>3, WithdrawnNat
<1>5. PICK u, t : /\ u = Transfer(token[r], "ctoken_supply", "ctoken_wallet", x)
                  /\ t = Redeemed(u, reserve[r], x)
    OBVIOUS
<1>6. Gains(r, -x)
    <2>1. obligation[o] \in ObligationRec /\ DepositIndex(obligation[o], r) # 0
        BY <1>3 DEF TypeOK, CanWithdraw
    <2>2. PackObligation(o, ObligationWithdraw(obligation[o], DepositIndex(obligation[o], r), x))
        BY <1>2 DEF Withdrawn
    <2> QED BY <1>4, <2>1, <2>2, WithdrawGains
<1>7. Moves(r, RedeemCollateral(reserve[r], x), t, -x, -x)
    <2>1. /\ token[r].ctoken_mint \in Nat /\ token[r].ctoken_supply \in Nat
          /\ token[r].ctoken_wallet \in Nat /\ Balances(token[r])
          /\ reserve[r].mint_total_supply \in Nat /\ reserve[r] \in ReserveRec
        BY CTokensNat, ReserveNat
    <2>2. /\ u.ctoken_mint = token[r].ctoken_mint /\ u.ctoken_supply = token[r].ctoken_supply - x
          /\ u.ctoken_wallet = token[r].ctoken_wallet + x
        BY <1>5, <2>1, CTokenFlows
    <2>3. Balances(u)
        BY <1>5, <2>1, TransferFields DEF TokenFields
    <2>4. /\ t.ctoken_mint = u.ctoken_mint - x /\ t.ctoken_supply = u.ctoken_supply
          /\ t.ctoken_wallet = u.ctoken_wallet - x
        BY <1>5, <2>3, CTokensMinted
    <2>5. RedeemCollateral(reserve[r], x).mint_total_supply = reserve[r].mint_total_supply - x
        BY <2>1 DEF RedeemCollateral, ReserveRec
    <2> QED BY <1>4, <2>1, <2>2, <2>4, <2>5 DEF Moves
<1> QED BY <1>2, <1>5, <1>6, <1>7, MovesKept, PackedAre

\* A step on one obligation's debts and one reserve that moves no collateral token.
LEMMA DebtStepBooks ==
    ASSUME TypeOK, CollateralConserved, NEW o \in Obligations, NEW ob, PackObligation(o, ob),
           ob.deposits = obligation[o].deposits, NEW r \in Reserves, NEW res, NEW t,
           reserve' = [reserve EXCEPT ![r] = res], token' = [token EXCEPT ![r] = t],
           res.mint_total_supply = reserve[r].mint_total_supply, SameCTokens(token[r], t)
    PROVE  CollateralConserved'
<1>1. Gains(r, 0)
    BY DepositsKeptGains
<1>2. Moves(r, res, t, 0, 0)
    <2>1. /\ token[r].ctoken_mint \in Nat /\ token[r].ctoken_supply \in Nat
          /\ token[r].ctoken_wallet \in Nat /\ reserve[r].mint_total_supply \in Nat
        BY CTokensNat, ReserveNat
    <2> QED BY <2>1 DEF Moves, SameCTokens
<1> QED BY <1>1, <1>2, MovesKept

\* Borrowing, repaying and forgiving leave the deposits as they are.
LEMMA DebtKeepsDeposits ==
    ASSUME NEW ob \in ObligationRec
    PROVE  /\ \A i, x : ObligationRepay(ob, i, x).deposits = ob.deposits
           /\ \A r, rate, x : ObligationBorrow(ob, r, rate, x).deposits = ob.deposits
           /\ \A i, debt : [ob EXCEPT !.borrows[i] = debt].deposits = ob.deposits
           /\ \A i, j, debt, x :
                 ObligationRepay([ob EXCEPT !.borrows[i] = debt], j, x).deposits = ob.deposits
<1> QED BY DEF ObligationRec, ObligationRepay, ObligationBorrow

\* A borrow moves no collateral.
LEMMA BorrowBooks ==
    ASSUME TypeOK, CollateralConserved, NEW o \in Obligations, NEW r \in Reserves,
           NEW amount, NEW host, BorrowObligationLiquidity(o, r, amount, host)
    PROVE  CollateralConserved'
<1>1. PICK terms : /\ PackReserve(r, LiquidityBorrow(reserve[r], terms.borrow_amount))
                   /\ PackObligation(o, ObligationBorrow(obligation[o], r,
                                            reserve[r].cumulative_borrow_rate_wads,
                                            terms.borrow_amount))
                   /\ SetToken(r, SplitFee(token[r], terms, host))
    BY DEF BorrowObligationLiquidity
<1>2. PICK res, ob, t : /\ res = LiquidityBorrow(reserve[r], terms.borrow_amount)
                        /\ ob = ObligationBorrow(obligation[o], r,
                                    reserve[r].cumulative_borrow_rate_wads, terms.borrow_amount)
                        /\ t = SplitFee(token[r], terms, host)
    OBVIOUS
<1>3. Balances(token[r]) /\ reserve[r] \in ReserveRec /\ obligation[o] \in ObligationRec
    BY CTokensNat DEF TypeOK
<1>4. ob.deposits = obligation[o].deposits
    BY <1>2, <1>3, DebtKeepsDeposits
<1>5. res.mint_total_supply = reserve[r].mint_total_supply
    BY <1>2, <1>3 DEF LiquidityBorrow, ReserveRec
<1>6. SameCTokens(token[r], t)
    <2>1. PICK x, y, z, u, v : /\ u = Transfer(token[r], "supply", "wallet", x)
                               /\ v = Transfer(u, "supply", "fee_receiver", y)
                               /\ t = Transfer(v, "supply", "wallet", z)
        BY <1>2 DEF SplitFee
    <2>2. Balances(u) /\ SameCTokens(token[r], u)
        BY <1>3, <2>1, TransferFields, CTokenFlows DEF TokenFields
    <2>3. Balances(v) /\ SameCTokens(u, v)
        BY <2>1, <2>2, TransferFields, CTokenFlows DEF TokenFields
    <2>4. SameCTokens(v, t)
        BY <2>1, <2>3, CTokenFlows
    <2> QED BY <2>2, <2>3, <2>4 DEF SameCTokens
<1> QED BY <1>1, <1>2, <1>4, <1>5, <1>6, DebtStepBooks, PackedAre

\* Nor does a repayment.
LEMMA RepayBooks ==
    ASSUME TypeOK, CollateralConserved, NEW o \in Obligations, NEW r \in Reserves,
           NEW amount, RepayObligationLiquidity(o, r, amount)
    PROVE  CollateralConserved'
<1>1. PICK res \in WithInterest(r) : \E i, debt, x, y :
         /\ PackReserve(r, LiquidityRepay(res, x, y))
         /\ PackObligation(o, ObligationRepay([obligation[o] EXCEPT !.borrows[i] = debt], i, y))
         /\ SetToken(r, Transfer(token[r], "wallet", "supply", x))
    BY Zenon DEF RepayObligationLiquidity
<1>2. PICK i, debt, x, y :
         /\ PackReserve(r, LiquidityRepay(res, x, y))
         /\ PackObligation(o, ObligationRepay([obligation[o] EXCEPT !.borrows[i] = debt], i, y))
         /\ SetToken(r, Transfer(token[r], "wallet", "supply", x))
    BY <1>1
<1>3. PICK new, ob, t : /\ new = LiquidityRepay(res, x, y)
                        /\ ob = ObligationRepay([obligation[o] EXCEPT !.borrows[i] = debt], i, y)
                        /\ t = Transfer(token[r], "wallet", "supply", x)
    OBVIOUS
<1>4. Balances(token[r]) /\ obligation[o] \in ObligationRec
    BY CTokensNat DEF TypeOK
<1>5. ob.deposits = obligation[o].deposits
    BY <1>3, <1>4, DebtKeepsDeposits
<1>6. new.mint_total_supply = reserve[r].mint_total_supply
    BY <1>3, InterestMintsNothing
<1>7. SameCTokens(token[r], t)
    BY <1>3, <1>4, CTokenFlows
<1> QED BY <1>2, <1>3, <1>5, <1>6, <1>7, DebtStepBooks, PackedAre

\* Nor does forgiving a debt.
LEMMA ForgiveBooks ==
    ASSUME TypeOK, CollateralConserved, NEW o \in Obligations, NEW r \in Reserves,
           NEW amount, ForgiveDebt(o, r, amount)
    PROVE  CollateralConserved'
<1>1. PICK i, x : /\ PackReserve(r, LiquidityForgiveDebt(reserve[r], x))
                  /\ PackObligation(o, ObligationRepay(obligation[o], i, x))
                  /\ UNCHANGED token
    BY Zenon DEF ForgiveDebt
<1>2. PICK res, ob : /\ res = LiquidityForgiveDebt(reserve[r], x)
                     /\ ob = ObligationRepay(obligation[o], i, x)
    OBVIOUS
<1>3. reserve[r] \in ReserveRec /\ obligation[o] \in ObligationRec
    BY DEF TypeOK
<1>4. ob.deposits = obligation[o].deposits
    BY <1>2, <1>3, DebtKeepsDeposits
<1>5. res.mint_total_supply = reserve[r].mint_total_supply
    BY <1>2, <1>3 DEF LiquidityForgiveDebt, ReserveRec
<1>6. SameCTokens(token[r], token[r])
    BY DEF SameCTokens
<1> QED BY <1>1, <1>2, <1>4, <1>5, <1>6, DebtStepBooks, PackedAre

-----------------------------------------------------------------------------
(* Liquidation.                                                            *)

\* The bonus is a number when calculate_bonus does not err.
LEMMA BonusNat ==
    ASSUME NEW cfg \in ReserveConfig, NEW ob \in ObligationRec, NEW b,
           CanCalculateLiquidation(cfg, ob, b), ob.borrowed_value >= ob.unhealthy_borrow_value
    PROVE  CalculateBonus(cfg, ob) \in Nat
<1>1. /\ cfg.liquidation_bonus \in Nat /\ cfg.max_liquidation_bonus \in Nat
      /\ cfg.protocol_liquidation_fee * 10 \in Nat /\ MAX_BONUS_PCT \in Nat
    BY ReserveAssumption DEF ReserveConfig
<1>2. PICK bonus \in Nat, fee \in Nat, cap \in Nat, top \in Nat :
         /\ bonus = FromPercent(cfg.liquidation_bonus)
         /\ fee = FromDecaBps(cfg.protocol_liquidation_fee)
         /\ cap = FromPercent(MAX_BONUS_PCT)
         /\ top = FromPercent(cfg.max_liquidation_bonus)
    BY <1>1, ConversionsNat DEF FromDecaBps
<1>3. PICK span \in Nat, over \in Nat :
         /\ span = ob.super_unhealthy_borrow_value - ob.unhealthy_borrow_value
         /\ over = ob.borrowed_value - ob.unhealthy_borrow_value
    BY WadAssumption DEF ObligationRec, U128, CanCalculateLiquidation
<1>4. CASE span = 0
    <2>1. CalculateBonus(cfg, ob) = MinOf(bonus + fee, cap)
        BY <1>2, <1>3, <1>4 DEF CalculateBonus
    <2> QED BY <2>1 DEF MinOf
<1>5. CASE span # 0
    <2>1. DecDiv(over, span) \in Nat
        BY <1>5, DecDivNat
    <2>2. PICK weight \in Nat : weight = MinOf(DecDiv(over, span), WAD)
        BY <2>1, WadAssumption DEF MinOf
    <2>3. top - bonus \in Nat
        <3>1. cfg.liquidation_bonus <= cfg.max_liquidation_bonus
            BY <1>3, <1>5, WadAssumption DEF CanCalculateLiquidation, ObligationRec, U128
        <3>2. PICK unit \in Nat : unit = WAD \div PercentsPerOne
            BY WadAssumption
        <3>3. PICK m \in Nat, n \in Nat :
                 m = cfg.liquidation_bonus /\ n = cfg.max_liquidation_bonus /\ m <= n
            BY <1>1, <3>1
        <3>4. bonus = m * unit /\ top = n * unit
            BY <1>2, <3>2, <3>3 DEF FromPercent
        <3>5. m * unit <= n * unit
            BY <3>3
        <3> QED BY <3>4, <3>5
    <2>4. PICK extra \in Nat : extra = DecMul(weight, top - bonus)
        BY <2>3, DecMulNat
    <2>5. CalculateBonus(cfg, ob) = MinOf(bonus + extra + fee, cap)
        BY <1>2, <1>3, <1>5, <2>2, <2>4 DEF CalculateBonus
    <2> QED BY <2>5 DEF MinOf
<1> QED BY <1>4, <1>5

\* So are the amounts a liquidation settles and withdraws.
LEMMA SettleNat ==
    ASSUME NEW c \in ObligationCollateral, c.market_value # 0, NEW x \in Nat, NEW value \in Nat,
           NEW least \in Nat
    PROVE  /\ SettleAgainst(c, x, value, least).settle_amount \in Nat
           /\ SettleAgainst(c, x, value, least).withdraw_amount \in Nat
<1>1. PICK mv \in Nat, held \in Nat : mv = c.market_value /\ held = c.deposited_amount /\ mv > 0
    BY WadAssumption DEF ObligationCollateral, U64, U128
<1>2. CASE value > mv
    <2>1. DecDiv(mv, value) \in Nat
        BY <1>2, DecDivNat
    <2>2. DecMul(x, DecDiv(mv, value)) \in Nat
        BY <2>1, DecMulNat
    <2> QED BY <1>1, <1>2, <2>2 DEF SettleAgainst
<1>3. CASE value = mv
    BY <1>1, <1>3 DEF SettleAgainst
<1>4. CASE value < mv
    <2>1. FromU64(held) \in Nat /\ DecDiv(value, mv) \in Nat
        BY <1>1, DecDivNat, ConversionsNat
    <2>2. PICK n \in Nat : n = TryFloor(DecMul(FromU64(held), DecDiv(value, mv)))
        BY <2>1, DecMulNat, ConversionsNat
    <2>3. SettleAgainst(c, x, value, least) = [settle_amount |-> x, withdraw_amount |-> MaxOf(n, least)]
        BY <1>1, <1>4, <2>2 DEF SettleAgainst
    <2> QED BY <2>3 DEF MaxOf
<1> QED BY <1>1, <1>2, <1>3, <1>4

\* The amounts of a liquidation are natural numbers.
LEMMA LiquidationNat ==
    ASSUME NEW cfg \in ReserveConfig, NEW ob \in ObligationRec, NEW b \in ObligationLiquidity,
           NEW c \in ObligationCollateral, NEW amount \in Nat,
           CanCalculateLiquidation(cfg, ob, b), ob.borrowed_value >= ob.unhealthy_borrow_value,
           c.market_value # 0, b.market_value # 0
    PROVE  /\ CalculateLiquidation(cfg, ob, b, c, amount).settle_amount \in Nat
           /\ CalculateLiquidation(cfg, ob, b, c, amount).repay_amount \in Nat
           /\ CalculateLiquidation(cfg, ob, b, c, amount).withdraw_amount \in Nat
<1>1. PICK rate \in Nat : rate = CalculateBonus(cfg, ob) + WAD
    BY BonusNat, WadAssumption
<1>2. PICK mv \in Nat, owed \in Nat : mv = b.market_value /\ owed = b.borrowed_amount_wads /\ mv > 0
    BY WadAssumption DEF ObligationLiquidity, U128
<1>3. PICK max \in Nat : max = IF amount = U64_MAX THEN b.borrowed_amount_wads
                               ELSE MinOf(FromU64(amount), b.borrowed_amount_wads)
    BY <1>2, ConversionsNat DEF MinOf
<1>4. PICK part \in Nat : part = MinOf(MaxLiquidationAmount(ob, b), max)
    <2>1. ob.borrowed_value \in Nat
        BY WadAssumption DEF ObligationRec, U128
    <2>2. DecMul(ob.borrowed_value, FromPercent(LIQUIDATION_CLOSE_FACTOR)) \in Nat
          /\ FromU64(MAX_LIQUIDATABLE_VALUE_AT_ONCE) \in Nat
        BY <2>1, ObligationAssumption, ConversionsNat, DecMulNat
    <2>3. PICK value \in Nat :
             value = MinOf(MinOf(DecMul(ob.borrowed_value, FromPercent(LIQUIDATION_CLOSE_FACTOR)), mv),
                           FromU64(MAX_LIQUIDATABLE_VALUE_AT_ONCE))
        BY <2>2 DEF MinOf
    <2>4. DecMul(owed, DecDiv(value, mv)) \in Nat
        BY <1>2, DecDivNat, DecMulNat
    <2>5. MaxLiquidationAmount(ob, b) \in Nat
        BY <1>2, <2>3, <2>4 DEF MaxLiquidationAmount
    <2> QED BY <2>5 DEF MinOf
<1>5. PICK outcome :
         /\ outcome = IF b.market_value <= WAD
                      THEN SettleAgainst(c, b.borrowed_amount_wads, DecMul(b.market_value, rate), 1)
                      ELSE SettleAgainst(c, part,
                               DecMul(DecMul(b.market_value, DecDiv(part, b.borrowed_amount_wads)),
                                      rate), 0)
    OBVIOUS
<1>6. outcome.settle_amount \in Nat /\ outcome.withdraw_amount \in Nat
    <2>1. CASE mv <= WAD
        <3>1. DecMul(mv, rate) \in Nat
            BY DecMulNat
        <3> QED BY <1>2, <1>5, <2>1, <3>1, SettleNat
    <2>2. CASE ~(mv <= WAD)
        <3>1. owed > 0
            BY <1>2, <2>2, WadAssumption DEF CanCalculateLiquidation
        <3>2. DecMul(DecMul(mv, DecDiv(part, owed)), rate) \in Nat
            BY <3>1, DecDivNat, DecMulNat
        <3> QED BY <1>2, <1>5, <2>2, <3>2, SettleNat
    <2> QED BY <2>1, <2>2
<1>7. CalculateLiquidation(cfg, ob, b, c, amount)
         = [settle_amount |-> outcome.settle_amount, repay_amount |-> TryCeil(outcome.settle_amount),
            withdraw_amount |-> outcome.withdraw_amount, bonus_rate |-> rate]
    BY <1>1, <1>3, <1>4, <1>5 DEF CalculateLiquidation
<1> QED BY <1>6, <1>7, ConversionsNat

\* The books are kept when those of one reserve are, and no other moved.
LEMMA OthersKept ==
    ASSUME TypeOK, CollateralConserved, NEW r \in Reserves, NEW d, NEW e,
           Gains(r, d), Moves(r, reserve'[r], token'[r], d, e),
           \A q \in Reserves \ {r} :
              /\ reserve'[q].mint_total_supply = reserve[q].mint_total_supply
              /\ SameCTokens(token[q], token'[q])
    PROVE  CollateralConserved'
<1>1. ASSUME NEW q \in Reserves
      PROVE  Balanced(reserve'[q], token'[q], HeldBy(obligation', q))
    <2>1. /\ token[q].ctoken_supply = HeldBy(obligation, q)
          /\ reserve[q].mint_total_supply = token[q].ctoken_mint
          /\ token[q].ctoken_mint = token[q].ctoken_supply + token[q].ctoken_wallet
        BY ConservedIs DEF Balanced
    <2>2. PICK m \in Nat, a \in Nat, b \in Nat :
             m = token[q].ctoken_mint /\ a = token[q].ctoken_supply /\ b = token[q].ctoken_wallet
        BY CTokensNat
    <2>3. HeldBy(obligation', q) = HeldBy(obligation, q) + (IF q = r THEN d ELSE 0)
        BY DEF Gains
    <2>4. CASE q = r
        BY <2>1, <2>2, <2>3, <2>4 DEF Balanced, Moves
    <2>5. CASE q # r
        BY <2>1, <2>2, <2>3, <2>5 DEF Balanced, SameCTokens
    <2> QED BY <2>4, <2>5
<1> QED BY <1>1, ConservedIs

\* The amounts of a liquidation that is allowed are numbers.
LEMMA TermsOfLiquidation ==
    ASSUME TypeOK, NEW o \in Obligations, NEW p, NEW w \in Reserves, NEW amount \in Nat,
           NEW liquidator, CanLiquidate(o, p, w, liquidator)
    PROVE  /\ LiquidationTerms(o, w, amount).settle_amount \in Nat
           /\ LiquidationTerms(o, w, amount).repay_amount \in Nat
           /\ LiquidationTerms(o, w, amount).withdraw_amount \in Nat
<1>1. PICK ob, cfg : ob = obligation[o] /\ cfg = config[w]
    OBVIOUS
<1>2. ob \in ObligationRec /\ cfg \in ReserveConfig
    BY <1>1 DEF TypeOK
<1>3. PICK b, c : b = ob.borrows[1] /\ c = ob.deposits[DepositIndex(ob, w)]
    OBVIOUS
<1>4. /\ CanCalculateLiquidation(cfg, ob, b) /\ ob.borrowed_value >= ob.unhealthy_borrow_value
      /\ c.market_value # 0 /\ b.market_value # 0
      /\ DepositIndex(ob, w) # 0 /\ BorrowIndex(ob, p) = 1
    BY <1>1, <1>3 DEF CanLiquidate
<1>5. c \in ObligationCollateral
    BY <1>2, <1>3, <1>4, DepositIndexIn
<1>6. b \in ObligationLiquidity
    <2>1. 1 # 0 /\ BorrowIndex(ob, p) # 0
        BY <1>4
    <2>2. ob.borrows[BorrowIndex(ob, p)] \in ObligationLiquidity
        BY <1>2, <2>1, BorrowIndexIn
    <2> QED BY <1>3, <1>4, <2>2
<1>7. /\ CalculateLiquidation(cfg, ob, b, c, amount).settle_amount \in Nat
      /\ CalculateLiquidation(cfg, ob, b, c, amount).repay_amount \in Nat
      /\ CalculateLiquidation(cfg, ob, b, c, amount).withdraw_amount \in Nat
    BY <1>2, <1>4, <1>5, <1>6, LiquidationNat
<1> QED BY <1>1, <1>3, <1>7 DEF LiquidationTerms

(***************************************************************************)
(* A liquidation moves the seized collateral tokens out of the supply      *)
(* account and burns those it redeems, whether or not the reserve repaid   *)
(* is the one withdrawn from.                                              *)
(***************************************************************************)
LEMMA LiquidateBooks ==
    ASSUME TypeOK, CollateralConserved, NEW o \in Obligations, NEW p \in Reserves,
           NEW w \in Reserves, NEW amount \in Nat, NEW liquidator,
           LiquidateObligation(o, p, w, amount, liquidator)
    PROVE  CollateralConserved'
<1>0. CanLiquidate(o, p, w, liquidator)
    BY DEF LiquidateObligation
<1>1. PICK terms : terms = LiquidationTerms(o, w, amount)
    OBVIOUS
<1>2. PICK x \in Nat, y \in Nat : x = terms.withdraw_amount /\ y = terms.repay_amount
    BY <1>0, <1>1, TermsOfLiquidation
<1>3. PICK repaid : repaid = [reserve EXCEPT ![p] = LiquidityRepay(@, terms.repay_amount,
                                                                 terms.settle_amount)]
    OBVIOUS
<1>4. PICK paid : paid = [token EXCEPT ![p] = Transfer(@, "wallet", "supply", y)]
    OBVIOUS
<1>5. PICK seized : seized = [paid EXCEPT ![w] = Transfer(@, "ctoken_supply", "ctoken_wallet", x)]
    OBVIOUS
<1>6. PICK coll : coll = MinOf(x, CollateralFor(repaid[w], repaid[w].available_amount))
    OBVIOUS
<1>7. /\ HasExchangeRate(repaid[w])
      /\ PackObligation(o, ObligationWithdraw(ObligationRepay(obligation[o], 1, terms.settle_amount),
                               DepositIndex(ObligationRepay(obligation[o], 1, terms.settle_amount), w),
                               x))
    BY <1>1, <1>2, <1>3 DEF LiquidateObligation
<1>8. \/ coll = 0 /\ reserve' = repaid /\ token' = seized
      \/ \E fee :
            /\ reserve' = [repaid EXCEPT ![w] = RedeemCollateral(@, coll)]
            /\ token' = [seized EXCEPT ![w] = Transfer(Redeemed(@, repaid[w], coll),
                                                      "wallet", "fee_receiver", fee)]
    BY <1>1, <1>2, <1>3, <1>4, <1>5, <1>6 DEF LiquidateObligation, Seized
<1>9. /\ reserve \in [Reserves -> ReserveRec] /\ token \in [Reserves -> TokenRec]
      /\ obligation[o] \in ObligationRec
      /\ \A q \in Reserves : Balances(token[q])
    BY TokenBalances DEF TypeOK
<1>10. Gains(w, -x)
    <2>1. PICK owing : owing = ObligationRepay(obligation[o], 1, terms.settle_amount)
        OBVIOUS
    <2>2. PICK B : owing = [obligation[o] EXCEPT !.borrows = B]
        BY <1>9, <2>1 DEF ObligationRepay, ObligationRec
    <2>3. PICK D : ObligationWithdraw(owing, DepositIndex(owing, w), x)
                      = [owing EXCEPT !.deposits = D]
        BY <1>9, <2>2 DEF ObligationWithdraw, ObligationRec
    <2>4. [owing EXCEPT !.deposits = D] \in ObligationRec
        BY <1>7, <2>1, <2>3 DEF PackObligation
    <2>5. B \in Seq(ObligationLiquidity)
        BY <1>9, <2>2, <2>4 DEF ObligationRec
    <2>6. owing \in ObligationRec /\ owing.deposits = obligation[o].deposits
        BY <1>9, <2>2, <2>5 DEF ObligationRec
    <2>7. DepositIndex(owing, w) # 0
        <3>1. DepositIndex(obligation[o], w) # 0
            BY <1>0 DEF CanLiquidate
        <3> QED BY <2>6, <3>1, SameDepositIndex
    <2> QED BY <1>7, <2>1, <2>6, <2>7, WithdrawGains
<1>11. /\ repaid = [q \in Reserves |-> repaid[q]]
       /\ DOMAIN repaid[w] = DOMAIN NoReserve /\ repaid[w].available_amount \in Nat
       /\ \A q \in Reserves : repaid[q].mint_total_supply = reserve[q].mint_total_supply
    <2>1. LiquidityRepay(reserve[p], y, terms.settle_amount).available_amount
             = reserve[p].available_amount + y
        BY <1>9 DEF LiquidityRepay, ReserveRec
    <2>2. LiquidityRepay(reserve[p], y, terms.settle_amount).mint_total_supply
             = reserve[p].mint_total_supply
        BY <1>9 DEF LiquidityRepay, ReserveRec
    <2>3. reserve[p].available_amount \in Nat /\ reserve[w].available_amount \in Nat
        BY <1>9, ReserveNat
    <2>4. DOMAIN LiquidityRepay(reserve[p], y, terms.settle_amount) = DOMAIN NoReserve
          /\ DOMAIN reserve[w] = DOMAIN NoReserve
        BY <1>9 DEF LiquidityRepay, ReserveRec, NoReserve
    <2>5. \A q \in Reserves :
             repaid[q] = IF q = p THEN LiquidityRepay(reserve[p], y, terms.settle_amount) ELSE reserve[q]
        BY <1>2, <1>3, <1>9
    <2>6. repaid = [q \in Reserves |-> repaid[q]]
        BY <1>3, <1>9
    <2> QED BY <2>1, <2>2, <2>3, <2>4, <2>5, <2>6
<1>12. coll \in Nat
    <2>1. CollateralFor(repaid[w], repaid[w].available_amount) \in Nat
        BY <1>7, <1>11, CollateralForNat
    <2> QED BY <1>6, <2>1 DEF MinOf
<1>13. /\ paid = [q \in Reserves |-> paid[q]]
       /\ \A q \in Reserves : Balances(paid[q]) /\ SameCTokens(token[q], paid[q])
    <2>1. PICK t : t = Transfer(token[p], "wallet", "supply", y)
        OBVIOUS
    <2>2. Balances(t) /\ SameCTokens(token[p], t)
        BY <1>9, <2>1, TransferFields, CTokenFlows DEF TokenFields
    <2>3. paid = [token EXCEPT ![p] = t]
        BY <1>4, <2>1
    <2>4. \A q \in Reserves : SameCTokens(token[q], token[q])
        BY DEF SameCTokens
    <2> QED BY <1>9, <2>2, <2>3, <2>4
<1>14. /\ seized = [q \in Reserves |-> seized[q]]
       /\ \A q \in Reserves \ {w} : SameCTokens(token[q], seized[q])
       /\ Balances(seized[w])
       /\ seized[w].ctoken_mint = token[w].ctoken_mint
       /\ seized[w].ctoken_supply = token[w].ctoken_supply - x
       /\ seized[w].ctoken_wallet = token[w].ctoken_wallet + x
    <2>1. PICK t : t = Transfer(paid[w], "ctoken_supply", "ctoken_wallet", x)
        OBVIOUS
    <2>2. /\ Balances(t) /\ t.ctoken_mint = paid[w].ctoken_mint
          /\ t.ctoken_supply = paid[w].ctoken_supply - x
          /\ t.ctoken_wallet = paid[w].ctoken_wallet + x
        BY <1>13, <2>1, TransferFields, CTokenFlows DEF TokenFields
    <2>3. seized = [paid EXCEPT ![w] = t]
        BY <1>5, <2>1
    <2>4. SameCTokens(token[w], paid[w])
        BY <1>13
    <2>5. seized[w] = t /\ \A q \in Reserves \ {w} : seized[q] = paid[q]
        BY <1>13, <2>3
    <2> QED BY <1>13, <2>2, <2>3, <2>4, <2>5 DEF SameCTokens
<1>15. /\ token[w].ctoken_mint \in Nat /\ token[w].ctoken_supply \in Nat
       /\ token[w].ctoken_wallet \in Nat /\ reserve[w].mint_total_supply \in Nat
    BY CTokensNat, ReserveNat
<1>16. CASE coll = 0 /\ reserve' = repaid /\ token' = seized
    <2>1. Moves(w, reserve'[w], token'[w], -x, 0)
        BY <1>11, <1>14, <1>15, <1>16 DEF Moves
    <2> QED BY <1>10, <1>11, <1>14, <1>16, <2>1, OthersKept
<1>17. ASSUME NEW fee,
              reserve' = [repaid EXCEPT ![w] = RedeemCollateral(@, coll)],
              token' = [seized EXCEPT ![w] = Transfer(Redeemed(@, repaid[w], coll),
                                                      "wallet", "fee_receiver", fee)]
       PROVE  CollateralConserved'
    <2>1. RedeemCollateral(repaid[w], coll).mint_total_supply = reserve[w].mint_total_supply - coll
        BY <1>11 DEF RedeemCollateral, NoReserve
    <2>2. PICK u, t : u = Redeemed(seized[w], repaid[w], coll)
                      /\ t = Transfer(u, "wallet", "fee_receiver", fee)
        OBVIOUS
    <2>3. /\ Balances(u) /\ u.ctoken_mint = seized[w].ctoken_mint - coll
          /\ u.ctoken_supply = seized[w].ctoken_supply
          /\ u.ctoken_wallet = seized[w].ctoken_wallet - coll
        <3>1. Balances(seized[w])
            BY <1>14
        <3>2. Balances(u)
            BY <2>2, <3>1, VaultFlows
        <3> QED BY <2>2, <3>1, <3>2, CTokensMinted
    <2>4. SameCTokens(u, t)
        BY <2>2, <2>3, CTokenFlows
    <2>5. reserve'[w] = RedeemCollateral(repaid[w], coll) /\ token'[w] = t
        BY <1>11, <1>14, <1>17, <2>2
    <2>6. \A q \in Reserves \ {w} : reserve'[q] = repaid[q] /\ token'[q] = seized[q]
        BY <1>11, <1>14, <1>17
    <2>7. Moves(w, reserve'[w], token'[w], -x, -coll)
        BY <1>12, <1>14, <1>15, <2>1, <2>3, <2>4, <2>5 DEF Moves, SameCTokens
    <2> QED BY <1>10, <1>11, <1>14, <2>6, <2>7, OthersKept
<1> QED BY <1>8, <1>16, <1>17

-----------------------------------------------------------------------------
(* The invariant.                                                          *)

\* The steps of one obligation with one reserve keep the collateral books.
LEMMA PositionStepBooks ==
    ASSUME TypeOK, CollateralConserved, NEW o \in Obligations, NEW r \in Reserves,
           PositionStep(o, r)
    PROVE  CollateralConserved'
<1>1. UNION {DepositAmounts, CollateralAmounts, WithdrawAmounts, LiquidateAmounts} \subseteq Nat
    BY MarketAssumption, WadAssumption DEF U64
<1> QED BY <1>1, DepositCollateralBooks, DepositBothBooks, WithdrawBooks, WithdrawRedeemBooks,
           BorrowBooks, RepayBooks, LiquidateBooks, ForgiveBooks DEF PositionStep

\* Repaying a flash loan moves no collateral token.
LEMMA FlashRepayBooks ==
    ASSUME TypeOK, CollateralConserved, FlashRepayReserveLiquidity
    PROVE  CollateralConserved'
<1>1. PICK r, f : /\ r = flash.reserve
                  /\ PackReserve(r, LiquidityRepay(reserve[r], flash.amount, FromU64(flash.amount)))
                  /\ SetToken(r, Transfer(Transfer(token[r], "wallet", "supply", flash.amount),
                                          "wallet", "fee_receiver", f))
    BY DEF FlashRepayReserveLiquidity
<1>2. r \in Reserves /\ UNCHANGED obligation
    BY <1>1 DEF FlashRepayReserveLiquidity, TypeOK, obligationVars
<1>3. PICK res, u, t : /\ res = LiquidityRepay(reserve[r], flash.amount, FromU64(flash.amount))
                       /\ u = Transfer(token[r], "wallet", "supply", flash.amount)
                       /\ t = Transfer(u, "wallet", "fee_receiver", f)
    OBVIOUS
<1>4. Balances(token[r]) /\ reserve[r] \in ReserveRec
    BY <1>2, CTokensNat
<1>5. res.mint_total_supply = reserve[r].mint_total_supply
    BY <1>3, <1>4 DEF LiquidityRepay, ReserveRec
<1>6. SameCTokens(token[r], t)
    <2>1. Balances(u) /\ SameCTokens(token[r], u)
        BY <1>3, <1>4, TransferFields, CTokenFlows DEF TokenFields
    <2>2. SameCTokens(u, t)
        BY <1>3, <2>1, CTokenFlows
    <2> QED BY <2>1, <2>2 DEF SameCTokens
<1> QED BY <1>1, <1>2, <1>3, <1>5, <1>6, NothingMinted, PackedAre

\* An obligation that is not open yet holds and owes nothing.
ClosedEmpty == \A o \in Obligations \ open : obligation[o] = NewObligation

\* Creating or refreshing an obligation moves no collateral.
LEMMA RefreshBooks ==
    ASSUME TypeOK, CollateralConserved, ClosedEmpty, NEW o \in Obligations,
           InitObligation(o) \/ RefreshObligation(o)
    PROVE  CollateralConserved'
<1> USE DEF reserveVars
<1>1. UNCHANGED <<reserve, token>>
    BY DEF InitObligation, RefreshObligation
<1>2. CASE InitObligation(o)
    <2>1. obligation' = obligation
        BY <1>2 DEF InitObligation, ClosedEmpty, TypeOK
    <2> QED BY <1>1, <2>1, ConservedIs
<1>3. CASE RefreshObligation(o)
    <2>1. PICK ob : ob = RefreshedObligation(obligation[o], reserve, config)
        OBVIOUS
    <2>2. PackObligation(o, ob)
        BY <1>3, <2>1 DEF RefreshObligation
    <2>3. ob \in ObligationRec /\ obligation[o] \in ObligationRec
        BY <2>2 DEF PackObligation, TypeOK
    <2>4. ASSUME NEW r \in Reserves
          PROVE  Gains(r, 0)
        <3>1. \A q \in Reserves : HeldCollateral(ob, q)
                                    = HeldCollateral(obligation[o], q) + (IF q = r THEN 0 ELSE 0)
            BY <2>1, <2>3, RefreshHeld, HeldNat
        <3> QED BY <2>2, <3>1, PackedGains
    <2>5. ASSUME NEW r \in Reserves
          PROVE  Balanced(reserve'[r], token'[r], HeldBy(obligation', r))
        <3>1. Balanced(reserve[r], token[r], HeldBy(obligation, r)) /\ token[r].ctoken_supply \in Nat
            BY ConservedIs, CTokensNat
        <3>2. HeldBy(obligation', r) = HeldBy(obligation, r)
            BY <2>4, <3>1 DEF Gains, Balanced
        <3> QED BY <1>1, <3>1, <3>2
    <2> QED BY <2>5, ConservedIs
<1> QED BY <1>2, <1>3

\* Every instruction asks for an initialised obligation, or makes one.
LEMMA NextClosed ==
    ASSUME TypeOK, ClosedEmpty, Next
    PROVE  ClosedEmpty'
<1> USE DEF clockVars, configVars, reserveVars, obligationVars
<1>1. ASSUME UNCHANGED <<open, obligation>> PROVE ClosedEmpty'
    BY <1>1 DEF ClosedEmpty
<1>2. ASSUME NEW o \in Obligations, o \in open', open \subseteq open',
             \A q \in Obligations \ {o} : obligation'[q] = obligation[q]
      PROVE  ClosedEmpty'
    BY <1>2 DEF ClosedEmpty
<1>3. ASSUME NEW o \in Obligations, InitObligation(o) \/ RefreshObligation(o)
      PROVE  ClosedEmpty'
    <2>1. \A q \in Obligations \ {o} : obligation'[q] = obligation[q]
        BY <1>3, OtherObligations DEF InitObligation, RefreshObligation, TypeOK
    <2> QED BY <1>2, <1>3, <2>1 DEF InitObligation, RefreshObligation
<1>4. ASSUME NEW o \in Obligations, WritesPosition(o) PROVE ClosedEmpty'
    BY <1>2, <1>4, OtherObligations DEF WritesPosition
<1> QED BY <1>1, <1>3, <1>4, ObligationsWritten, PositionStepWrites

(***************************************************************************)
(* The inductive invariant: the vault's, and the collateral books, which   *)
(* need that an account not yet created holds nothing.                     *)
(***************************************************************************)
BooksInv == VaultInv /\ CollateralConserved /\ ClosedEmpty

\* Every instruction keeps the collateral books.
LEMMA NextBooksInv == BooksInv /\ [Next]_vars => BooksInv'
<1> SUFFICES ASSUME BooksInv, [Next]_vars PROVE BooksInv'
    OBVIOUS
<1> USE DEF clockVars, configVars, reserveVars, obligationVars
<1>0. TypeOK /\ CollateralConserved /\ IdleEmpty /\ ClosedEmpty /\ VaultInv
    BY DEF BooksInv, VaultInv
<1>1. VaultInv'
    BY <1>0, NextVaultInv
<1>2. ASSUME UNCHANGED <<reserve, token, obligation>> PROVE CollateralConserved'
    BY <1>0, <1>2, ConservedIs
<1>3. CASE UNCHANGED vars
    <2>1. UNCHANGED <<reserve, token, obligation, open>>
        BY <1>3 DEF vars
    <2>2. ClosedEmpty'
        BY <1>0, <2>1 DEF ClosedEmpty
    <2> QED BY <1>1, <1>2, <2>1, <2>2 DEF BooksInv
<1>4. CASE Next
    <2>1. ASSUME NEW r \in Reserves, ReserveStep(r) PROVE CollateralConserved'
        BY <1>0, <2>1, ReserveStepBooks DEF IdleEmpty
    <2>2. Tick => UNCHANGED <<reserve, token, obligation>>
        BY DEF Tick
    <2>3. \A r \in Reserves, signer \in Keys :
             ConfigStep(r, signer) => UNCHANGED <<reserve, token, obligation>>
        BY DEF ConfigStep, UpdateReserveConfigByOwner, UpdateReserveConfigByRiskAuthority,
               UpdateReserveConfigBySolend
    <2>4. \A owner, limiter, liquidator, risk :
             SetLendingMarketOwnerAndConfig(owner, limiter, liquidator, risk)
                => UNCHANGED <<reserve, token, obligation>>
        BY DEF SetLendingMarketOwnerAndConfig
    <2>5. CollateralConserved'
        BY <1>0, <1>2, <1>4, <2>1, <2>2, <2>3, <2>4, FlashRepayBooks, RefreshBooks,
           PositionStepBooks DEF Next
    <2> QED BY <1>0, <1>1, <1>4, <2>5, NextClosed DEF BooksInv
<1> QED BY <1>3, <1>4

\* A market just made has no collateral anywhere.
LEMMA InitBooksInv == Init => BooksInv
<1> SUFFICES ASSUME Init PROVE BooksInv
    OBVIOUS
<1>1. TypeOK
    BY InitTyped
<1>2. VaultMatchesAvailable /\ IdleEmpty /\ ClosedEmpty
    BY DEF Init, VaultMatchesAvailable, IdleEmpty, NoReserve, ClosedEmpty
<1>3. ASSUME NEW r \in Reserves
      PROVE  Balanced(reserve[r], token[r], HeldBy(obligation, r))
    <2>1. ASSUME NEW o \in Obligations
          PROVE  HeldCollateral(obligation[o], r) = 0
        <3>1. obligation[o] \in ObligationRec /\ obligation[o].deposits = <<>>
            BY <1>1 DEF Init, NewObligation, TypeOK
        <3>2. PICK s : s = obligation[o].deposits
            OBVIOUS
        <3>3. s \in Seq(ObligationCollateral) /\ Len(s) = 0
            <4>1. s \in Seq(ObligationCollateral)
                BY <3>1, <3>2 DEF ObligationRec
            <4>2. s = <<>>
                BY <3>1, <3>2
            <4> QED BY <4>1, <4>2
        <3>4. IsFiniteSet(1..Len(s)) /\ \A i \in 1..Len(s) : HeldIn(s, r)[i] = 0
            <4>1. IsFiniteSet(1..Len(s))
                BY <3>3, HeldParts
            <4>2. 1..Len(s) = {}
                BY <3>3
            <4> QED BY <4>1, <4>2
        <3>5. HeldSum(s, r) = 0
            BY <3>4, SumOfZeros DEF HeldSum
        <3> QED BY <3>1, <3>2, <3>5, HeldIsSum
    <2>2. PICK f : f = [o \in Obligations |-> HeldCollateral(obligation[o], r)]
        OBVIOUS
    <2>3. \A o \in Obligations : f[o] = 0
        BY <2>1, <2>2
    <2>4. SumFunctionOnSet(f, Obligations) = 0
        BY <2>3, SumOfZeros, MarketAssumption
    <2>5. HeldBy(obligation, r) = 0
        BY <2>2, <2>4 DEF HeldBy
    <2>6. /\ token[r].ctoken_mint = 0 /\ token[r].ctoken_supply = 0 /\ token[r].ctoken_wallet = 0
          /\ reserve[r].mint_total_supply = 0
        BY DEF Init, NoReserve
    <2> QED BY <2>5, <2>6 DEF Balanced
<1> QED BY <1>1, <1>2, <1>3, ConservedIs DEF BooksInv, VaultInv

(***************************************************************************)
(* CollateralConserved holds in every reachable state: the collateral      *)
(* supply account holds exactly what the obligations have on deposit, and  *)
(* the mint total a reserve keeps is the supply of its mint, however many  *)
(* obligations and reserves there are.                                     *)
(***************************************************************************)
THEOREM CollateralIsConserved == Spec => []CollateralConserved
<1>1. Spec => []BooksInv
    BY InitBooksInv, NextBooksInv, PTL DEF Spec
<1> QED BY <1>1, PTL DEF BooksInv

(***************************************************************************)
(* BooksBalance holds in every reachable state: liquidity and collateral   *)
(* books agree with the token accounts together, through a liquidation     *)
(* that moves both in one instruction.                                     *)
(***************************************************************************)
THEOREM BooksAlwaysBalance == Spec => []BooksBalance
<1>1. Spec => []BooksInv
    BY InitBooksInv, NextBooksInv, PTL DEF Spec
<1>2. BooksInv => BooksBalance
    BY DEF BooksInv, VaultInv, BooksBalance
<1> QED BY <1>1, <1>2, PTL

-----------------------------------------------------------------------------
(* Debts of one obligation.                                                *)

\* what each borrow in the list s owes reserve r
OwedIn(s, r) ==
    [i \in 1..Len(s) |-> IF s[i].borrow_reserve = r THEN s[i].borrowed_amount_wads ELSE 0]

OwedSum(s, r) == SumFunctionOnSet(OwedIn(s, r), 1..Len(s))

\* Its parts are natural numbers, and no part is more than the sum.
LEMMA OwedParts ==
    ASSUME NEW s \in Seq(ObligationLiquidity), NEW r
    PROVE  /\ Len(s) \in Nat /\ DOMAIN s = 1..Len(s) /\ IsFiniteSet(1..Len(s))
           /\ \A i \in 1..Len(s) : /\ s[i] \in ObligationLiquidity
                                   /\ s[i].borrowed_amount_wads \in Nat
                                   /\ OwedIn(s, r)[i] \in Nat
                                   /\ OwedIn(s, r)[i] <= OwedSum(s, r)
           /\ OwedSum(s, r) \in Nat
<1>1. Len(s) \in Nat /\ DOMAIN s = 1..Len(s)
    OBVIOUS
<1>2. PICK D : D = 1..Len(s) /\ IsFiniteSet(D)
    BY <1>1, FS_Interval
<1>3. ASSUME NEW i \in D
      PROVE  /\ s[i] \in ObligationLiquidity /\ s[i].borrowed_amount_wads \in Nat
             /\ OwedIn(s, r)[i] \in Nat
    <2>1. s[i] \in ObligationLiquidity
        BY <1>2
    <2>2. s[i].borrowed_amount_wads \in Nat
        BY <2>1, WadAssumption DEF ObligationLiquidity, U128
    <2> QED BY <1>2, <2>1, <2>2 DEF OwedIn
<1>4. PICK f : f = OwedIn(s, r)
    OBVIOUS
<1>5. SumFunctionOnSet(f, D) \in Nat
    BY <1>2, <1>3, <1>4, SumNat
<1>6. ASSUME NEW i \in D PROVE f[i] <= SumFunctionOnSet(f, D)
    <2>0. \A k \in D : f[k] \in Nat
        BY <1>3, <1>4
    <2>1. SumFunctionOnSet(f, D) = f[i] + SumFunctionOnSet(f, D \ {i})
        BY <1>2, <2>0, SumTakeOut
    <2>2. IsFiniteSet(D \ {i})
        BY <1>2, FS_RemoveElement
    <2>3. SumFunctionOnSet(f, D \ {i}) \in Nat
        BY <1>3, <1>4, <2>2, SumNat
    <2>4. f[i] \in Nat
        BY <1>3, <1>4
    <2> QED BY <2>1, <2>3, <2>4
<1> QED BY <1>1, <1>2, <1>3, <1>4, <1>5, <1>6 DEF OwedSum

\* Debt, as this sum; it is a matter of the borrows alone.
LEMMA DebtIsSum ==
    ASSUME NEW ob \in ObligationRec, NEW r
    PROVE  Debt(ob, r) = OwedSum(ob.borrows, r) /\ Debt(ob, r) \in Nat
<1>1. ob.borrows \in Seq(ObligationLiquidity)
    BY DEF ObligationRec
<1>2. DOMAIN ob.borrows = 1..Len(ob.borrows)
    BY <1>1
<1>3. Debt(ob, r) = OwedSum(ob.borrows, r)
    BY <1>2 DEF Debt, SumOver, SumFunction, OwedSum, OwedIn
<1> QED BY <1>1, <1>3, OwedParts

\* t is the list s with entry i, owed to r, rewritten
Rewrites(s, t, i, r) ==
    /\ s \in Seq(ObligationLiquidity) /\ t \in Seq(ObligationLiquidity)
    /\ i \in 1..Len(s) /\ Len(t) = Len(s)
    /\ \A k \in (1..Len(s)) \ {i} : t[k] = s[k]
    /\ s[i].borrow_reserve = r /\ t[i].borrow_reserve = r

\* It changes what is owed to r alone.
LEMMA EntryRewritten ==
    ASSUME NEW s, NEW t, NEW i, NEW r, Rewrites(s, t, i, r), NEW q
    PROVE  OwedSum(t, q) = OwedSum(s, q)
              + (IF q = r THEN t[i].borrowed_amount_wads - s[i].borrowed_amount_wads ELSE 0)
<1> USE DEF Rewrites
<1>1. /\ OwedIn(t, q)[i] = IF r = q THEN t[i].borrowed_amount_wads ELSE 0
      /\ OwedIn(s, q)[i] = IF r = q THEN s[i].borrowed_amount_wads ELSE 0
    BY DEF OwedIn
<1>2. \A k \in (1..Len(s)) \ {i} : OwedIn(t, q)[k] = OwedIn(s, q)[k]
    BY DEF OwedIn
<1>3. DiffersAt(i, 1..Len(s), OwedIn(s, q), OwedIn(t, q))
    <2>1. PICK D : D = 1..Len(s) /\ IsFiniteSet(D) /\ i \in D
        BY OwedParts
    <2>2. \A k \in D : OwedIn(s, q)[k] \in Nat /\ OwedIn(t, q)[k] \in Nat
        BY <2>1, OwedParts
    <2> QED BY <1>2, <2>1, <2>2 DEF DiffersAt
<1>4. OwedSum(t, q) + OwedIn(s, q)[i] = OwedSum(s, q) + OwedIn(t, q)[i]
    BY <1>3, SumChange DEF OwedSum
<1>5. PICK a \in Nat, b \in Nat, c \in Nat, d \in Nat :
         /\ a = OwedSum(t, q) /\ b = OwedSum(s, q)
         /\ c = s[i].borrowed_amount_wads /\ d = t[i].borrowed_amount_wads
    BY OwedParts
<1>6. CASE q = r
    <2>1. OwedIn(t, q)[i] = d /\ OwedIn(s, q)[i] = c
        BY <1>1, <1>5, <1>6
    <2>2. a + c = b + d
        BY <1>4, <1>5, <2>1
    <2>3. a = b + (d - c)
        BY <2>2
    <2> QED BY <1>5, <1>6, <2>3
<1>7. CASE q # r
    <2>1. a + 0 = b + 0
        BY <1>1, <1>4, <1>5, <1>7
    <2> QED BY <1>5, <1>7, <2>1
<1> QED BY <1>6, <1>7

\* An entry taken out of the list takes away what it owed.
LEMMA EntryTakenOut ==
    ASSUME NEW s \in Seq(ObligationLiquidity), NEW i \in 1..Len(s),
           NEW r, s[i].borrow_reserve = r, NEW q
    PROVE  OwedSum(s, q) = OwedSum(RemoveAt(s, i), q)
              + (IF q = r THEN s[i].borrowed_amount_wads ELSE 0)
<1>1. PICK t, n : t = RemoveAt(s, i) /\ n = Len(s) /\ n \in Nat
    OBVIOUS
<1>2. /\ t \in Seq(ObligationLiquidity) /\ Len(t) = n - 1
      /\ \A k \in 1..(n - 1) : t[k] = s[IF k < i THEN k ELSE k + 1]
    BY <1>1, RemoveAtList
<1>3. \A k \in 1..(n - 1) : OwedIn(t, q)[k] = OwedIn(s, q)[IF k < i THEN k ELSE k + 1]
    BY <1>1, <1>2 DEF OwedIn
<1>4. i \in 1..n /\ \A k \in 1..n : OwedIn(s, q)[k] \in Nat
    BY <1>1, OwedParts
<1>5. PICK f, g : f = OwedIn(s, q) /\ g = OwedIn(t, q)
    OBVIOUS
<1>6. SumFunctionOnSet(f, 1..n) = SumFunctionOnSet(g, 1..(n - 1)) + f[i]
    BY <1>1, <1>3, <1>4, <1>5, SumRemoved
<1>7. f[i] = IF q = r THEN s[i].borrowed_amount_wads ELSE 0
    BY <1>5 DEF OwedIn
<1> QED BY <1>1, <1>2, <1>5, <1>6, <1>7 DEF OwedSum

\* A borrow adds to what is owed to its reserve, and to no other.
LEMMA BorrowOwed ==
    ASSUME NEW ob \in ObligationRec, NEW r \in Reserves, NEW rate, NEW x \in Nat,
           ObligationBorrow(ob, r, rate, x) \in ObligationRec, NEW q
    PROVE  Debt(ObligationBorrow(ob, r, rate, x), q) = Debt(ob, q) + (IF q = r THEN x ELSE 0)
<1>1. PICK s, t : s = ob.borrows /\ t = ObligationBorrow(ob, r, rate, x).borrows
    OBVIOUS
<1>2. s \in Seq(ObligationLiquidity) /\ t \in Seq(ObligationLiquidity)
    BY <1>1 DEF ObligationRec
<1>3. OwedSum(t, q) = OwedSum(s, q) + (IF q = r THEN x ELSE 0)
    <2>0. PICK i : i = BorrowIndex(ob, r)
        OBVIOUS
    <2>1. CASE i # 0
        <3>1. i \in 1..Len(s) /\ s[i] \in ObligationLiquidity /\ s[i].borrow_reserve = r
            BY <1>1, <2>0, <2>1, BorrowIndexIn
        <3>2. t = [s EXCEPT ![i].borrowed_amount_wads = @ + x]
            BY <1>1, <2>0, <2>1 DEF ObligationBorrow, ObligationRec
        <3>3. /\ Len(t) = Len(s) /\ t[i] = [s[i] EXCEPT !.borrowed_amount_wads = @ + x]
              /\ \A k \in (1..Len(s)) \ {i} : t[k] = s[k]
            BY <1>2, <3>1, <3>2
        <3>4. /\ t[i].borrow_reserve = r
              /\ t[i].borrowed_amount_wads = s[i].borrowed_amount_wads + x
            BY <3>1, <3>3 DEF ObligationLiquidity
        <3>5. OwedSum(t, q) = OwedSum(s, q)
                 + (IF q = r THEN t[i].borrowed_amount_wads - s[i].borrowed_amount_wads ELSE 0)
            <4>1. Rewrites(s, t, i, r)
                BY <1>2, <3>1, <3>3, <3>4 DEF Rewrites
            <4> QED BY <4>1, EntryRewritten
        <3>6. s[i].borrowed_amount_wads \in Nat
            BY <1>2, <3>1, OwedParts
        <3> QED BY <3>4, <3>5, <3>6
    <2>2. CASE i = 0
        <3>1. PICK e : e = [borrow_reserve |-> r, cumulative_borrow_rate_wads |-> rate,
                            borrowed_amount_wads |-> x, market_value |-> 0]
            OBVIOUS
        <3>2. t = Append(s, e)
            BY <1>1, <2>0, <2>2, <3>1 DEF ObligationBorrow, ObligationRec
        <3>3. PICK n \in Nat : n = Len(s)
            BY <1>2
        <3>4. Len(t) = n + 1 /\ t[n + 1] = e /\ \A k \in 1..n : t[k] = s[k]
            BY <1>2, <3>2, <3>3
        <3>5. /\ \A k \in 1..n : OwedIn(s, q)[k] \in Nat /\ OwedIn(t, q)[k] = OwedIn(s, q)[k]
              /\ OwedIn(t, q)[n + 1] = IF q = r THEN x ELSE 0
            <4>1. \A k \in 1..n : OwedIn(s, q)[k] \in Nat
                BY <1>2, <3>3, OwedParts
            <4>2. \A k \in 1..n : OwedIn(t, q)[k] = OwedIn(s, q)[k]
                BY <3>3, <3>4 DEF OwedIn
            <4>3. OwedIn(t, q)[n + 1] = IF r = q THEN x ELSE 0
                BY <3>1, <3>4 DEF OwedIn
            <4> QED BY <4>1, <4>2, <4>3
        <3>6. SumFunctionOnSet(OwedIn(t, q), 1..(n + 1))
                 = SumFunctionOnSet(OwedIn(s, q), 1..n) + OwedIn(t, q)[n + 1]
            BY <3>5, SumAppended
        <3> QED BY <3>3, <3>4, <3>5, <3>6 DEF OwedSum
    <2> QED BY <2>1, <2>2
<1> QED BY <1>1, <1>3, DebtIsSum

\* new is the obligation ob after a repayment of x of its entry i, accrued to d first and
\* owed to reserve r
Repays(ob, i, d, x, r, new) ==
    /\ ob \in ObligationRec /\ new \in ObligationRec /\ i \in 1..Len(ob.borrows) /\ x \in Nat
    /\ ob.borrows[i].borrow_reserve = r /\ d.borrow_reserve = r
    /\ "borrow_reserve" \in DOMAIN d /\ "borrowed_amount_wads" \in DOMAIN d
    /\ new = ObligationRepay([ob EXCEPT !.borrows[i] = d], i, x)

(***************************************************************************)
(* It changes what is owed to r alone; without interest it takes off       *)
(* exactly what it settles, and never more than the entry owed.            *)
(***************************************************************************)
LEMMA RepayOwed ==
    ASSUME NEW ob, NEW i, NEW d, NEW x, NEW r, NEW new, Repays(ob, i, d, x, r, new), NEW q
    PROVE  /\ q # r => Debt(new, q) = Debt(ob, q)
           /\ d.borrowed_amount_wads = ob.borrows[i].borrowed_amount_wads =>
                 /\ x <= Debt(ob, r)
                 /\ q = r => Debt(new, q) = Debt(ob, q) - x
<1> USE DEF Repays
<1>1. PICK s, t : s = ob.borrows /\ t = new.borrows /\ r = s[i].borrow_reserve
    OBVIOUS
<1>2. /\ s \in Seq(ObligationLiquidity) /\ t \in Seq(ObligationLiquidity)
      /\ i \in 1..Len(s) /\ d.borrow_reserve = r
    BY <1>1 DEF ObligationRec
<1>3. PICK u, ab : u = [s EXCEPT ![i] = d] /\ ab = [ob EXCEPT !.borrows[i] = d]
    OBVIOUS
<1>4. ab.borrows = u /\ "borrows" \in DOMAIN ab /\ new = ObligationRepay(ab, i, x)
    BY <1>1, <1>3 DEF ObligationRec
<1>5. PICK a \in Nat, b \in Nat, c \in Nat, h \in Nat :
         /\ a = OwedSum(t, q) /\ b = OwedSum(s, q) /\ c = s[i].borrowed_amount_wads
         /\ h = OwedSum(s, r)
    BY <1>2, OwedParts
<1>6. c <= h
    <2>1. OwedIn(s, r)[i] = c
        BY <1>1, <1>2, <1>5 DEF OwedIn
    <2> QED BY <1>2, <1>5, <2>1, OwedParts
<1>7. PICK X : X = ObligationLiquidity \cup {d}
    OBVIOUS
<1>8. u \in Seq(X) /\ Len(u) = Len(s) /\ u[i] = d /\ \A k \in (1..Len(s)) \ {i} : u[k] = s[k]
    BY <1>2, <1>3, <1>7
<1>9. CASE x = d.borrowed_amount_wads
    <2>1. t = RemoveAt(u, i)
        BY <1>1, <1>4, <1>8, <1>9 DEF ObligationRepay
    <2>2. RemoveAt(u, i) = RemoveAt(s, i)
        <3>1. PICK n \in Nat : n = Len(s)
            BY <1>2
        <3>2. /\ RemoveAt(u, i) \in Seq(X) /\ Len(RemoveAt(u, i)) = n - 1
              /\ \A k \in 1..(n - 1) : RemoveAt(u, i)[k] = u[IF k < i THEN k ELSE k + 1]
            <4>1. i \in 1..Len(u) /\ Len(u) = n
                BY <1>2, <1>8, <3>1
            <4> QED BY <1>8, <4>1, RemoveAtList
        <3>3. /\ RemoveAt(s, i) \in Seq(ObligationLiquidity) /\ Len(RemoveAt(s, i)) = n - 1
              /\ \A k \in 1..(n - 1) : RemoveAt(s, i)[k] = s[IF k < i THEN k ELSE k + 1]
            BY <1>2, <3>1, RemoveAtList
        <3>4. \A k \in 1..(n - 1) : RemoveAt(u, i)[k] = RemoveAt(s, i)[k]
            <4>1. ASSUME NEW k \in 1..(n - 1)
                  PROVE  u[IF k < i THEN k ELSE k + 1] = s[IF k < i THEN k ELSE k + 1]
                <5>1. PICK j : j = IF k < i THEN k ELSE k + 1
                    OBVIOUS
                <5>2. j \in (1..Len(s)) \ {i}
                    BY <1>2, <3>1, <5>1
                <5> QED BY <1>8, <5>1, <5>2
            <4> QED BY <3>2, <3>3, <4>1
        <3> QED BY <3>2, <3>3, <3>4
    <2>3. b = a + (IF q = r THEN c ELSE 0)
        BY <1>1, <1>2, <1>5, <2>1, <2>2, EntryTakenOut
    <2>4. /\ q # r => a = b
          /\ d.borrowed_amount_wads = c => x <= h /\ (q = r => a = b - x)
        BY <1>5, <1>6, <1>9, <2>3
    <2> QED BY <1>1, <1>5, <2>4, DebtIsSum
<1>10. CASE x # d.borrowed_amount_wads
    <2>1. t = [u EXCEPT ![i].borrowed_amount_wads = @ - x]
        BY <1>1, <1>4, <1>8, <1>10 DEF ObligationRepay
    <2>2. /\ Len(t) = Len(s) /\ t[i] = [d EXCEPT !.borrowed_amount_wads = @ - x]
          /\ \A k \in (1..Len(s)) \ {i} : t[k] = s[k]
        BY <1>2, <1>8, <2>1
    <2>3. t[i].borrow_reserve = r /\ t[i].borrowed_amount_wads = d.borrowed_amount_wads - x
        BY <1>2, <2>2
    <2>4. a = b + (IF q = r THEN t[i].borrowed_amount_wads - c ELSE 0)
        <3>1. Rewrites(s, t, i, r)
            BY <1>1, <1>2, <2>2, <2>3 DEF Rewrites
        <3> QED BY <1>5, <3>1, EntryRewritten
    <2>5. t[i].borrowed_amount_wads \in Nat
        BY <1>2, <2>2, OwedParts
    <2>6. d.borrowed_amount_wads = c => x <= c /\ t[i].borrowed_amount_wads = c - x
        BY <2>3, <2>5
    <2>7. /\ q # r => a = b
          /\ d.borrowed_amount_wads = c => x <= h /\ (q = r => a = b - x)
        BY <1>5, <1>6, <2>4, <2>5, <2>6
    <2> QED BY <1>1, <1>5, <2>7, DebtIsSum
<1> QED BY <1>9, <1>10

(***************************************************************************)
(* A refresh leaves what is owed to a reserve that has accrued nothing     *)
(* since the debts to it were dated; the borrows it drops were empty.      *)
(***************************************************************************)
LEMMA RefreshOwed ==
    ASSUME NEW ob \in ObligationRec, NEW res, NEW cfg \in [Reserves -> ReserveConfig],
           NEW new \in ObligationRec, new = RefreshedObligation(ob, res, cfg), NEW q,
           \A i \in 1..Len(ob.borrows) :
              ob.borrows[i].borrow_reserve = q =>
                 ob.borrows[i].cumulative_borrow_rate_wads = res[q].cumulative_borrow_rate_wads
    PROVE  Debt(new, q) = Debt(ob, q)
<1>1. PICK s, t : s = ob.borrows /\ t = new.borrows
    OBVIOUS
<1>2. s \in Seq(ObligationLiquidity) /\ t \in Seq(ObligationLiquidity)
    BY <1>1 DEF ObligationRec
<1>3. PICK m : BorrowsRefreshed(s, t, res, cfg, m)
    BY <1>1, RefreshedBorrows
<1>4. PICK f, g : f = OwedIn(s, q) /\ g = OwedIn(t, q)
    OBVIOUS
<1>5. ASSUME NEW i \in 1..Len(s), s[i].borrow_reserve = q PROVE AtRate(s[i], res) = s[i]
    BY <1>1, <1>5 DEF AtRate, AccrueBorrow
<1>6. ASSUME NEW k \in 1..Len(t) PROVE g[k] = f[m[k]]
    <2>1. /\ m[k] \in 1..Len(s) /\ t[k].borrow_reserve = s[m[k]].borrow_reserve
          /\ t[k].borrowed_amount_wads = AtRate(s[m[k]], res).borrowed_amount_wads
        BY <1>3 DEF BorrowsRefreshed
    <2> QED BY <1>4, <1>5, <2>1 DEF OwedIn
<1>7. ASSUME NEW i \in 1..Len(s), \A k \in 1..Len(t) : m[k] # i PROVE f[i] = 0
    <2>1. ~(AtRate(s[i], res).borrowed_amount_wads > 0)
        BY <1>3, <1>7 DEF BorrowsRefreshed
    <2>2. s[i].borrowed_amount_wads \in Nat
        BY <1>2, OwedParts
    <2>3. CASE s[i].borrow_reserve = q
        BY <1>4, <1>5, <2>1, <2>2, <2>3 DEF OwedIn
    <2>4. CASE s[i].borrow_reserve # q
        BY <1>4, <2>4 DEF OwedIn
    <2> QED BY <2>3, <2>4
<1>8. /\ IsFiniteSet(1..Len(s)) /\ IsFiniteSet(1..Len(t))
      /\ \A i \in 1..Len(s) : f[i] \in Nat
    BY <1>2, <1>4, OwedParts
<1>9. /\ m \in [1..Len(t) -> 1..Len(s)]
      /\ \A j, k \in 1..Len(t) : m[j] = m[k] => j = k
    BY <1>3 DEF BorrowsRefreshed
<1>10. Renumbers(m, 1..Len(t), g, 1..Len(s), f)
    BY <1>6, <1>7, <1>8, <1>9 DEF Renumbers
<1>11. SumFunctionOnSet(g, 1..Len(t)) = SumFunctionOnSet(f, 1..Len(s))
    BY <1>10, SumRenumbered
<1> QED BY <1>1, <1>4, <1>11, DebtIsSum DEF OwedSum

-----------------------------------------------------------------------------
(* Debts of all obligations.                                               *)

OwedBy(obs, r) == SumFunctionOnSet([o \in Obligations |-> Debt(obs[o], r)], Obligations)

\* what the flash loan fl has out of reserve r
Lent(fl, r) == IF fl # NoFlash /\ fl.reserve = r THEN FromU64(fl.amount) ELSE 0

\* The books of one reserve, against the debts to it.
Matched(res, obs, fl, r) ==
    res[r].cumulative_borrow_rate_wads = WAD =>
        res[r].borrowed_amount_wads = OwedBy(obs, r) + Lent(fl, r)

\* DebtsMatchReserve, reserve by reserve.
AllMatched == \A r \in live : Matched(reserve, obligation, flash, r)

\* The property is about these sums.
LEMMA MatchedMeans == DebtsMatchReserve <=> AllMatched
<1> DEFINE Books(r) ==
        reserve[r].cumulative_borrow_rate_wads = WAD =>
            reserve[r].borrowed_amount_wads =
                MapThenSumSet(LAMBDA o : Debt(obligation[o], r), Obligations)
                + (IF flash # NoFlash /\ flash.reserve = r THEN FromU64(flash.amount) ELSE 0)
<1>1. ASSUME NEW r \in live
      PROVE  Books(r) <=> Matched(reserve, obligation, flash, r)
    <2>1. MapThenSumSet(LAMBDA o : Debt(obligation[o], r), Obligations) = OwedBy(obligation, r)
        BY DEF OwedBy, MapThenSumSet, MapThenFoldSet, SumFunctionOnSet, FoldFunctionOnSet
    <2> QED BY <2>1, Zenon DEF Matched, Lent
<1>2. DebtsMatchReserve <=> \A r \in live : Books(r)
    BY Zenon DEF DebtsMatchReserve
<1> HIDE DEF Books
<1> QED BY <1>1, <1>2 DEF AllMatched

\* It says that every live reserve is matched, before a step and after it.
LEMMA MatchedIs ==
    /\ DebtsMatchReserve <=> \A r \in live : Matched(reserve, obligation, flash, r)
    /\ DebtsMatchReserve' <=> \A r \in live' : Matched(reserve', obligation', flash', r)
<1>1. DebtsMatchReserve <=> AllMatched
    BY MatchedMeans
<1>2. DebtsMatchReserve' <=> AllMatched'
    BY MatchedMeans, PTL
<1>3. AllMatched' <=> \A r \in live' : Matched(reserve', obligation', flash', r)
    BY DEF AllMatched, Matched, OwedBy, Lent
<1> QED BY <1>1, <1>2, <1>3 DEF AllMatched

\* What all owe together is a number, and no one owes more than all.
LEMMA OwedByNat ==
    ASSUME NEW obs \in [Obligations -> ObligationRec], NEW q
    PROVE  OwedBy(obs, q) \in Nat /\ \A o \in Obligations : Debt(obs[o], q) <= OwedBy(obs, q)
<1>1. PICK f : f = [p \in Obligations |-> Debt(obs[p], q)]
    OBVIOUS
<1>2. \A p \in Obligations : f[p] \in Nat
    BY <1>1, DebtIsSum
<1>3. IsFiniteSet(Obligations) /\ SumFunctionOnSet(f, Obligations) \in Nat
    BY <1>2, SumNat, MarketAssumption
<1>4. ASSUME NEW o \in Obligations PROVE f[o] <= SumFunctionOnSet(f, Obligations)
    <2>1. SumFunctionOnSet(f, Obligations) = f[o] + SumFunctionOnSet(f, Obligations \ {o})
        BY <1>2, <1>3, SumTakeOut
    <2>2. IsFiniteSet(Obligations \ {o})
        BY <1>3, FS_RemoveElement
    <2>3. SumFunctionOnSet(f, Obligations \ {o}) \in Nat
        BY <1>2, <2>2, SumNat
    <2> QED BY <1>2, <2>1, <2>3
<1> QED BY <1>1, <1>3, <1>4 DEF OwedBy

\* What one obligation comes to owe more or less, all of them together do.
LEMMA OwedByShift ==
    ASSUME NEW obs \in [Obligations -> ObligationRec], NEW o \in Obligations,
           NEW ob \in ObligationRec, NEW q, NEW d \in Int, Debt(ob, q) = Debt(obs[o], q) + d
    PROVE  OwedBy([obs EXCEPT ![o] = ob], q) = OwedBy(obs, q) + d
<1>1. PICK f : f = [p \in Obligations |-> Debt(obs[p], q)]
    OBVIOUS
<1>2. PICK g : g = [p \in Obligations |-> Debt([obs EXCEPT ![o] = ob][p], q)]
    OBVIOUS
<1>3. /\ \A p \in Obligations \ {o} : [obs EXCEPT ![o] = ob][p] = obs[p]
      /\ [obs EXCEPT ![o] = ob][o] = ob
    OBVIOUS
<1>4. f[o] = Debt(obs[o], q) /\ g[o] = Debt(ob, q)
    BY <1>1, <1>2, <1>3
<1>5. DiffersAt(o, Obligations, f, g)
    <2>1. \A p \in Obligations \ {o} : g[p] = f[p]
        BY <1>1, <1>2, <1>3
    <2>2. \A p \in Obligations : f[p] \in Nat
        BY <1>1, DebtIsSum
    <2>3. g[o] \in Nat
        BY <1>4, DebtIsSum
    <2> QED BY <2>1, <2>2, <2>3, MarketAssumption DEF DiffersAt
<1>6. SumFunctionOnSet(g, Obligations) + f[o] = SumFunctionOnSet(f, Obligations) + g[o]
    BY <1>5, SumChange
<1>7. SumFunctionOnSet(f, Obligations) \in Nat /\ SumFunctionOnSet(g, Obligations) \in Nat
    BY <1>5, SumNat DEF DiffersAt
<1>8. f[o] \in Nat /\ g[o] = f[o] + d
    BY <1>4, <1>5 DEF DiffersAt
<1>9. SumFunctionOnSet(g, Obligations) = SumFunctionOnSet(f, Obligations) + d
    BY <1>6, <1>7, <1>8
<1> QED BY <1>1, <1>2, <1>9 DEF OwedBy

-----------------------------------------------------------------------------
(* Debts and reserves.                                                     *)

\* no debt was dated before its reserve had a rate
Dates(ob) == \A i \in 1..Len(ob.borrows) : WAD <= ob.borrows[i].cumulative_borrow_rate_wads

(***************************************************************************)
(* The inductive invariant: besides the match itself, that the cumulative  *)
(* rate of a reserve starts at one and that every debt to it is dated      *)
(* between one and the reserve's rate.  So a rate of one means that no     *)
(* debt to the reserve has interest to accrue.                             *)
(***************************************************************************)
RatesInv ==
    /\ BooksInv /\ DebtRateInv
    /\ \A r \in live : WAD <= reserve[r].cumulative_borrow_rate_wads
    /\ \A o \in Obligations : Dates(obligation[o])

MatchInv == RatesInv /\ DebtsMatchReserve

\* What the steps below use of it.
LEMMA MatchFacts ==
    ASSUME RatesInv
    PROVE  /\ TypeOK /\ CurvesInv /\ IdleEmpty /\ ClosedEmpty /\ live \subseteq Reserves
           /\ reserve \in [Reserves -> ReserveRec] /\ obligation \in [Obligations -> ObligationRec]
           /\ \A r \in Reserves : /\ reserve[r].cumulative_borrow_rate_wads \in Nat
                                  /\ reserve[r].borrowed_amount_wads \in Nat
           /\ \A r : Lent(flash, r) \in Nat /\ OwedBy(obligation, r) \in Nat
<1>1. /\ TypeOK /\ CurvesInv /\ IdleEmpty /\ ClosedEmpty /\ live \subseteq Reserves
      /\ reserve \in [Reserves -> ReserveRec] /\ obligation \in [Obligations -> ObligationRec]
    BY DEF RatesInv, BooksInv, VaultInv, DebtRateInv, TypeOK
<1>2. \A r \in Reserves : /\ reserve[r].cumulative_borrow_rate_wads \in Nat
                          /\ reserve[r].borrowed_amount_wads \in Nat
    <2>1. \A r \in Reserves : reserve[r] \in ReserveRec
        BY <1>1
    <2> QED BY <2>1, MovesKeepRate, ReserveNat
<1>3. ASSUME NEW r PROVE Lent(flash, r) \in Nat
    <2>1. CASE flash # NoFlash /\ flash.reserve = r
        <3>1. flash.amount \in Nat
            BY <1>1, <2>1, WadAssumption DEF TypeOK, U64
        <3> QED BY <2>1, <3>1, ConversionsNat DEF Lent
    <2>2. CASE ~(flash # NoFlash /\ flash.reserve = r)
        BY <2>2 DEF Lent
    <2> QED BY <2>1, <2>2
<1> QED BY <1>1, <1>2, <1>3, OwedByNat

\* The fields interest leaves a reserve with.
LEMMA InterestFields ==
    ASSUME TypeOK, NEW r \in Reserves, NEW res \in WithInterest(r)
    PROVE  /\ \A x : DepositLiquidity(res, x).borrowed_amount_wads = res.borrowed_amount_wads
           /\ \A x : LiquidityBorrow(res, x).borrowed_amount_wads = res.borrowed_amount_wads + x
           /\ \A x, y : LiquidityRepay(res, x, y).borrowed_amount_wads
                           = res.borrowed_amount_wads - MinOf(y, res.borrowed_amount_wads)
           /\ \A m, p : [res EXCEPT !.market_price = m,
                                    !.smoothed_market_price = p].borrowed_amount_wads
                           = res.borrowed_amount_wads
<1>1. reserve[r] \in ReserveRec
    BY DEF TypeOK
<1>2. CASE res = reserve[r]
    BY <1>1, <1>2 DEF DepositLiquidity, LiquidityRepay, LiquidityBorrow, ReserveRec
<1>3. CASE res # reserve[r]
    <2>1. res = CompoundInterest(config[r], reserve[r], slot - reserve_update[r].slot)
        BY <1>3 DEF WithInterest, AccrueInterest, Result
    <2>2. PICK x, y, z : res = [reserve[r] EXCEPT !.cumulative_borrow_rate_wads = x,
                                                  !.accumulated_protocol_fees_wads = y,
                                                  !.borrowed_amount_wads = z]
        BY <2>1, Zenon DEF CompoundInterest
    <2> QED BY <1>1, <2>2 DEF DepositLiquidity, LiquidityRepay, LiquidityBorrow, ReserveRec
<1> QED BY <1>2, <1>3

\* The fields of a reserve that is moved without interest.
LEMMA MovesDebt ==
    ASSUME NEW res \in ReserveRec
    PROVE  /\ \A x : RedeemCollateral(res, x).borrowed_amount_wads = res.borrowed_amount_wads
           /\ \A x : LiquidityRedeemFees(res, x).borrowed_amount_wads = res.borrowed_amount_wads
           /\ \A x : LiquidityBorrow(res, x).borrowed_amount_wads = res.borrowed_amount_wads + x
           /\ \A x : LiquidityForgiveDebt(res, x).borrowed_amount_wads = res.borrowed_amount_wads - x
           /\ \A x, y : LiquidityRepay(res, x, y).borrowed_amount_wads
                           = res.borrowed_amount_wads - MinOf(y, res.borrowed_amount_wads)
<1> QED BY DEF RedeemCollateral, LiquidityRedeemFees, LiquidityBorrow, LiquidityForgiveDebt,
               LiquidityRepay, ReserveRec

(***************************************************************************)
(* A reserve whose cumulative rate is one after accrue_interest has never  *)
(* charged any: the rate was one before, the compounded rate is one, and   *)
(* what is borrowed is what it was.                                        *)
(***************************************************************************)
LEMMA InterestAtOne ==
    ASSUME RatesInv, NEW r \in live, NEW res \in WithInterest(r),
           res.cumulative_borrow_rate_wads = WAD
    PROVE  /\ reserve[r].cumulative_borrow_rate_wads = WAD
           /\ res.borrowed_amount_wads = reserve[r].borrowed_amount_wads
<1>0. r \in Reserves /\ TypeOK /\ CurvesInv
    BY MatchFacts
<1>1. reserve[r] \in ReserveRec /\ config[r] \in ReserveConfig /\ CurveOrdered(config[r])
    BY <1>0 DEF CurvesInv, TypeOK
<1>2. PICK slots \in Nat : slots = slot - reserve_update[r].slot
    <2>1. reserve_update[r] \in PastUpdate /\ slot \in Int
        BY <1>0 DEF CurvesInv, PriceInv
    <2>2. reserve_update[r].slot \in Int /\ reserve_update[r].slot <= slot
        BY <2>1 DEF PastUpdate
    <2> QED BY <2>1, <2>2
<1>3. res \in AccrueInterest(config[r], reserve[r], slots)
    BY <1>2 DEF WithInterest
<1>4. PICK c \in Nat, b \in Nat : /\ c = reserve[r].cumulative_borrow_rate_wads
                                  /\ b = reserve[r].borrowed_amount_wads
    BY <1>0, MatchFacts
<1>5. WAD \in Nat /\ WAD <= c
    BY <1>4, WadAssumption DEF RatesInv
<1>6. CASE slots = 0
    BY <1>3, <1>6 DEF AccrueInterest
<1>7. CASE slots # 0
    <2>1. res = CompoundInterest(config[r], reserve[r], slots)
        BY <1>3, <1>7 DEF AccrueInterest, Result
    <2>2. PICK i \in Nat : i = CurrentBorrowRate(config[r], reserve[r]) \div SLOTS_PER_YEAR
        <3>1. SLOTS_PER_YEAR \in Nat /\ SLOTS_PER_YEAR # 0
            BY ReserveAssumption
        <3> QED BY <1>1, <3>1, BorrowRateNat, DivBounds
    <2>3. WAD + i \in Nat /\ WAD + i >= WAD
        BY <1>5
    <2>4. PICK rate \in Nat : rate = TryPow(WAD + i, slots) /\ rate >= WAD
        BY <2>3, PowAtLeastOne
    <2>5. /\ res.cumulative_borrow_rate_wads = DecMul(c, rate)
          /\ res.borrowed_amount_wads = b + (DecMul(b, rate) - b)
        BY <1>1, <1>4, <2>1, <2>2, <2>4 DEF CompoundInterest, ReserveRec
    <2>6. c = WAD
        <3>1. DecMul(c, rate) >= c
            BY <2>4, DecMulGrows
        <3> QED BY <1>5, <2>5, <3>1
    <2>7. rate = WAD
        <3>1. DecMul(WAD, rate) = DecMul(rate, WAD)
            <4>1. WAD * rate = rate * WAD
                BY <1>5
            <4> QED BY <4>1 DEF DecMul
        <3> QED BY <2>5, <2>6, <3>1, DecMulOne
    <2>8. DecMul(b, rate) = b
        BY <2>7, DecMulOne
    <2>9. b + (b - b) = b
        OBVIOUS
    <2> QED BY <1>4, <2>5, <2>6, <2>8, <2>9
<1> QED BY <1>6, <1>7

\* A step on one reserve that moves its debt along with the flash loan keeps the match.
LEMMA ReserveMatch ==
    ASSUME MatchInv, NEW r \in live, NEW new, PackReserve(r, new),
           UNCHANGED <<obligation, live>>,
           new.cumulative_borrow_rate_wads = WAD =>
              /\ reserve[r].cumulative_borrow_rate_wads = WAD
              /\ new.borrowed_amount_wads + Lent(flash, r)
                    = reserve[r].borrowed_amount_wads + Lent(flash', r),
           \A q : Lent(flash', q) \in Nat,
           \A q \in live \ {r} : Lent(flash', q) = Lent(flash, q)
    PROVE  DebtsMatchReserve'
<1>1. RatesInv /\ \A q \in live : Matched(reserve, obligation, flash, q)
    BY MatchedIs DEF MatchInv
<1>2. r \in Reserves /\ TypeOK /\ live \subseteq Reserves
    BY <1>1, MatchFacts
<1>3. reserve'[r] = new /\ new \in ReserveRec
    BY <1>2 DEF PackReserve, TypeOK
<1>4. ASSUME NEW q \in live' PROVE Matched(reserve', obligation', flash', q)
    <2>1. Matched(reserve, obligation, flash, q) /\ q \in live
        BY <1>1
    <2>2. CASE q = r
        <3>1. PICK a \in Nat, b \in Nat, c \in Nat, d \in Nat, e \in Nat :
                 /\ a = new.borrowed_amount_wads /\ b = reserve[r].borrowed_amount_wads
                 /\ c = Lent(flash, r) /\ d = Lent(flash', r) /\ e = OwedBy(obligation, r)
            BY <1>1, <1>2, <1>3, MatchFacts, ReserveNat
        <3>2. new.cumulative_borrow_rate_wads = WAD => a + c = b + d /\ b = e + c
            BY <2>1, <2>2, <3>1 DEF Matched
        <3>3. new.cumulative_borrow_rate_wads = WAD => a = e + d
            BY <3>2
        <3> QED BY <1>3, <2>2, <3>1, <3>3 DEF Matched
    <2>3. CASE q # r
        <3>1. reserve'[q] = reserve[q]
            BY <1>2, <2>1, <2>3, OtherReserves
        <3> QED BY <2>1, <2>3, <3>1 DEF Matched
    <2> QED BY <2>2, <2>3
<1> QED BY <1>4, MatchedIs

\* So does a step on one obligation that moves its debts along with the reserves'.
LEMMA ObligationMatch ==
    ASSUME MatchInv, NEW o \in Obligations, NEW ob, PackObligation(o, ob),
           UNCHANGED <<live, flash>>,
           \A q \in live : reserve'[q].cumulative_borrow_rate_wads = WAD =>
              /\ reserve[q].cumulative_borrow_rate_wads = WAD
              /\ \E d \in Int : /\ Debt(ob, q) = Debt(obligation[o], q) + d
                                /\ reserve'[q].borrowed_amount_wads
                                      = reserve[q].borrowed_amount_wads + d
    PROVE  DebtsMatchReserve'
<1>1. RatesInv /\ \A q \in live : Matched(reserve, obligation, flash, q)
    BY MatchedIs DEF MatchInv
<1>2. /\ ob \in ObligationRec /\ obligation' = [obligation EXCEPT ![o] = ob]
      /\ obligation \in [Obligations -> ObligationRec] /\ live \subseteq Reserves
    BY <1>1, MatchFacts DEF PackObligation
<1>3. ASSUME NEW q \in live', reserve'[q].cumulative_borrow_rate_wads = WAD
      PROVE  reserve'[q].borrowed_amount_wads = OwedBy(obligation', q) + Lent(flash', q)
    <2>1. q \in live /\ q \in Reserves /\ reserve[q].cumulative_borrow_rate_wads = WAD
        BY <1>2, <1>3
    <2>2. PICK d \in Int : /\ Debt(ob, q) = Debt(obligation[o], q) + d
                           /\ reserve'[q].borrowed_amount_wads = reserve[q].borrowed_amount_wads + d
        BY <1>3, <2>1
    <2>3. OwedBy(obligation', q) = OwedBy(obligation, q) + d
        BY <1>2, <2>2, OwedByShift
    <2>4. reserve[q].borrowed_amount_wads = OwedBy(obligation, q) + Lent(flash, q)
        BY <1>1, <2>1 DEF Matched
    <2>5. PICK a \in Nat, c \in Nat : a = OwedBy(obligation, q) /\ c = Lent(flash, q)
        BY <1>1, MatchFacts
    <2>6. (a + c) + d = (a + d) + c
        OBVIOUS
    <2> QED BY <2>2, <2>3, <2>4, <2>5, <2>6
<1>4. \A q \in live' : Matched(reserve', obligation', flash', q)
    BY <1>3 DEF Matched
<1> QED BY <1>4, MatchedIs

\* The instructions on one reserve keep the match.
LEMMA ReserveStepMatch ==
    ASSUME MatchInv, NEW r \in Reserves, ReserveStep(r)
    PROVE  DebtsMatchReserve'
<1> USE DEF clockVars, configVars, reserveVars, obligationVars
<1>0. /\ RatesInv /\ TypeOK /\ CurvesInv /\ reserve[r] \in ReserveRec /\ live \subseteq Reserves
      /\ \A q \in live : Matched(reserve, obligation, flash, q)
    BY MatchFacts, MatchedIs DEF MatchInv
<1>1. /\ \A q : Lent(flash, q) \in Nat /\ OwedBy(obligation, q) \in Nat
      /\ reserve[r].borrowed_amount_wads \in Nat
    BY <1>0, MatchFacts
<1>2. ASSUME r \in live, NEW new, PackReserve(r, new), UNCHANGED <<obligation, live, flash>>,
             new.cumulative_borrow_rate_wads = WAD =>
                /\ reserve[r].cumulative_borrow_rate_wads = WAD
                /\ new.borrowed_amount_wads = reserve[r].borrowed_amount_wads
      PROVE  DebtsMatchReserve'
    <2>1. Lent(flash', r) = Lent(flash, r) /\ \A q : Lent(flash', q) \in Nat
        BY <1>1, <1>2
    <2>2. \A q \in live \ {r} : Lent(flash', q) = Lent(flash, q)
        BY <1>2
    <2> QED BY <1>2, <2>1, <2>2, ReserveMatch
<1>3. ASSUME r \in live, NEW res \in WithInterest(r), NEW new, PackReserve(r, new),
             UNCHANGED <<obligation, live, flash>>,
             new.cumulative_borrow_rate_wads = res.cumulative_borrow_rate_wads,
             new.borrowed_amount_wads = res.borrowed_amount_wads
      PROVE  DebtsMatchReserve'
    BY <1>0, <1>2, <1>3, InterestAtOne
<1>4. ASSUME NEW amount \in Nat, NEW cfg, NEW setup, NEW reading,
             InitReserve(r, amount, cfg, setup, reading)
      PROVE  DebtsMatchReserve'
    <2>1. PICK p, m, fresh :
             /\ fresh = [NoReserve EXCEPT !.cumulative_borrow_rate_wads = WAD,
                                          !.market_price = p, !.smoothed_market_price = m]
             /\ PackReserve(r, DepositLiquidity(fresh, amount))
        BY <1>4, Zenon DEF InitReserve
    <2>2. r \notin live /\ live' = live \cup {r} /\ UNCHANGED <<obligation, flash>>
        BY <1>4 DEF InitReserve
    <2>3. reserve'[r].borrowed_amount_wads = 0
        <3>1. reserve'[r] = DepositLiquidity(fresh, amount)
            BY <1>0, <2>1 DEF PackReserve, TypeOK
        <3>2. DepositLiquidity(fresh, amount).borrowed_amount_wads = fresh.borrowed_amount_wads
            BY <2>1 DEF DepositLiquidity, NoReserve
        <3> QED BY <2>1, <3>1, <3>2 DEF NoReserve
    <2>4. Lent(flash, r) = 0
        BY <1>0, <2>2, MatchFacts DEF IdleEmpty, Lent
    <2>5. OwedBy(obligation, r) = 0
        <3>1. ASSUME NEW o \in Obligations PROVE Debt(obligation[o], r) = 0
            <4>1. obligation[o] \in ObligationRec /\ BorrowReserves(obligation[o]) \subseteq live
                BY <1>0 DEF CurvesInv, PositionsInv, TypeOK
            <4>2. PICK s : s = obligation[o].borrows /\ s \in Seq(ObligationLiquidity)
                BY <4>1 DEF ObligationRec
            <4>3. ASSUME NEW i \in 1..Len(s) PROVE OwedIn(s, r)[i] = 0
                <5>1. i \in DOMAIN s
                    BY <4>2
                <5>2. s[i].borrow_reserve \in live
                    BY <4>1, <4>2, <5>1 DEF BorrowReserves
                <5> QED BY <2>2, <5>2 DEF OwedIn
            <4>4. OwedSum(s, r) = 0
                BY <4>2, <4>3, OwedParts, SumOfZeros DEF OwedSum
            <4> QED BY <4>1, <4>2, <4>4, DebtIsSum
        <3>2. PICK f : f = [o \in Obligations |-> Debt(obligation[o], r)]
            OBVIOUS
        <3>3. \A o \in Obligations : f[o] = 0
            BY <3>1, <3>2
        <3>4. SumFunctionOnSet(f, Obligations) = 0
            BY <3>3, SumOfZeros, MarketAssumption
        <3> QED BY <3>2, <3>4 DEF OwedBy
    <2>6. ASSUME NEW q \in live' PROVE Matched(reserve', obligation', flash', q)
        <3>1. CASE q = r
            BY <2>2, <2>3, <2>4, <2>5, <3>1 DEF Matched
        <3>2. CASE q # r
            <4>1. q \in live /\ reserve'[q] = reserve[q]
                BY <1>0, <2>1, <2>2, <3>2, OtherReserves
            <4> QED BY <1>0, <2>2, <4>1 DEF Matched
        <3> QED BY <3>1, <3>2
    <2> QED BY <2>6, MatchedIs
<1>5. ASSUME NEW reading, RefreshReserve(r, reading) PROVE DebtsMatchReserve'
    <2>1. PICK res, m, p :
             /\ res \in WithInterest(r)
             /\ PackReserve(r, [res EXCEPT !.market_price = m, !.smoothed_market_price = p])
        BY <1>5, Zenon DEF RefreshReserve
    <2>2. PICK new : new = [res EXCEPT !.market_price = m, !.smoothed_market_price = p]
        OBVIOUS
    <2>3. /\ new.cumulative_borrow_rate_wads = res.cumulative_borrow_rate_wads
          /\ new.borrowed_amount_wads = res.borrowed_amount_wads
        BY <1>0, <2>1, <2>2, InterestKeepsRate, InterestFields
    <2>4. r \in live /\ UNCHANGED <<obligation, live, flash>>
        BY <1>5, Zenon DEF RefreshReserve
    <2> QED BY <1>3, <2>1, <2>2, <2>3, <2>4
<1>6. ASSUME NEW amount, DepositReserveLiquidity(r, amount) PROVE DebtsMatchReserve'
    <2>1. PICK res \in WithInterest(r) : PackReserve(r, DepositLiquidity(res, amount))
        BY <1>6 DEF DepositReserveLiquidity
    <2>2. r \in live /\ UNCHANGED <<obligation, live, flash>>
        BY <1>6 DEF DepositReserveLiquidity
    <2> QED BY <1>0, <1>3, <2>1, <2>2, InterestKeepsRate, InterestFields
<1>7. ASSUME NEW amount, RedeemReserveCollateral(r, amount) PROVE DebtsMatchReserve'
    <2>1. /\ PackReserve(r, RedeemCollateral(reserve[r], amount))
          /\ r \in live /\ UNCHANGED <<obligation, live, flash>>
        BY <1>7 DEF RedeemReserveCollateral
    <2> QED BY <1>0, <1>2, <2>1, MovesKeepRate, MovesDebt
<1>8. ASSUME RedeemFees(r) PROVE DebtsMatchReserve'
    <2>1. PICK x : /\ PackReserve(r, LiquidityRedeemFees(reserve[r], x))
                   /\ r \in live /\ UNCHANGED <<obligation, live, flash>>
        BY <1>8 DEF RedeemFees
    <2> QED BY <1>0, <1>2, <2>1, MovesKeepRate, MovesDebt
<1>9. ASSUME NEW amount \in U64, FlashBorrowReserveLiquidity(r, amount) PROVE DebtsMatchReserve'
    <2>1. PICK res \in WithInterest(r) : PackReserve(r, LiquidityBorrow(res, FromU64(amount)))
        BY <1>9 DEF FlashBorrowReserveLiquidity
    <2>2. /\ r \in live /\ UNCHANGED <<obligation, live>> /\ flash = NoFlash
          /\ flash' = [reserve |-> r, amount |-> amount]
        BY <1>9 DEF FlashBorrowReserveLiquidity
    <2>3. PICK new : new = LiquidityBorrow(res, FromU64(amount))
        OBVIOUS
    <2>4. FromU64(amount) \in Nat
        BY ConversionsNat, WadAssumption DEF U64
    <2>5. /\ \A q : Lent(flash, q) = 0
          /\ \A q : Lent(flash', q) \in Nat /\ (q # r => Lent(flash', q) = 0)
        BY <2>2, <2>4 DEF Lent
    <2>6. flash' # NoFlash
        <3>1. flash' \in [reserve : Reserves, amount : U64]
            BY <1>9, <2>2
        <3> QED BY <3>1, MarketAssumption
    <2>7. Lent(flash', r) = FromU64(amount)
        BY <2>2, <2>6 DEF Lent
    <2>8. new.cumulative_borrow_rate_wads = WAD =>
             /\ reserve[r].cumulative_borrow_rate_wads = WAD
             /\ new.borrowed_amount_wads + Lent(flash, r)
                   = reserve[r].borrowed_amount_wads + Lent(flash', r)
        <3>1. /\ new.cumulative_borrow_rate_wads = res.cumulative_borrow_rate_wads
              /\ new.borrowed_amount_wads = res.borrowed_amount_wads + FromU64(amount)
            BY <1>0, <2>3, InterestKeepsRate, InterestFields
        <3>2. new.cumulative_borrow_rate_wads = WAD =>
                 /\ reserve[r].cumulative_borrow_rate_wads = WAD
                 /\ new.borrowed_amount_wads = reserve[r].borrowed_amount_wads + FromU64(amount)
            BY <1>0, <2>2, <3>1, InterestAtOne
        <3> QED BY <1>1, <2>4, <2>5, <2>7, <3>2
    <2> QED BY <2>1, <2>2, <2>3, <2>5, <2>8, ReserveMatch
<1>10. InitAmounts \subseteq Nat /\ FlashAmounts \subseteq U64
    BY MarketAssumption, WadAssumption DEF U64
<1> QED BY <1>4, <1>5, <1>6, <1>7, <1>8, <1>9, <1>10 DEF ReserveStep

\* Repaying a flash loan takes off what it lent: it is part of what is borrowed.
LEMMA FlashRepayMatch ==
    ASSUME MatchInv, FlashRepayReserveLiquidity
    PROVE  DebtsMatchReserve'
<1>0. RatesInv /\ TypeOK /\ IdleEmpty /\ \A q \in live : Matched(reserve, obligation, flash, q)
    BY MatchFacts, MatchedIs DEF MatchInv
<1>1. PICK r : /\ r = flash.reserve
               /\ PackReserve(r, LiquidityRepay(reserve[r], flash.amount, FromU64(flash.amount)))
    BY DEF FlashRepayReserveLiquidity
<1>2. flash # NoFlash /\ flash' = NoFlash /\ UNCHANGED <<obligation, live>>
    BY DEF FlashRepayReserveLiquidity, obligationVars, configVars
<1>3. r \in live /\ r \in Reserves /\ reserve[r] \in ReserveRec
    BY <1>0, <1>1, <1>2 DEF IdleEmpty, TypeOK
<1>4. PICK x \in Nat, b \in Nat, e \in Nat :
         x = Lent(flash, r) /\ b = reserve[r].borrowed_amount_wads /\ e = OwedBy(obligation, r)
    BY <1>0, <1>3, MatchFacts
<1>5. FromU64(flash.amount) = x
    BY <1>1, <1>2, <1>4 DEF Lent
<1>6. /\ \A q : Lent(flash', q) = 0
      /\ \A q \in live \ {r} : Lent(flash', q) = Lent(flash, q)
    BY <1>1, <1>2 DEF Lent
<1>7. PICK new : new = LiquidityRepay(reserve[r], flash.amount, x)
    OBVIOUS
<1>8. /\ new.cumulative_borrow_rate_wads = reserve[r].cumulative_borrow_rate_wads
      /\ new.borrowed_amount_wads = b - MinOf(x, b)
    BY <1>3, <1>4, <1>7, MovesKeepRate, MovesDebt
<1>9. new.cumulative_borrow_rate_wads = WAD => new.borrowed_amount_wads + x = b + 0
    <2>1. reserve[r].cumulative_borrow_rate_wads = WAD => b = e + x
        BY <1>0, <1>3, <1>4 DEF Matched
    <2>2. reserve[r].cumulative_borrow_rate_wads = WAD => MinOf(x, b) = x
        BY <2>1 DEF MinOf
    <2> QED BY <1>8, <2>2
<1> QED BY <1>1, <1>2, <1>3, <1>4, <1>5, <1>6, <1>7, <1>8, <1>9, ReserveMatch

\* Creating an obligation changes no debt, refreshing one only those with interest.
LEMMA RefreshMatch ==
    ASSUME MatchInv, NEW o \in Obligations, InitObligation(o) \/ RefreshObligation(o)
    PROVE  DebtsMatchReserve'
<1> USE DEF clockVars, configVars, reserveVars, obligationVars
<1>0. /\ RatesInv /\ TypeOK /\ ClosedEmpty /\ reserve \in [Reserves -> ReserveRec]
      /\ obligation \in [Obligations -> ObligationRec]
      /\ \A q \in live : q \in Reserves /\ Matched(reserve, obligation, flash, q)
    BY MatchFacts, MatchedIs DEF MatchInv
<1>1. UNCHANGED <<reserve, live, flash>>
    BY DEF InitObligation, RefreshObligation
<1>2. CASE InitObligation(o)
    <2>1. obligation' = obligation
        BY <1>0, <1>2 DEF InitObligation, ClosedEmpty, TypeOK
    <2> QED BY <1>0, <1>1, <2>1, MatchedIs
<1>3. CASE RefreshObligation(o)
    <2>1. PICK ob : ob = RefreshedObligation(obligation[o], reserve, config)
        OBVIOUS
    <2>2. PackObligation(o, ob)
        BY <1>3, <2>1 DEF RefreshObligation
    <2>3. ob \in ObligationRec /\ obligation[o] \in ObligationRec
        BY <1>0, <2>2 DEF PackObligation
    <2>4. ASSUME NEW q \in live, reserve[q].cumulative_borrow_rate_wads = WAD
          PROVE  Debt(ob, q) = Debt(obligation[o], q)
        <3>1. ASSUME NEW i \in 1..Len(obligation[o].borrows),
                     obligation[o].borrows[i].borrow_reserve = q
              PROVE  obligation[o].borrows[i].cumulative_borrow_rate_wads
                        = reserve[q].cumulative_borrow_rate_wads
            <4>1. PICK b : b = obligation[o].borrows[i] /\ b \in ObligationLiquidity
                BY <2>3 DEF ObligationRec
            <4>2. b.cumulative_borrow_rate_wads \in Nat /\ WAD \in Nat
                BY <4>1, WadAssumption DEF ObligationLiquidity, U128
            <4>3. WAD <= b.cumulative_borrow_rate_wads
                BY <1>0, <4>1 DEF RatesInv, Dates
            <4>4. b.cumulative_borrow_rate_wads <= WAD
                BY <1>0, <2>4, <3>1, <4>1 DEF RatesInv, DebtRateInv, Behind
            <4> QED BY <2>4, <4>1, <4>2, <4>3, <4>4
        <3>2. config \in [Reserves -> ReserveConfig]
            BY <1>0 DEF TypeOK
        <3> QED BY <2>1, <2>3, <3>1, <3>2, RefreshOwed
    <2>5. ASSUME NEW q \in live, reserve'[q].cumulative_borrow_rate_wads = WAD
          PROVE  /\ reserve[q].cumulative_borrow_rate_wads = WAD
                 /\ \E d \in Int : /\ Debt(ob, q) = Debt(obligation[o], q) + d
                                   /\ reserve'[q].borrowed_amount_wads
                                         = reserve[q].borrowed_amount_wads + d
        <3>1. reserve[q].cumulative_borrow_rate_wads = WAD
            BY <1>1, <2>5
        <3>2. Debt(ob, q) = Debt(obligation[o], q) /\ Debt(ob, q) \in Nat
            BY <2>3, <2>4, <3>1, DebtIsSum
        <3>3. reserve[q].borrowed_amount_wads \in Nat
            BY <1>0, MatchFacts
        <3>4. /\ Debt(ob, q) = Debt(obligation[o], q) + 0
              /\ reserve'[q].borrowed_amount_wads = reserve[q].borrowed_amount_wads + 0
            BY <1>1, <3>2, <3>3
        <3> QED BY <3>1, <3>4
    <2> QED BY <1>1, <2>2, <2>5, ObligationMatch
<1> QED BY <1>2, <1>3

(***************************************************************************)
(* A step on one obligation and one reserve: what the obligation comes to  *)
(* owe, the reserve books as borrowed, if it has not charged interest; the *)
(* debts to the other reserves and their books stay.                       *)
(***************************************************************************)
BooksDebt(o, ob, r) ==
    reserve'[r].cumulative_borrow_rate_wads = WAD =>
        /\ reserve[r].cumulative_borrow_rate_wads = WAD
        /\ \E d \in Int : /\ Debt(ob, r) = Debt(obligation[o], r) + d
                          /\ reserve'[r].borrowed_amount_wads = reserve[r].borrowed_amount_wads + d

\* A step that books a debt in the reserve and in the obligation alike.
LEMMA PositionMatch ==
    ASSUME MatchInv, NEW o \in Obligations, NEW ob, PackObligation(o, ob), NEW r \in Reserves,
           UNCHANGED <<live, flash>>, BooksDebt(o, ob, r),
           \A q \in Reserves \ {r} :
              /\ reserve'[q].cumulative_borrow_rate_wads = reserve[q].cumulative_borrow_rate_wads
              /\ reserve'[q].borrowed_amount_wads = reserve[q].borrowed_amount_wads
              /\ Debt(ob, q) = Debt(obligation[o], q)
    PROVE  DebtsMatchReserve'
<1>0. /\ RatesInv /\ live \subseteq Reserves /\ ob \in ObligationRec
      /\ obligation[o] \in ObligationRec
    BY MatchFacts DEF MatchInv, PackObligation
<1>1. ASSUME NEW q \in live PROVE BooksDebt(o, ob, q)
    <2>1. CASE q = r
        BY <2>1
    <2>2. CASE q # r
        <3>1. Debt(obligation[o], q) \in Nat /\ reserve[q].borrowed_amount_wads \in Nat
            BY <1>0, MatchFacts, DebtIsSum
        <3>2. /\ Debt(ob, q) = Debt(obligation[o], q) + 0
              /\ reserve'[q].borrowed_amount_wads = reserve[q].borrowed_amount_wads + 0
              /\ reserve'[q].cumulative_borrow_rate_wads = reserve[q].cumulative_borrow_rate_wads
            BY <1>0, <2>2, <3>1
        <3> QED BY <3>2 DEF BooksDebt
    <2> QED BY <2>1, <2>2
<1> QED BY <1>1, ObligationMatch DEF BooksDebt

\* The same for a step that leaves the obligation's borrows and packs one reserve.
LEMMA BorrowsKeptMatch ==
    ASSUME MatchInv, NEW o \in Obligations, NEW ob, PackObligation(o, ob), NEW r \in Reserves,
           UNCHANGED <<live, flash>>, ob.borrows = obligation[o].borrows,
           reserve'[r].cumulative_borrow_rate_wads = WAD =>
              /\ reserve[r].cumulative_borrow_rate_wads = WAD
              /\ reserve'[r].borrowed_amount_wads = reserve[r].borrowed_amount_wads,
           \A q \in Reserves \ {r} : reserve'[q] = reserve[q]
    PROVE  DebtsMatchReserve'
<1>0. RatesInv /\ ob \in ObligationRec /\ obligation[o] \in ObligationRec
    BY MatchFacts DEF MatchInv, PackObligation
<1>1. \A q \in Reserves : Debt(ob, q) = Debt(obligation[o], q) /\ Debt(ob, q) \in Nat
    BY <1>0, DebtIsSum
<1>2. BooksDebt(o, ob, r)
    <2>1. reserve[r].borrowed_amount_wads \in Nat
        BY <1>0, MatchFacts
    <2>2. /\ Debt(ob, r) = Debt(obligation[o], r) + 0
          /\ reserve[r].borrowed_amount_wads = reserve[r].borrowed_amount_wads + 0
        BY <1>1, <2>1
    <2> QED BY <2>2 DEF BooksDebt
<1> QED BY <1>1, <1>2, PositionMatch

\* A debt settled without interest is booked in full: no debt is more than what is borrowed.
LEMMA SettledInFull ==
    ASSUME MatchInv, NEW o \in Obligations, NEW r \in live, NEW x \in Nat,
           reserve[r].cumulative_borrow_rate_wads = WAD, x <= Debt(obligation[o], r)
    PROVE  MinOf(x, reserve[r].borrowed_amount_wads) = x
<1>1. RatesInv /\ Matched(reserve, obligation, flash, r)
    BY MatchedIs DEF MatchInv
<1>2. PICK a \in Nat, c \in Nat, b \in Nat : /\ a = OwedBy(obligation, r) /\ c = Lent(flash, r)
                                             /\ b = Debt(obligation[o], r) /\ b <= a
    <2>1. obligation[o] \in ObligationRec
        BY <1>1, MatchFacts
    <2> QED BY <1>1, <2>1, MatchFacts, OwedByNat, DebtIsSum
<1>3. reserve[r].borrowed_amount_wads = a + c
    BY <1>1, <1>2 DEF Matched
<1>4. x <= a + c
    BY <1>2
<1> QED BY <1>3, <1>4 DEF MinOf

\* A borrow adds the same debt to both.
LEMMA BorrowMatch ==
    ASSUME MatchInv, NEW o \in Obligations, NEW r \in Reserves, NEW amount \in Nat, NEW host,
           BorrowObligationLiquidity(o, r, amount, host)
    PROVE  DebtsMatchReserve'
<1>0. RatesInv /\ TypeOK /\ reserve[r] \in ReserveRec /\ obligation[o] \in ObligationRec
    BY MatchFacts DEF MatchInv
<1>1. PICK terms \in BorrowTerms(o, r, amount) :
         /\ PackReserve(r, LiquidityBorrow(reserve[r], terms.borrow_amount))
         /\ PackObligation(o, ObligationBorrow(obligation[o], r,
                                  reserve[r].cumulative_borrow_rate_wads, terms.borrow_amount))
    BY DEF BorrowObligationLiquidity
<1>2. PICK x \in Nat : x = terms.borrow_amount
    BY <1>0, <1>1, TermsOfBorrow
<1>3. PICK ob, new : /\ ob = ObligationBorrow(obligation[o], r,
                                 reserve[r].cumulative_borrow_rate_wads, x)
                     /\ new = LiquidityBorrow(reserve[r], x)
    OBVIOUS
<1>4. /\ PackReserve(r, new) /\ PackObligation(o, ob) /\ ob \in ObligationRec
      /\ UNCHANGED <<live, flash>>
    BY <1>1, <1>2, <1>3 DEF PackObligation, BorrowObligationLiquidity, clockVars, configVars
<1>5. \A q : Debt(ob, q) = Debt(obligation[o], q) + (IF q = r THEN x ELSE 0)
    BY <1>0, <1>3, <1>4, BorrowOwed
<1>6. /\ reserve'[r].borrowed_amount_wads = reserve[r].borrowed_amount_wads + x
      /\ reserve'[r].cumulative_borrow_rate_wads = reserve[r].cumulative_borrow_rate_wads
    <2>1. reserve'[r] = new
        BY <1>0, <1>4 DEF PackReserve, TypeOK
    <2> QED BY <1>0, <1>3, <2>1, MovesKeepRate, MovesDebt
<1>7. BooksDebt(o, ob, r)
    <2>1. x \in Int /\ Debt(ob, r) = Debt(obligation[o], r) + x
        BY <1>5
    <2> QED BY <1>6, <2>1 DEF BooksDebt
<1>8. ASSUME NEW q \in Reserves \ {r}
      PROVE  reserve'[q] = reserve[q] /\ Debt(ob, q) = Debt(obligation[o], q)
    <2>1. Debt(obligation[o], q) \in Nat
        BY <1>0, DebtIsSum
    <2> QED BY <1>0, <1>4, <1>5, <2>1, OtherReserves
<1> QED BY <1>4, <1>7, <1>8, PositionMatch

\* What a repayment settles, once the debt is accrued, is a number.
LEMMA RepaidNat ==
    ASSUME RatesInv, NEW r \in Reserves, NEW o \in Obligations, NEW amount \in Nat,
           NEW i, i = BorrowIndex(obligation[o], r), i # 0, NEW res \in WithInterest(r)
    PROVE  CalculateRepay(amount, AccrueBorrow(obligation[o].borrows[i],
                                               res.cumulative_borrow_rate_wads)
                                      .borrowed_amount_wads).settle_amount \in Nat
<1>0. /\ TypeOK /\ CurvesInv /\ reserve[r] \in ReserveRec /\ obligation[o] \in ObligationRec
    BY MatchFacts
<1>1. PICK b, d : /\ b = obligation[o].borrows[i]
                  /\ d = AccrueBorrow(b, res.cumulative_borrow_rate_wads)
    OBVIOUS
<1>2. b \in ObligationLiquidity /\ i \in 1..Len(obligation[o].borrows)
    BY <1>0, <1>1, BorrowIndexIn
<1>3. /\ WAD \in Nat /\ b.borrowed_amount_wads \in Nat /\ b.cumulative_borrow_rate_wads \in Nat
      /\ WAD <= b.cumulative_borrow_rate_wads
    <2>1. b.borrowed_amount_wads \in Nat /\ b.cumulative_borrow_rate_wads \in Nat /\ WAD \in Nat
        BY <1>2, WadAssumption DEF ObligationLiquidity, U128
    <2> QED BY <1>0, <1>1, <1>2, <2>1 DEF RatesInv, Dates
<1>4. res.cumulative_borrow_rate_wads \in Nat
    BY <1>0, InterestKeepsRate
<1>5. d.borrowed_amount_wads \in Nat
    <2>1. CASE res.cumulative_borrow_rate_wads = b.cumulative_borrow_rate_wads
        BY <1>1, <1>3, <2>1 DEF AccrueBorrow
    <2>2. CASE res.cumulative_borrow_rate_wads # b.cumulative_borrow_rate_wads
        <3>1. PICK f : f = DecDiv(res.cumulative_borrow_rate_wads, b.cumulative_borrow_rate_wads)
            OBVIOUS
        <3>2. f \in Nat
            <4>1. b.cumulative_borrow_rate_wads # 0
                BY <1>3, WadAssumption
            <4> QED BY <1>3, <1>4, <3>1, <4>1, DecDivNat
        <3>3. d.borrowed_amount_wads = DecMul(b.borrowed_amount_wads, f)
            BY <1>1, <1>2, <2>2, <3>1 DEF AccrueBorrow, ObligationLiquidity
        <3> QED BY <1>3, <3>2, <3>3, DecMulNat
    <2> QED BY <2>1, <2>2
<1>6. FromU64(amount) \in Nat
    BY ConversionsNat
<1>7. CalculateRepay(amount, d.borrowed_amount_wads).settle_amount \in Nat
    BY <1>5, <1>6 DEF CalculateRepay, MinOf
<1> QED BY <1>1, <1>7

\* A repayment takes the same debt off both, once interest is accrued.
LEMMA RepayMatch ==
    ASSUME MatchInv, NEW o \in Obligations, NEW r \in Reserves, NEW amount \in Nat,
           RepayObligationLiquidity(o, r, amount)
    PROVE  DebtsMatchReserve'
<1>0. /\ RatesInv /\ TypeOK /\ CurvesInv /\ reserve[r] \in ReserveRec
      /\ obligation[o] \in ObligationRec
    BY MatchFacts DEF MatchInv
<1>1. PICK i, b : i = BorrowIndex(obligation[o], r) /\ b = obligation[o].borrows[i]
    OBVIOUS
<1>2. PICK res, d, x, y :
         /\ res \in WithInterest(r)
         /\ d = AccrueBorrow(b, res.cumulative_borrow_rate_wads)
         /\ x = CalculateRepay(amount, d.borrowed_amount_wads).settle_amount
         /\ PackReserve(r, LiquidityRepay(res, y, x))
         /\ PackObligation(o, ObligationRepay([obligation[o] EXCEPT !.borrows[i] = d], i, x))
         /\ i # 0 /\ r \in live /\ UNCHANGED <<live, flash>>
    BY <1>1 DEF RepayObligationLiquidity, clockVars, configVars
<1>3. i \in 1..Len(obligation[o].borrows) /\ b \in ObligationLiquidity /\ b.borrow_reserve = r
    BY <1>0, <1>1, <1>2, BorrowIndexIn
<1>4. PICK ob : ob = ObligationRepay([obligation[o] EXCEPT !.borrows[i] = d], i, x)
    OBVIOUS
<1>5. ob \in ObligationRec /\ PackObligation(o, ob)
    BY <1>2, <1>4 DEF PackObligation
<1>6. /\ d.borrow_reserve = r /\ "borrow_reserve" \in DOMAIN d
      /\ "borrowed_amount_wads" \in DOMAIN d
    BY <1>2, <1>3 DEF AccrueBorrow, ObligationLiquidity
<1>7. /\ WAD \in Nat /\ b.borrowed_amount_wads \in Nat /\ b.cumulative_borrow_rate_wads \in Nat
      /\ WAD <= b.cumulative_borrow_rate_wads
      /\ b.cumulative_borrow_rate_wads <= reserve[r].cumulative_borrow_rate_wads
    <2>1. b.borrowed_amount_wads \in Nat /\ b.cumulative_borrow_rate_wads \in Nat /\ WAD \in Nat
        BY <1>3, WadAssumption DEF ObligationLiquidity, U128
    <2> QED BY <1>0, <1>1, <1>3, <2>1 DEF RatesInv, Dates, DebtRateInv, Behind
<1>8. res.cumulative_borrow_rate_wads \in Nat
    BY <1>0, <1>2, InterestKeepsRate
<1>10. x \in Nat
    BY <1>0, <1>1, <1>2, RepaidNat
<1>11. PICK new : new = LiquidityRepay(res, y, x)
    OBVIOUS
<1>12. /\ reserve'[r] = new /\ new.cumulative_borrow_rate_wads = res.cumulative_borrow_rate_wads
       /\ new.borrowed_amount_wads = res.borrowed_amount_wads - MinOf(x, res.borrowed_amount_wads)
    <2>1. reserve'[r] = new
        BY <1>0, <1>2, <1>11 DEF PackReserve, TypeOK
    <2> QED BY <1>0, <1>2, <1>11, <2>1, InterestKeepsRate, InterestFields
<1>16. Repays(obligation[o], i, d, x, r, ob)
    BY <1>0, <1>1, <1>3, <1>4, <1>5, <1>6, <1>10 DEF Repays
<1>13. ASSUME NEW q \in Reserves \ {r}
       PROVE  reserve'[q] = reserve[q] /\ Debt(ob, q) = Debt(obligation[o], q)
    <2>1. reserve'[q] = reserve[q]
        BY <1>0, <1>2, OtherReserves
    <2>2. Debt(ob, q) = Debt(obligation[o], q)
        BY <1>16, RepayOwed
    <2> QED BY <2>1, <2>2
<1>14. ASSUME new.cumulative_borrow_rate_wads = WAD
       PROVE  /\ reserve[r].cumulative_borrow_rate_wads = WAD
              /\ \E e \in Int : /\ Debt(ob, r) = Debt(obligation[o], r) + e
                                /\ new.borrowed_amount_wads = reserve[r].borrowed_amount_wads + e
    <2>1. /\ reserve[r].cumulative_borrow_rate_wads = WAD
          /\ res.borrowed_amount_wads = reserve[r].borrowed_amount_wads
        BY <1>0, <1>2, <1>12, <1>14, InterestAtOne
    <2>2. b.cumulative_borrow_rate_wads = WAD
        BY <1>7, <2>1
    <2>3. d = b
        BY <1>2, <1>12, <1>14, <2>2 DEF AccrueBorrow
    <2>4. x <= Debt(obligation[o], r) /\ Debt(ob, r) = Debt(obligation[o], r) - x
        BY <1>1, <1>16, <2>3, RepayOwed
    <2>5. MinOf(x, reserve[r].borrowed_amount_wads) = x
        BY <1>2, <1>10, <2>1, <2>4, SettledInFull
    <2>6. Debt(obligation[o], r) \in Nat /\ reserve[r].borrowed_amount_wads \in Nat
        BY <1>0, DebtIsSum, MatchFacts
    <2>7. /\ -x \in Int /\ Debt(ob, r) = Debt(obligation[o], r) + (-x)
          /\ new.borrowed_amount_wads = reserve[r].borrowed_amount_wads + (-x)
        BY <1>10, <1>12, <2>1, <2>4, <2>5, <2>6
    <2> QED BY <2>1, <2>7
<1>15. BooksDebt(o, ob, r)
    BY <1>12, <1>14 DEF BooksDebt
<1> QED BY <1>2, <1>5, <1>13, <1>15, PositionMatch

\* a step on the obligation o that settles x of its entry i, owed to r, without interest, and
\* that books the same in the reserve
Settles(o, i, x, r, ab, ob) ==
    /\ Repays(obligation[o], i, obligation[o].borrows[i], x, r, ab)
    /\ PackObligation(o, ob) /\ ob.borrows = ab.borrows
    /\ UNCHANGED <<live, flash>>
    /\ \A q \in Reserves :
          reserve'[q].cumulative_borrow_rate_wads = reserve[q].cumulative_borrow_rate_wads
    /\ \A q \in Reserves \ {r} :
          reserve'[q].borrowed_amount_wads = reserve[q].borrowed_amount_wads
    /\ reserve'[r].borrowed_amount_wads
          = reserve[r].borrowed_amount_wads - MinOf(x, reserve[r].borrowed_amount_wads)

\* So does what is settled of a debt.
LEMMA SettledMatch ==
    ASSUME MatchInv, NEW o \in Obligations, NEW r \in live, NEW i, NEW x, NEW ab, NEW ob,
           Settles(o, i, x, r, ab, ob)
    PROVE  DebtsMatchReserve'
<1>0. /\ RatesInv /\ r \in Reserves /\ obligation[o] \in ObligationRec /\ x \in Nat
      /\ ab \in ObligationRec /\ ob \in ObligationRec
    BY MatchFacts DEF MatchInv, Settles, Repays, PackObligation
<1>1. PICK d : d = obligation[o].borrows[i] /\ Repays(obligation[o], i, d, x, r, ab)
    BY DEF Settles
<1>2. \A q : Debt(ob, q) = Debt(ab, q)
    BY <1>0, DebtIsSum DEF Settles
<1>3. \A q \in Reserves \ {r} : Debt(ob, q) = Debt(obligation[o], q)
    BY <1>1, <1>2, RepayOwed
<1>4. x <= Debt(obligation[o], r) /\ Debt(ob, r) = Debt(obligation[o], r) - x
    BY <1>1, <1>2, RepayOwed
<1>5. ASSUME reserve'[r].cumulative_borrow_rate_wads = WAD
      PROVE  /\ reserve[r].cumulative_borrow_rate_wads = WAD
             /\ \E e \in Int : /\ Debt(ob, r) = Debt(obligation[o], r) + e
                               /\ reserve'[r].borrowed_amount_wads
                                     = reserve[r].borrowed_amount_wads + e
    <2>1. reserve[r].cumulative_borrow_rate_wads = WAD
        BY <1>0, <1>5 DEF Settles
    <2>2. MinOf(x, reserve[r].borrowed_amount_wads) = x
        BY <1>0, <1>4, <2>1, SettledInFull
    <2>3. reserve'[r].borrowed_amount_wads = reserve[r].borrowed_amount_wads - x
        BY <2>2 DEF Settles
    <2>4. Debt(obligation[o], r) \in Nat /\ reserve[r].borrowed_amount_wads \in Nat
        BY <1>0, DebtIsSum, MatchFacts
    <2>5. /\ -x \in Int /\ Debt(ob, r) = Debt(obligation[o], r) + (-x)
          /\ reserve'[r].borrowed_amount_wads = reserve[r].borrowed_amount_wads + (-x)
        BY <1>0, <1>4, <2>3, <2>4
    <2> QED BY <2>1, <2>5
<1>6. BooksDebt(o, ob, r)
    BY <1>5 DEF BooksDebt
<1>7. ASSUME NEW q \in Reserves \ {r}
      PROVE  /\ reserve'[q].cumulative_borrow_rate_wads = reserve[q].cumulative_borrow_rate_wads
             /\ reserve'[q].borrowed_amount_wads = reserve[q].borrowed_amount_wads
             /\ Debt(ob, q) = Debt(obligation[o], q)
    BY <1>3 DEF Settles
<1>8. PackObligation(o, ob) /\ UNCHANGED <<live, flash>>
    BY DEF Settles
<1> QED BY <1>0, <1>6, <1>7, <1>8, PositionMatch

\* Written back as it is, an entry changes nothing.
LEMMA EntryKept ==
    ASSUME NEW ob \in ObligationRec, NEW i \in 1..Len(ob.borrows)
    PROVE  [ob EXCEPT !.borrows[i] = ob.borrows[i]] = ob
<1>1. PICK s : s = ob.borrows /\ s \in Seq(ObligationLiquidity) /\ i \in 1..Len(s)
    BY DEF ObligationRec
<1>2. [s EXCEPT ![i] = s[i]] = s
    BY <1>1
<1>3. [ob EXCEPT !.borrows = s] = ob
    BY <1>1 DEF ObligationRec
<1> QED BY <1>1, <1>2, <1>3 DEF ObligationRec

\* A debt forgiven is taken off both.
LEMMA ForgiveMatch ==
    ASSUME MatchInv, NEW o \in Obligations, NEW r \in Reserves, NEW amount \in Nat,
           ForgiveDebt(o, r, amount)
    PROVE  DebtsMatchReserve'
<1>0. RatesInv /\ TypeOK /\ reserve[r] \in ReserveRec /\ obligation[o] \in ObligationRec
    BY MatchFacts DEF MatchInv
<1>1. PICK i, m, x :
         /\ i = BorrowIndex(obligation[o], r) /\ i # 0
         /\ m = TotalSupply(reserve[r])
                    - DecMul(FromU64(reserve[r].mint_total_supply), FromPercent(1))
         /\ x = MinOf(FromU64(amount), MinOf(obligation[o].borrows[i].borrowed_amount_wads, m))
         /\ m >= 0 /\ TotalSupply(reserve[r]) >= 0 /\ x <= reserve[r].borrowed_amount_wads
         /\ PackReserve(r, LiquidityForgiveDebt(reserve[r], x))
         /\ PackObligation(o, ObligationRepay(obligation[o], i, x))
         /\ r \in live /\ UNCHANGED <<live, flash>>
    BY DEF ForgiveDebt, clockVars, configVars
<1>2. PICK s, b : s = obligation[o] /\ b = s.borrows[i]
    OBVIOUS
<1>3. /\ i \in 1..Len(s.borrows) /\ b \in ObligationLiquidity /\ b.borrow_reserve = r
      /\ s \in ObligationRec
    BY <1>0, <1>1, <1>2, BorrowIndexIn
<1>4. b.borrowed_amount_wads \in Nat /\ FromU64(amount) \in Nat
    BY <1>3, ConversionsNat, WadAssumption DEF ObligationLiquidity, U128
<1>5. m \in Nat
    <2>1. TotalSupply(reserve[r]) \in Int
        BY <1>0, ReserveNat, ConversionsNat DEF TotalSupply
    <2>2. DecMul(FromU64(reserve[r].mint_total_supply), FromPercent(1)) \in Nat
        BY <1>0, ReserveNat, ConversionsNat, DecMulNat
    <2> QED BY <1>1, <2>1, <2>2
<1>6. x \in Nat
    BY <1>1, <1>2, <1>4, <1>5 DEF MinOf
<1>7. PICK ob, new : ob = ObligationRepay(s, i, x) /\ new = LiquidityForgiveDebt(reserve[r], x)
    OBVIOUS
<1>8. PackObligation(o, ob) /\ PackReserve(r, new) /\ ob \in ObligationRec
    BY <1>1, <1>2, <1>7 DEF PackObligation
<1>9. Repays(s, i, b, x, r, ob)
    <2>1. [s EXCEPT !.borrows[i] = b] = s
        BY <1>2, <1>3, EntryKept
    <2>2. "borrow_reserve" \in DOMAIN b /\ "borrowed_amount_wads" \in DOMAIN b
        BY <1>3 DEF ObligationLiquidity
    <2> QED BY <1>2, <1>3, <1>6, <1>7, <1>8, <2>1, <2>2 DEF Repays
<1>10. /\ reserve'[r].cumulative_borrow_rate_wads = reserve[r].cumulative_borrow_rate_wads
       /\ reserve'[r].borrowed_amount_wads = reserve[r].borrowed_amount_wads - x
    <2>1. reserve'[r] = new
        BY <1>0, <1>8 DEF PackReserve, TypeOK
    <2> QED BY <1>0, <1>7, <2>1, MovesKeepRate, MovesDebt
<1>11. \A q \in Reserves \ {r} : reserve'[q] = reserve[q]
    BY <1>0, <1>8, OtherReserves
<1>12. MinOf(x, reserve[r].borrowed_amount_wads) = x
    BY <1>1 DEF MinOf
<1>13. Settles(o, i, x, r, ob, ob)
    BY <1>1, <1>2, <1>8, <1>9, <1>10, <1>11, <1>12 DEF Settles
<1> QED BY <1>1, <1>13, SettledMatch

\* So is a debt that a liquidator repays.
LEMMA LiquidateMatch ==
    ASSUME MatchInv, NEW o \in Obligations, NEW p \in Reserves, NEW w \in Reserves,
           NEW amount \in Nat, NEW liquidator, LiquidateObligation(o, p, w, amount, liquidator)
    PROVE  DebtsMatchReserve'
<1>0. /\ RatesInv /\ TypeOK /\ reserve \in [Reserves -> ReserveRec]
      /\ obligation[o] \in ObligationRec
    BY MatchFacts DEF MatchInv
<1>1. /\ CanLiquidate(o, p, w, liquidator) /\ p \in live /\ BorrowIndex(obligation[o], p) = 1
      /\ UNCHANGED <<live, flash>>
    BY DEF LiquidateObligation, CanLiquidate, clockVars, configVars
<1>2. PICK terms : terms = LiquidationTerms(o, w, amount)
    OBVIOUS
<1>3. PICK x, y, z : /\ x = terms.settle_amount /\ y = terms.repay_amount
                     /\ z = terms.withdraw_amount /\ x \in Nat
    BY <1>0, <1>1, <1>2, TermsOfLiquidation
<1>4. PICK s, b : s = obligation[o] /\ b = s.borrows[1]
    OBVIOUS
<1>5. /\ 1 \in 1..Len(s.borrows) /\ b \in ObligationLiquidity /\ b.borrow_reserve = p
      /\ s \in ObligationRec
    <2>1. BorrowIndex(s, p) # 0 /\ BorrowIndex(s, p) = 1
        BY <1>1, <1>4
    <2> QED BY <1>0, <1>4, <2>1, BorrowIndexIn
<1>6. PICK ab, ob : /\ ab = ObligationRepay(s, 1, x)
                    /\ ob = ObligationWithdraw(ab, DepositIndex(ab, w), z)
    OBVIOUS
<1>7. PackObligation(o, ob) /\ ob \in ObligationRec
    BY <1>2, <1>3, <1>4, <1>6 DEF LiquidateObligation, PackObligation
<1>8. ab \in ObligationRec /\ ob.borrows = ab.borrows
    <2>1. PICK B : ab = [s EXCEPT !.borrows = B]
        BY <1>5, <1>6 DEF ObligationRepay, ObligationRec
    <2>2. PICK D : ob = [ab EXCEPT !.deposits = D]
        BY <1>5, <1>6, <2>1 DEF ObligationWithdraw, ObligationRec
    <2>3. B \in Seq(ObligationLiquidity)
        BY <1>5, <1>7, <2>1, <2>2 DEF ObligationRec
    <2> QED BY <1>5, <2>1, <2>2, <2>3 DEF ObligationRec
<1>9. Repays(s, 1, b, x, p, ab)
    <2>1. [s EXCEPT !.borrows[1] = b] = s
        BY <1>4, <1>5, EntryKept
    <2>2. "borrow_reserve" \in DOMAIN b /\ "borrowed_amount_wads" \in DOMAIN b
        BY <1>5 DEF ObligationLiquidity
    <2> QED BY <1>3, <1>4, <1>5, <1>6, <1>8, <2>1, <2>2 DEF Repays
<1>10. PICK rep : rep = [reserve EXCEPT ![p] = LiquidityRepay(@, y, x)]
    OBVIOUS
<1>11. reserve' = rep \/ \E c : reserve' = [rep EXCEPT ![w] = RedeemCollateral(@, c)]
    BY <1>2, <1>3, <1>10 DEF LiquidateObligation
<1>12. ASSUME NEW q \in Reserves
       PROVE  /\ reserve'[q].cumulative_borrow_rate_wads = rep[q].cumulative_borrow_rate_wads
              /\ reserve'[q].borrowed_amount_wads = rep[q].borrowed_amount_wads
    <2>1. DOMAIN rep = Reserves /\ (rep[q] = reserve[q] \/ rep[q] = LiquidityRepay(reserve[q], y, x))
        BY <1>0, <1>10
    <2>2. reserve[q] \in ReserveRec
        BY <1>0
    <2>3. \A c : /\ RedeemCollateral(rep[q], c).cumulative_borrow_rate_wads
                       = rep[q].cumulative_borrow_rate_wads
                 /\ RedeemCollateral(rep[q], c).borrowed_amount_wads = rep[q].borrowed_amount_wads
        BY <2>1, <2>2 DEF RedeemCollateral, LiquidityRepay, ReserveRec
    <2>4. reserve'[q] = rep[q] \/ \E c : reserve'[q] = RedeemCollateral(rep[q], c)
        BY <1>11, <2>1
    <2> QED BY <2>3, <2>4
<1>13. /\ \A q \in Reserves \ {p} : rep[q] = reserve[q]
       /\ rep[p] = LiquidityRepay(reserve[p], y, x) /\ reserve[p] \in ReserveRec
    BY <1>0, <1>10
<1>14. /\ rep[p].cumulative_borrow_rate_wads = reserve[p].cumulative_borrow_rate_wads
       /\ rep[p].borrowed_amount_wads
             = reserve[p].borrowed_amount_wads - MinOf(x, reserve[p].borrowed_amount_wads)
    BY <1>13, MovesKeepRate, MovesDebt
<1>15. Settles(o, 1, x, p, ab, ob)
    BY <1>1, <1>4, <1>7, <1>8, <1>9, <1>12, <1>13, <1>14 DEF Settles
<1> QED BY <1>1, <1>15, SettledMatch

\* Each instruction on a position keeps debts and reserves matched.
LEMMA PositionStepMatch ==
    ASSUME MatchInv, NEW o \in Obligations, NEW r \in Reserves, PositionStep(o, r)
    PROVE  DebtsMatchReserve'
<1> USE DEF clockVars, configVars, reserveVars, obligationVars
<1>0. /\ RatesInv /\ TypeOK /\ CurvesInv /\ reserve[r] \in ReserveRec
      /\ obligation[o] \in ObligationRec
    BY MatchFacts DEF MatchInv
<1>1. ASSUME r \in live, NEW res \in WithInterest(r), NEW new, PackReserve(r, new),
             new.cumulative_borrow_rate_wads = res.cumulative_borrow_rate_wads,
             new.borrowed_amount_wads = res.borrowed_amount_wads,
             NEW ob, PackObligation(o, ob), ob.borrows = obligation[o].borrows,
             UNCHANGED <<live, flash>>
      PROVE  DebtsMatchReserve'
    <2>1. reserve'[r] = new
        BY <1>0, <1>1 DEF PackReserve, TypeOK
    <2>2. \A q \in Reserves \ {r} : reserve'[q] = reserve[q]
        BY <1>0, <1>1, OtherReserves
    <2>3. reserve'[r].cumulative_borrow_rate_wads = WAD =>
             /\ reserve[r].cumulative_borrow_rate_wads = WAD
             /\ reserve'[r].borrowed_amount_wads = reserve[r].borrowed_amount_wads
        BY <1>0, <1>1, <2>1, InterestAtOne
    <2> QED BY <1>1, <2>2, <2>3, BorrowsKeptMatch
<1>2. /\ \A x : ObligationDeposit(obligation[o], r, x).borrows = obligation[o].borrows
      /\ \A x : Withdrawn(o, r, x).borrows = obligation[o].borrows
    BY <1>0 DEF ObligationDeposit, Withdrawn, ObligationWithdraw, ObligationRec
<1>3. ASSUME NEW amount, DepositObligationCollateral(o, r, amount) PROVE DebtsMatchReserve'
    <2>1. PICK res \in WithInterest(r) : PackReserve(r, res)
        BY <1>3 DEF DepositObligationCollateral
    <2>2. /\ PackObligation(o, ObligationDeposit(obligation[o], r, amount))
          /\ r \in live /\ UNCHANGED <<live, flash>>
        BY <1>3 DEF DepositObligationCollateral
    <2> QED BY <1>1, <1>2, <2>1, <2>2
<1>4. ASSUME NEW amount, DepositReserveLiquidityAndObligationCollateral(o, r, amount)
      PROVE  DebtsMatchReserve'
    <2>1. PICK res \in WithInterest(r) :
             /\ PackReserve(r, DepositLiquidity(res, amount))
             /\ PackObligation(o, ObligationDeposit(obligation[o], r, CollateralFor(res, amount)))
        BY <1>4 DEF DepositReserveLiquidityAndObligationCollateral
    <2>2. r \in live /\ UNCHANGED <<live, flash>>
        BY <1>4 DEF DepositReserveLiquidityAndObligationCollateral
    <2>3. PICK new, ob : /\ new = DepositLiquidity(res, amount)
                         /\ ob = ObligationDeposit(obligation[o], r, CollateralFor(res, amount))
        OBVIOUS
    <2>4. /\ new.cumulative_borrow_rate_wads = res.cumulative_borrow_rate_wads
          /\ new.borrowed_amount_wads = res.borrowed_amount_wads
          /\ ob.borrows = obligation[o].borrows
        BY <1>0, <1>2, <2>3, InterestKeepsRate, InterestFields
    <2> QED BY <1>1, <2>1, <2>2, <2>3, <2>4
<1>5. ASSUME NEW amount, WithdrawObligationCollateral(o, r, amount) PROVE DebtsMatchReserve'
    <2>1. PICK x : PackObligation(o, Withdrawn(o, r, x)) /\ UNCHANGED <<reserve, live, flash>>
        BY <1>5 DEF WithdrawObligationCollateral
    <2> QED BY <1>2, <2>1, BorrowsKeptMatch
<1>6. ASSUME NEW amount, WithdrawObligationCollateralAndRedeem(o, r, amount)
      PROVE  DebtsMatchReserve'
    <2>1. PICK x : /\ PackObligation(o, Withdrawn(o, r, x))
                   /\ PackReserve(r, RedeemCollateral(reserve[r], x))
                   /\ UNCHANGED <<live, flash>>
        BY <1>6 DEF WithdrawObligationCollateralAndRedeem
    <2>2. /\ reserve'[r] = RedeemCollateral(reserve[r], x)
          /\ \A q \in Reserves \ {r} : reserve'[q] = reserve[q]
        BY <1>0, <2>1, OtherReserves DEF PackReserve, TypeOK
    <2>3. /\ reserve'[r].cumulative_borrow_rate_wads = reserve[r].cumulative_borrow_rate_wads
          /\ reserve'[r].borrowed_amount_wads = reserve[r].borrowed_amount_wads
        BY <1>0, <2>2, MovesKeepRate, MovesDebt
    <2> QED BY <1>2, <2>1, <2>2, <2>3, BorrowsKeptMatch
<1>7. /\ BorrowAmounts \subseteq Nat /\ RepayAmounts \subseteq Nat
      /\ LiquidateAmounts \subseteq Nat /\ ForgiveAmounts \subseteq Nat
    BY MarketAssumption, WadAssumption DEF U64
<1> QED BY <1>3, <1>4, <1>5, <1>6, <1>7, BorrowMatch, RepayMatch, LiquidateMatch, ForgiveMatch
        DEF PositionStep

\* A position is only ever changed together with a reserve in use.
LEMMA PositionStepLive ==
    ASSUME NEW o, NEW r, PositionStep(o, r)
    PROVE  r \in live
<1>1. ASSUME NEW amount
      PROVE  /\ DepositObligationCollateral(o, r, amount) => r \in live
             /\ DepositReserveLiquidityAndObligationCollateral(o, r, amount) => r \in live
             /\ WithdrawObligationCollateral(o, r, amount) => r \in live
             /\ WithdrawObligationCollateralAndRedeem(o, r, amount) => r \in live
             /\ RepayObligationLiquidity(o, r, amount) => r \in live
             /\ ForgiveDebt(o, r, amount) => r \in live
    BY DEF DepositObligationCollateral, DepositReserveLiquidityAndObligationCollateral,
           WithdrawObligationCollateral, WithdrawObligationCollateralAndRedeem, CanWithdraw,
           RepayObligationLiquidity, ForgiveDebt
<1>2. ASSUME NEW amount, NEW host PROVE BorrowObligationLiquidity(o, r, amount, host) => r \in live
    BY DEF BorrowObligationLiquidity, CanBorrow
<1>3. ASSUME NEW w, NEW amount, NEW liquidator
      PROVE  LiquidateObligation(o, r, w, amount, liquidator) => r \in live
    BY DEF LiquidateObligation, CanLiquidate
<1> QED BY <1>1, <1>2, <1>3 DEF PositionStep

\* A reserve comes into use by InitReserve alone.
LEMMA NewlyLive ==
    ASSUME Next, NEW q, q \in live', q \notin live
    PROVE  \E amount, cfg, setup, reading : InitReserve(q, amount, cfg, setup, reading)
<1> USE DEF clockVars, configVars, reserveVars, obligationVars
<1>1. ~(live' = live)
    OBVIOUS
<1>2. Tick \/ FlashRepayReserveLiquidity => live' = live
    BY DEF Tick, FlashRepayReserveLiquidity
<1>3. ASSUME NEW r, ReserveStep(r)
      PROVE  \E amount, cfg, setup, reading : InitReserve(q, amount, cfg, setup, reading)
    <2>1. ASSUME NEW amount, NEW cfg, NEW setup, NEW reading,
                 InitReserve(r, amount, cfg, setup, reading)
          PROVE  r = q
        BY <2>1 DEF InitReserve
    <2>2. ASSUME NEW reading PROVE RefreshReserve(r, reading) \/ RedeemFees(r) => live' = live
        BY Zenon DEF RefreshReserve, RedeemFees
    <2>3. ASSUME NEW amount
          PROVE  DepositReserveLiquidity(r, amount) \/ RedeemReserveCollateral(r, amount)
                    \/ FlashBorrowReserveLiquidity(r, amount) => live' = live
        BY DEF DepositReserveLiquidity, RedeemReserveCollateral, FlashBorrowReserveLiquidity
    <2>4. \E amount, cfg, setup, reading : InitReserve(r, amount, cfg, setup, reading)
        BY <1>1, <1>3, <2>2, <2>3 DEF ReserveStep
    <2> QED BY <2>1, <2>4
<1>4. ASSUME NEW r, NEW signer PROVE ConfigStep(r, signer) => live' = live
    BY DEF ConfigStep, UpdateReserveConfigByOwner, UpdateReserveConfigByRiskAuthority,
           UpdateReserveConfigBySolend
<1>5. ASSUME NEW owner, NEW limiter, NEW liquidator, NEW risk
      PROVE  SetLendingMarketOwnerAndConfig(owner, limiter, liquidator, risk) => live' = live
    BY DEF SetLendingMarketOwnerAndConfig
<1>6. ASSUME NEW o PROVE InitObligation(o) \/ RefreshObligation(o) => live' = live
    BY DEF InitObligation, RefreshObligation
<1>7. ASSUME NEW o, NEW r, PositionStep(o, r) PROVE live' = live
    BY <1>7, PositionStepWrites DEF WritesPosition
<1> QED BY <1>1, <1>2, <1>3, <1>4, <1>5, <1>6, <1>7 DEF Next

\* The rate of a reserve in use is at least one, and a debt is dated with a rate it had.
LEMMA NextRatesInv == RatesInv /\ [Next]_vars => RatesInv'
<1> SUFFICES ASSUME RatesInv, [Next]_vars PROVE RatesInv'
    OBVIOUS
<1>1. BooksInv' /\ DebtRateInv'
    BY NextBooksInv, NextDebtRateInv DEF RatesInv
<1>2. CurvesInv /\ CurvesInv' /\ TypeOK /\ TypeOK' /\ live \subseteq Reserves /\ WAD \in Nat
    BY <1>1, MatchFacts, WadAssumption DEF DebtRateInv, CurvesInv, PositionsInv
<1>3. CASE UNCHANGED vars
    BY <1>1, <1>3 DEF vars, RatesInv, Dates
<1>4. CASE Next
    <2>1. \A q \in Reserves : /\ reserve[q].cumulative_borrow_rate_wads \in Nat
                              /\ reserve'[q].cumulative_borrow_rate_wads \in Nat
        <3>1. \A q \in Reserves : reserve[q] \in ReserveRec /\ reserve'[q] \in ReserveRec
            BY <1>2 DEF TypeOK
        <3> QED BY <3>1, MovesKeepRate
    <2>2. ASSUME NEW q \in live PROVE WAD <= reserve'[q].cumulative_borrow_rate_wads
        <3>1. RateKept(q) /\ WAD <= reserve[q].cumulative_borrow_rate_wads /\ q \in Reserves
            BY <1>2, <1>4, RatesGrow DEF RatesInv
        <3> QED BY <1>2, <2>1, <3>1 DEF RateKept
    <2>3. ASSUME NEW q \in live', q \notin live
          PROVE  WAD <= reserve'[q].cumulative_borrow_rate_wads
        <3>1. PICK amount, cfg, setup, reading : InitReserve(q, amount, cfg, setup, reading)
            BY <1>4, <2>3, NewlyLive
        <3>2. PICK p, m, fresh :
                 /\ fresh = [NoReserve EXCEPT !.cumulative_borrow_rate_wads = WAD,
                                              !.market_price = p, !.smoothed_market_price = m]
                 /\ PackReserve(q, DepositLiquidity(fresh, amount))
            BY <3>1, Zenon DEF InitReserve
        <3>3. q \in Reserves
            BY <1>2, <2>3 DEF TypeOK
        <3>4. reserve'[q] = DepositLiquidity(fresh, amount)
            BY <1>2, <3>2, <3>3 DEF PackReserve, TypeOK
        <3>5. DepositLiquidity(fresh, amount).cumulative_borrow_rate_wads = WAD
            BY <3>2 DEF DepositLiquidity, NoReserve
        <3> QED BY <1>2, <3>4, <3>5
    <2>4. ASSUME NEW o \in Obligations PROVE Dates(obligation'[o])
        <3>1. PICK s \in ObligationRec, t \in ObligationRec : s = obligation[o] /\ t = obligation'[o]
            BY <1>2 DEF TypeOK
        <3>2. Dates(s)
            BY <3>1 DEF RatesInv
        <3>3. ASSUME t.borrows = s.borrows PROVE Dates(t)
            BY <3>2, <3>3 DEF Dates
        <3>4. ASSUME UNCHANGED obligationVars PROVE Dates(t)
            BY <3>1, <3>3, <3>4 DEF obligationVars
        <3>5. ASSUME NEW p \in Obligations, InitObligation(p) PROVE Dates(t)
            <4>1. obligation' = [obligation EXCEPT ![p] = NewObligation]
                BY <3>5 DEF InitObligation
            <4>2. CASE p = o
                <5>1. t = NewObligation /\ NewObligation.borrows = <<>>
                    BY <1>2, <3>1, <4>1, <4>2 DEF TypeOK, NewObligation
                <5> QED BY <5>1 DEF Dates
            <4>3. CASE p # o
                BY <1>2, <3>1, <3>3, <4>1, <4>3 DEF TypeOK
            <4> QED BY <4>2, <4>3
        <3>6. ASSUME NEW p \in Obligations, RefreshObligation(p) PROVE Dates(t)
            <4>1. PackObligation(p, RefreshedObligation(obligation[p], reserve, config))
                BY <3>6 DEF RefreshObligation
            <4>2. CASE p = o
                <5>1. t = RefreshedObligation(s, reserve, config)
                    BY <1>2, <3>1, <4>1, <4>2, Packed
                <5>2. config \in [Reserves -> ReserveConfig]
                    BY <1>2 DEF TypeOK
                <5>3. PICK m : BorrowsRefreshed(s.borrows, t.borrows, reserve, config, m)
                    BY <5>1, <5>2, RefreshedBorrows
                <5>4. ASSUME NEW k \in 1..Len(t.borrows)
                      PROVE  WAD <= t.borrows[k].cumulative_borrow_rate_wads
                    <6>1. PICK i \in 1..Len(s.borrows) : i = m[k]
                        BY <5>3 DEF BorrowsRefreshed
                    <6>2. PICK b : b = s.borrows[i]
                        OBVIOUS
                    <6>3. b \in ObligationLiquidity
                        BY <6>1, <6>2 DEF ObligationRec
                    <6>4. t.borrows[k].cumulative_borrow_rate_wads
                             = AtRate(b, reserve).cumulative_borrow_rate_wads
                        BY <5>3, <6>1, <6>2 DEF BorrowsRefreshed
                    <6>5. AtRate(b, reserve).cumulative_borrow_rate_wads
                             = reserve[b.borrow_reserve].cumulative_borrow_rate_wads
                        BY <6>3 DEF AtRate, AccrueBorrow, ObligationLiquidity
                    <6>6. b.borrow_reserve \in live
                        <7>1. i \in DOMAIN s.borrows
                            BY <6>1 DEF ObligationRec
                        <7>2. b.borrow_reserve \in BorrowReserves(s)
                            BY <6>2, <7>1 DEF BorrowReserves
                        <7> QED BY <1>2, <3>1, <7>2 DEF CurvesInv, PositionsInv
                    <6> QED BY <6>4, <6>5, <6>6 DEF RatesInv
                <5> QED BY <5>4 DEF Dates
            <4>3. CASE p # o
                <5>1. t = s
                    BY <1>2, <3>1, <4>1, <4>3, OtherObligations
                <5> QED BY <3>3, <5>1
            <4> QED BY <4>2, <4>3
        <3>7. ASSUME NEW p \in Obligations, NEW r \in Reserves, PositionStep(p, r)
              PROVE  Dates(t)
            <4>1. CASE p = o
                <5>1. Dated(s.borrows, t.borrows, r, reserve'[r].cumulative_borrow_rate_wads)
                    BY <1>2, <3>1, <3>7, <4>1, PositionStepRates DEF RatesDated
                <5>2. WAD <= reserve'[r].cumulative_borrow_rate_wads
                    BY <2>2, <3>7, PositionStepLive
                <5> QED BY <3>2, <5>1, <5>2 DEF Dates, Dated, Carried
            <4>2. CASE p # o
                <5>1. PICK ob : PackObligation(p, ob)
                    BY <3>7, PositionStepWrites DEF WritesPosition
                <5>2. t = s
                    BY <1>2, <3>1, <4>2, <5>1, OtherObligations
                <5> QED BY <3>3, <5>2
            <4> QED BY <4>1, <4>2
        <3> QED BY <1>4, <3>1, <3>4, <3>5, <3>6, <3>7, ObligationsWritten
    <2> QED BY <1>1, <2>2, <2>3, <2>4 DEF RatesInv
<1> QED BY <1>3, <1>4

\* Every instruction does.
LEMMA NextMatchInv == MatchInv /\ [Next]_vars => MatchInv'
<1> SUFFICES ASSUME MatchInv, [Next]_vars PROVE MatchInv'
    OBVIOUS
<1> USE DEF clockVars, configVars, reserveVars, obligationVars
<1>1. RatesInv /\ RatesInv'
    BY NextRatesInv DEF MatchInv
<1>2. ASSUME UNCHANGED <<reserve, obligation, live, flash>> PROVE DebtsMatchReserve'
    BY <1>2, MatchedIs DEF MatchInv
<1>3. ASSUME UNCHANGED vars PROVE DebtsMatchReserve'
    <2>1. UNCHANGED <<reserve, obligation, live, flash>>
        BY <1>3 DEF vars
    <2> QED BY <1>2, <2>1
<1>4. Tick => UNCHANGED <<reserve, obligation, live, flash>>
    BY DEF Tick
<1>5. ASSUME NEW r, NEW signer, ConfigStep(r, signer)
      PROVE  UNCHANGED <<reserve, obligation, live, flash>>
    BY <1>5 DEF ConfigStep, UpdateReserveConfigByOwner, UpdateReserveConfigByRiskAuthority,
                UpdateReserveConfigBySolend
<1>6. ASSUME NEW owner, NEW limiter, NEW liquidator, NEW risk,
             SetLendingMarketOwnerAndConfig(owner, limiter, liquidator, risk)
      PROVE  UNCHANGED <<reserve, obligation, live, flash>>
    BY <1>6 DEF SetLendingMarketOwnerAndConfig
<1>7. ASSUME Next PROVE DebtsMatchReserve'
    <2>1. FlashRepayReserveLiquidity => DebtsMatchReserve'
        BY FlashRepayMatch
    <2>2. \A r \in Reserves : ReserveStep(r) => DebtsMatchReserve'
        BY ReserveStepMatch
    <2>3. \A o \in Obligations : InitObligation(o) \/ RefreshObligation(o) => DebtsMatchReserve'
        BY RefreshMatch
    <2>4. \A o \in Obligations, r \in Reserves : PositionStep(o, r) => DebtsMatchReserve'
        BY PositionStepMatch
    <2>5. CASE \E r \in Reserves, signer \in Keys : ConfigStep(r, signer)
        BY <1>2, <1>5, <2>5
    <2>6. CASE \E owner, risk \in Keys, liquidator \in Keys \cup {NoKey},
                  limiter \in MarketLimiterUpdates :
                  SetLendingMarketOwnerAndConfig(owner, limiter, liquidator, risk)
        BY <1>2, <1>6, <2>6
    <2>7. CASE Tick
        BY <1>2, <1>4, <2>7
    <2> QED BY <1>7, <2>1, <2>2, <2>3, <2>4, <2>5, <2>6, <2>7 DEF Next
<1> QED BY <1>1, <1>3, <1>7 DEF MatchInv

\* A market just made owes nothing.
LEMMA InitMatchInv == Init => MatchInv
<1>1. Init => live = {} /\ \A o \in Obligations : obligation[o] = NewObligation
    BY DEF Init
<1>2. NewObligation.borrows = <<>>
    BY DEF NewObligation
<1>3. Init => DebtRateInv
    BY <1>1, <1>2, InitCurvesInv DEF DebtRateInv, Behind
<1>4. Init => RatesInv
    BY <1>1, <1>2, <1>3, InitBooksInv DEF RatesInv, Dates
<1>5. Init => DebtsMatchReserve
    BY <1>1, MatchedIs
<1> QED BY <1>4, <1>5 DEF MatchInv

(***************************************************************************)
(* DebtsMatchReserve holds in every reachable state: while a reserve has   *)
(* never charged interest, what it books as borrowed is, to the wad, what  *)
(* the obligations owe it and the flash loan in flight.  Every handler     *)
(* that borrows, repays, liquidates, forgives or lends for one transaction *)
(* writes the two sides of the debt in two accounts; they agree.           *)
(***************************************************************************)
THEOREM DebtsAlwaysMatch == Spec => []DebtsMatchReserve
<1>1. MatchInv => DebtsMatchReserve
    BY DEF MatchInv
<1> QED BY <1>1, InitMatchInv, NextMatchInv, PTL DEF Spec

-----------------------------------------------------------------------------
(* A stopped reserve.                                                      *)

\* the window of an enabled limiter starts at a multiple of its length
OnGrid(l) ==
    l.config.window_duration # 0 =>
        \E k \in Nat : l.window_start = k * l.config.window_duration

\* A limiter that lets something out stays on the grid.
LEMMA UpdateOnGrid ==
    ASSUME NEW l \in RateLimiterRec, OnGrid(l), NEW s \in Nat, NEW qty \in Nat,
           RateLimiterAllows(l, s, qty)
    PROVE  OnGrid(RateLimiterUpdate(l, s, qty))
<1>1. CASE l.config.window_duration = 0
    BY <1>1 DEF RateLimiterUpdate
<1>2. CASE l.config.window_duration # 0
    <2>1. PICK k \in Nat : l.window_start = k * l.config.window_duration
        BY <1>2 DEF OnGrid
    <2>2. l.window_start <= s
        BY <1>2 DEF RateLimiterAllows, RateLimiterRec
    <2>3. PICK r : r = RateLimiterSlide(l, s)
        OBVIOUS
    <2>4. /\ r \in RateLimiterRec /\ r.config = l.config
          /\ \E j \in Nat : r.window_start = j * l.config.window_duration
        BY <1>2, <2>1, <2>2, <2>3, SlideCases
    <2>5. RateLimiterUpdate(l, s, qty) = [r EXCEPT !.cur_qty = @ + qty]
        BY <1>2, <2>3 DEF RateLimiterUpdate
    <2>6. /\ RateLimiterUpdate(l, s, qty).config = l.config
          /\ RateLimiterUpdate(l, s, qty).window_start = r.window_start
        BY <2>4, <2>5 DEF RateLimiterRec
    <2> QED BY <2>4, <2>6 DEF OnGrid
<1> QED BY <1>1, <1>2

\* One that allows no outflow lets nothing out.
LEMMA StoppedLetsNothingOut ==
    ASSUME NEW l \in RateLimiterRec, OnGrid(l), NEW s \in Nat, NEW qty \in Nat,
           l.config.window_duration > 0, l.config.max_outflow = 0, RateLimiterAllows(l, s, qty)
    PROVE  qty = 0
<1>1. PICK w \in Nat : w = l.config.window_duration /\ w # 0
    BY DEF RateLimiterRec, RateLimiterConfig
<1>2. PICK k \in Nat : l.window_start = k * w
    BY <1>1 DEF OnGrid
<1>3. PICK r : r = RateLimiterSlide(l, s)
    OBVIOUS
<1>4. CurrentOutflow(r, s) + qty <= FromU64(0) /\ l.window_start <= s
    BY <1>1, <1>3 DEF RateLimiterAllows, RateLimiterRec
<1>5. /\ r \in RateLimiterRec /\ r.config = l.config
      /\ r.window_start <= s /\ s < r.window_start + w
    BY <1>1, <1>2, <1>3, <1>4, SlideCases
<1>6. CurrentOutflow(r, s) \in Nat
    BY <1>1, <1>5, OutflowCoversCurrent
<1>7. FromU64(0) = 0
    BY WadAssumption DEF FromU64
<1> QED BY <1>4, <1>6, <1>7

\* what a step may do to the limiter of reserve r
LimiterStep(r) ==
    \/ reserve_limiter'[r] = reserve_limiter[r]
    \/ \E c \in RateLimiterConfig : reserve_limiter'[r] = RateLimiterNew(c, slot)
    \/ \E qty \in Nat :
          /\ RateLimiterAllows(reserve_limiter[r], slot, qty)
          /\ reserve_limiter'[r] = RateLimiterUpdate(reserve_limiter[r], slot, qty)

\* A redemption charges the tokens it pays out.
LEMMA RedemptionCharges ==
    ASSUME TypeOK, NEW r \in Reserves, NEW c \in Nat, CanRedeem(reserve[r], c),
           RateLimited(r, reserve[r], c)
    PROVE  /\ \A q \in Reserves : LimiterStep(q)
           /\ LiquidityFor(reserve[r], c) \in Nat
           /\ RateLimiterAllows(reserve_limiter[r], slot, FromU64(LiquidityFor(reserve[r], c)))
<1>1. LiquidityFor(reserve[r], c) \in Nat
    BY LiquidityForNat DEF CanRedeem
<1>2. PICK x \in Nat : x = FromU64(LiquidityFor(reserve[r], c))
    BY <1>1, ConversionsNat
<1>3. /\ RateLimiterAllows(reserve_limiter[r], slot, x)
      /\ reserve_limiter' = [reserve_limiter EXCEPT ![r] = RateLimiterUpdate(@, slot, x)]
    BY <1>2 DEF RateLimited
<1>4. \A q \in Reserves \ {r} : reserve_limiter'[q] = reserve_limiter[q]
    BY <1>3 DEF TypeOK
<1>5. reserve_limiter'[r] = RateLimiterUpdate(reserve_limiter[r], slot, x)
    BY <1>3 DEF TypeOK
<1> QED BY <1>1, <1>2, <1>3, <1>4, <1>5 DEF LimiterStep

\* A borrow is charged to the limiter of its reserve.
LEMMA BorrowCharges ==
    ASSUME TypeOK, NEW o \in Obligations, NEW r \in Reserves, NEW amount \in Nat, NEW host,
           BorrowObligationLiquidity(o, r, amount, host)
    PROVE  /\ \A q \in Reserves : LimiterStep(q)
           /\ \E x \in Nat : RateLimiterAllows(reserve_limiter[r], slot, x) /\ x # 0
<1>1. PICK terms \in BorrowTerms(o, r, amount) :
         /\ terms.receive_amount # 0
         /\ RateLimiterAllows(reserve_limiter[r], slot, terms.borrow_amount)
         /\ reserve_limiter' = [reserve_limiter EXCEPT
                                   ![r] = RateLimiterUpdate(@, slot, terms.borrow_amount)]
    BY DEF BorrowObligationLiquidity
<1>2. /\ terms.borrow_amount \in Nat /\ terms.receive_amount \in Nat /\ terms.borrow_fee \in Nat
      /\ terms.receive_amount + terms.borrow_fee = TryFloor(terms.borrow_amount)
    BY TermsOfBorrow
<1>3. terms.borrow_amount # 0
    <2>1. TryFloor(0) = 0
        BY WadAssumption DEF TryFloor
    <2> QED BY <1>1, <1>2, <2>1
<1>4. \A q \in Reserves \ {r} : reserve_limiter'[q] = reserve_limiter[q]
    BY <1>1 DEF TypeOK
<1>5. reserve_limiter'[r] = RateLimiterUpdate(reserve_limiter[r], slot, terms.borrow_amount)
    BY <1>1 DEF TypeOK
<1> QED BY <1>1, <1>2, <1>3, <1>4, <1>5 DEF LimiterStep

LimitersInv == TypeOK /\ \A r \in Reserves : OnGrid(reserve_limiter[r])

\* Every step does one of these to each limiter.
LEMMA LimiterSteps ==
    ASSUME TypeOK, Next, NEW q \in Reserves
    PROVE  LimiterStep(q)
<1> USE DEF clockVars, configVars, reserveVars, obligationVars
<1>1. ASSUME reserve_limiter' = reserve_limiter PROVE LimiterStep(q)
    BY <1>1 DEF LimiterStep
<1>2. Tick \/ FlashRepayReserveLiquidity => reserve_limiter' = reserve_limiter
    BY DEF Tick, FlashRepayReserveLiquidity
<1>3. ASSUME NEW r \in Reserves, ReserveStep(r) PROVE LimiterStep(q)
    <2>1. ASSUME NEW amount, NEW cfg, NEW setup, NEW reading,
                 InitReserve(r, amount, cfg, setup, reading)
          PROVE  LimiterStep(q)
        <3>1. reserve_limiter' = [reserve_limiter EXCEPT ![r] = RateLimiterNew(DisabledLimiter, slot)]
            BY <2>1 DEF InitReserve
        <3>2. DisabledLimiter \in RateLimiterConfig
            BY WadAssumption DEF DisabledLimiter, RateLimiterConfig, U64
        <3> QED BY <3>1, <3>2 DEF TypeOK, LimiterStep
    <2>2. ASSUME NEW reading
          PROVE  RefreshReserve(r, reading) \/ RedeemFees(r) => reserve_limiter' = reserve_limiter
        BY Zenon DEF RefreshReserve, RedeemFees
    <2>3. ASSUME NEW amount
          PROVE  DepositReserveLiquidity(r, amount) \/ FlashBorrowReserveLiquidity(r, amount)
                    => reserve_limiter' = reserve_limiter
        BY DEF DepositReserveLiquidity, FlashBorrowReserveLiquidity
    <2>4. ASSUME NEW amount \in Nat, RedeemReserveCollateral(r, amount) PROVE LimiterStep(q)
        BY <2>4, RedemptionCharges DEF RedeemReserveCollateral
    <2>5. RedeemAmounts \subseteq Nat
        BY MarketAssumption, WadAssumption DEF U64
    <2> QED BY <1>1, <1>3, <2>1, <2>2, <2>3, <2>4, <2>5 DEF ReserveStep
<1>4. ASSUME NEW o, InitObligation(o) \/ RefreshObligation(o) PROVE reserve_limiter' = reserve_limiter
    BY <1>4 DEF InitObligation, RefreshObligation
<1>5. ASSUME NEW o \in Obligations, NEW r \in Reserves, PositionStep(o, r) PROVE LimiterStep(q)
    <2>1. ASSUME NEW amount,
                 \/ DepositObligationCollateral(o, r, amount)
                 \/ DepositReserveLiquidityAndObligationCollateral(o, r, amount)
                 \/ WithdrawObligationCollateral(o, r, amount)
                 \/ RepayObligationLiquidity(o, r, amount)
                 \/ ForgiveDebt(o, r, amount)
          PROVE  reserve_limiter' = reserve_limiter
        BY <2>1 DEF DepositObligationCollateral, DepositReserveLiquidityAndObligationCollateral,
               WithdrawObligationCollateral, RepayObligationLiquidity, ForgiveDebt
    <2>2. ASSUME NEW w, NEW amount, NEW liquidator
          PROVE  LiquidateObligation(o, r, w, amount, liquidator) => reserve_limiter' = reserve_limiter
        BY DEF LiquidateObligation
    <2>3. ASSUME NEW amount \in Nat, WithdrawObligationCollateralAndRedeem(o, r, amount)
          PROVE  LimiterStep(q)
        <3>1. PICK cap \in OutflowCollateral(o, r) : \E x \in WithdrawAmount(o, r, amount, cap) :
                 CanRedeem(reserve[r], x) /\ RateLimited(r, reserve[r], x)
            BY <2>3 DEF WithdrawObligationCollateralAndRedeem
        <3>2. PICK x \in WithdrawAmount(o, r, amount, cap) :
                 CanRedeem(reserve[r], x) /\ RateLimited(r, reserve[r], x)
            BY <3>1
        <3>3. x \in Nat
            BY <2>3, WithdrawnNat DEF WithdrawObligationCollateralAndRedeem
        <3> QED BY <3>2, <3>3, RedemptionCharges
    <2>4. WithdrawAmounts \subseteq Nat /\ BorrowAmounts \subseteq Nat
        BY MarketAssumption, WadAssumption DEF U64
    <2>5. ASSUME NEW amount \in Nat, NEW host, BorrowObligationLiquidity(o, r, amount, host)
          PROVE  LimiterStep(q)
        BY <2>5, BorrowCharges
    <2>6. CASE \E amount \in WithdrawAmounts : WithdrawObligationCollateralAndRedeem(o, r, amount)
        BY <2>3, <2>4, <2>6
    <2>7. CASE \E amount \in BorrowAmounts, host \in BOOLEAN :
                  BorrowObligationLiquidity(o, r, amount, host)
        BY <2>4, <2>5, <2>7
    <2>8. CASE \E w \in Reserves, amount \in LiquidateAmounts, liquidator \in Keys :
                  LiquidateObligation(o, r, w, amount, liquidator)
        BY <1>1, <2>2, <2>8
    <2>9. CASE \E amount : \/ DepositObligationCollateral(o, r, amount)
                           \/ DepositReserveLiquidityAndObligationCollateral(o, r, amount)
                           \/ WithdrawObligationCollateral(o, r, amount)
                           \/ RepayObligationLiquidity(o, r, amount)
                           \/ ForgiveDebt(o, r, amount)
        BY <1>1, <2>1, <2>9
    <2> QED BY <1>5, <2>6, <2>7, <2>8, <2>9 DEF PositionStep
<1>6. ASSUME NEW r \in Reserves, NEW signer, ConfigStep(r, signer) PROVE LimiterStep(q)
    <2>1. ASSUME NEW cfg, NEW limiter \in RateLimiterConfig, NEW setup,
                 UpdateReserveConfigByOwner(r, signer, cfg, limiter, setup)
          PROVE  LimiterStep(q)
        BY <2>1 DEF UpdateReserveConfigByOwner, TypeOK, LimiterStep
    <2>2. ASSUME NEW cfg, NEW limiter \in RateLimiterConfig,
                 UpdateReserveConfigByRiskAuthority(r, signer, cfg, limiter)
          PROVE  LimiterStep(q)
        BY <2>2 DEF UpdateReserveConfigByRiskAuthority, TypeOK, LimiterStep
    <2>3. ASSUME NEW cfg, UpdateReserveConfigBySolend(r, signer, cfg)
          PROVE  LimiterStep(q)
        BY <1>1, <2>3 DEF UpdateReserveConfigBySolend
    <2>4. LimiterUpdates \subseteq RateLimiterConfig
        BY MarketAssumption
    <2> QED BY <1>6, <2>1, <2>2, <2>3, <2>4 DEF ConfigStep
<1>7. ASSUME NEW owner, NEW limiter, NEW liquidator, NEW risk,
             SetLendingMarketOwnerAndConfig(owner, limiter, liquidator, risk)
      PROVE  reserve_limiter' = reserve_limiter
    BY <1>7 DEF SetLendingMarketOwnerAndConfig
<1> QED BY <1>1, <1>2, <1>3, <1>4, <1>5, <1>6, <1>7 DEF Next

\* Every instruction keeps the windows of enabled limiters on their grid.
LEMMA NextLimitersInv == LimitersInv /\ [Next]_vars => LimitersInv'
<1> SUFFICES ASSUME LimitersInv, [Next]_vars PROVE LimitersInv'
    OBVIOUS
<1>1. TypeOK /\ TypeOK' /\ slot \in Nat
    BY NextTyped, MarketAssumption DEF LimitersInv, TypeOK
<1>2. CASE UNCHANGED vars
    BY <1>1, <1>2 DEF vars, LimitersInv, OnGrid
<1>3. CASE Next
    <2>1. ASSUME NEW r \in Reserves PROVE OnGrid(reserve_limiter'[r])
        <3>1. PICK l : l = reserve_limiter[r] /\ l \in RateLimiterRec /\ OnGrid(l)
            BY <1>1 DEF TypeOK, LimitersInv
        <3>2. CASE reserve_limiter'[r] = l
            BY <3>1, <3>2
        <3>3. CASE \E c \in RateLimiterConfig : reserve_limiter'[r] = RateLimiterNew(c, slot)
            BY <1>1, <3>3, NewLimiter DEF OnGrid
        <3>4. CASE \E qty \in Nat : /\ RateLimiterAllows(l, slot, qty)
                                    /\ reserve_limiter'[r] = RateLimiterUpdate(l, slot, qty)
            BY <1>1, <3>1, <3>4, UpdateOnGrid
        <3>5. LimiterStep(r)
            BY <1>1, <1>3, LimiterSteps
        <3> QED BY <3>1, <3>2, <3>3, <3>4, <3>5 DEF LimiterStep
    <2> QED BY <1>1, <2>1 DEF LimitersInv
<1> QED BY <1>2, <1>3

\* reserve q keeps its liquidity, or loses it in one of the ways a stop does not bar
KeepsLiquidity(q) ==
    \/ token'[q].supply >= token[q].supply
    \/ flash' # flash
    \/ token'[q].fee_receiver > token[q].fee_receiver

\* A step on the accounts of one reserve.
LEMMA TokensKept ==
    ASSUME TypeOK, NEW r \in Reserves, NEW t, SetToken(r, t),
           \/ t.supply >= token[r].supply
           \/ t.fee_receiver > token[r].fee_receiver
    PROVE  \A q \in Reserves : KeepsLiquidity(q)
<1>1. token'[r] = t /\ \A q \in Reserves \ {r} : token'[q] = token[q]
    BY DEF SetToken, TypeOK
<1>2. \A q \in Reserves : token[q].supply \in Nat
    BY TokenBalances
<1> QED BY <1>1, <1>2 DEF KeepsLiquidity

\* A step that moves no tokens.
LEMMA TokensSame ==
    ASSUME TypeOK, token' = token
    PROVE  \A q \in Reserves : KeepsLiquidity(q)
<1>1. \A q \in Reserves : token[q].supply \in Nat
    BY TokenBalances
<1> QED BY <1>1 DEF KeepsLiquidity

\* A stopped reserve redeems nothing.
LEMMA StoppedRedeemsNothing ==
    ASSUME LimitersInv, NEW r \in Reserves, NEW c \in Nat, CanRedeem(reserve[r], c),
           RateLimited(r, reserve[r], c), Stopped(r)
    PROVE  LiquidityFor(reserve[r], c) = 0
<1>1. TypeOK /\ slot \in Nat /\ reserve_limiter[r] \in RateLimiterRec /\ OnGrid(reserve_limiter[r])
    BY MarketAssumption DEF LimitersInv, TypeOK
<1>2. PICK n \in Nat : n = LiquidityFor(reserve[r], c)
    BY <1>1, RedemptionCharges
<1>3. FromU64(n) \in Nat /\ RateLimiterAllows(reserve_limiter[r], slot, FromU64(n))
    BY <1>1, <1>2, RedemptionCharges, ConversionsNat
<1>4. FromU64(n) = 0
    BY <1>1, <1>3, StoppedLetsNothingOut DEF Stopped
<1>5. TryFloor(FromU64(n)) = n /\ TryFloor(0) = 0
    BY FloorOfWhole, WadAssumption DEF TryFloor
<1> QED BY <1>2, <1>4, <1>5

\* The fee of a liquidation is at least one token.
LEMMA LiquidationFeePaid ==
    ASSUME NEW cfg \in ReserveConfig, NEW n \in Nat, NEW rate \in Nat, rate > 0
    PROVE  /\ CalculateProtocolLiquidationFee(cfg, n, rate) \in Nat
           /\ CalculateProtocolLiquidationFee(cfg, n, rate) >= 1
<1>1. cfg.protocol_liquidation_fee * 10 \in Nat
    BY ReserveAssumption DEF ReserveConfig
<1>2. PICK share \in Nat : share = FromDecaBps(cfg.protocol_liquidation_fee)
    BY <1>1, ConversionsNat DEF FromDecaBps
<1>3. DecMul(DecDiv(FromU64(n), rate), share) \in Nat
    BY ConversionsNat, DecDivNat, DecMulNat
<1>4. PICK due \in Nat : due = TryCeil(DecMul(DecDiv(FromU64(n), rate), share))
    BY <1>3, ConversionsNat
<1>5. CalculateProtocolLiquidationFee(cfg, n, rate) = MaxOf(due, 1)
    BY <1>2, <1>4 DEF CalculateProtocolLiquidationFee
<1> QED BY <1>5 DEF MaxOf

\* The rate a liquidation pays is above one.
LEMMA LiquidationRate ==
    ASSUME TypeOK, NEW o \in Obligations, NEW p, NEW w \in Reserves, NEW amount, NEW liquidator,
           CanLiquidate(o, p, w, liquidator)
    PROVE  /\ LiquidationTerms(o, w, amount).bonus_rate \in Nat
           /\ LiquidationTerms(o, w, amount).bonus_rate > 0
<1>1. /\ config[w] \in ReserveConfig /\ obligation[o] \in ObligationRec
      /\ CanCalculateLiquidation(config[w], obligation[o], obligation[o].borrows[1])
      /\ obligation[o].borrowed_value >= obligation[o].unhealthy_borrow_value
    BY DEF TypeOK, CanLiquidate
<1>2. CalculateBonus(config[w], obligation[o]) \in Nat
    BY <1>1, BonusNat
<1>3. LiquidationTerms(o, w, amount).bonus_rate = CalculateBonus(config[w], obligation[o]) + WAD
    BY DEF LiquidationTerms, CalculateLiquidation
<1> QED BY <1>2, <1>3, WadAssumption

\* A liquidation that takes liquidity out pays a fee along with it.
LEMMA LiquidateKeeps ==
    ASSUME TypeOK, NEW o \in Obligations, NEW p \in Reserves, NEW w \in Reserves,
           NEW amount \in Nat, NEW liquidator, LiquidateObligation(o, p, w, amount, liquidator)
    PROVE  \A q \in Reserves : KeepsLiquidity(q)
<1>0. CanLiquidate(o, p, w, liquidator) /\ config[w] \in ReserveConfig
    BY DEF LiquidateObligation, TypeOK
<1>1. PICK terms : terms = LiquidationTerms(o, w, amount)
    OBVIOUS
<1>2. PICK x \in Nat, y \in Nat, rate \in Nat :
         x = terms.withdraw_amount /\ y = terms.repay_amount /\ rate = terms.bonus_rate /\ rate > 0
    BY <1>0, <1>1, TermsOfLiquidation, LiquidationRate
<1>3. PICK repaid : repaid = [reserve EXCEPT ![p] = LiquidityRepay(@, terms.repay_amount,
                                                                 terms.settle_amount)]
    OBVIOUS
<1>4. PICK paid : paid = [token EXCEPT ![p] = Transfer(@, "wallet", "supply", y)]
    OBVIOUS
<1>5. PICK seized : seized = [paid EXCEPT ![w] = Transfer(@, "ctoken_supply", "ctoken_wallet", x)]
    OBVIOUS
<1>6. PICK coll : coll = MinOf(x, CollateralFor(repaid[w], repaid[w].available_amount))
    OBVIOUS
<1>7. PICK fee : fee = CalculateProtocolLiquidationFee(config[w], LiquidityFor(repaid[w], coll), rate)
    OBVIOUS
<1>8. \/ token' = seized
      \/ token' = [seized EXCEPT ![w] = Transfer(Redeemed(@, repaid[w], coll),
                                                 "wallet", "fee_receiver", fee)]
    BY <1>1, <1>2, <1>3, <1>4, <1>5, <1>6, <1>7 DEF LiquidateObligation, Seized
<1>9. /\ reserve \in [Reserves -> ReserveRec] /\ token \in [Reserves -> TokenRec]
      /\ \A q \in Reserves : Balances(token[q]) /\ token[q].supply \in Nat
      /\ \A q \in Reserves : token[q].fee_receiver \in Nat
    <2>1. \A q \in Reserves : token[q].fee_receiver \in Nat
        BY WadAssumption DEF TypeOK, TokenRec, U64
    <2> QED BY <2>1, TokenBalances DEF TypeOK
<1>10. HasExchangeRate(repaid[w])
    BY <1>1, <1>3 DEF LiquidateObligation
<1>11. repaid[w].available_amount \in Nat
    <2>1. reserve[w].available_amount \in Nat /\ reserve[p].available_amount \in Nat
        BY <1>9, ReserveNat
    <2>2. LiquidityRepay(reserve[p], y, terms.settle_amount).available_amount
             = reserve[p].available_amount + y
        BY <1>9 DEF LiquidityRepay, ReserveRec
    <2>3. repaid[w] = IF w = p THEN LiquidityRepay(reserve[p], y, terms.settle_amount) ELSE reserve[w]
        BY <1>2, <1>3, <1>9
    <2> QED BY <2>1, <2>2, <2>3
<1>12. coll \in Nat
    <2>1. CollateralFor(repaid[w], repaid[w].available_amount) \in Nat
        BY <1>10, <1>11, CollateralForNat
    <2> QED BY <1>6, <2>1 DEF MinOf
<1>13. fee \in Nat /\ fee >= 1
    <2>1. LiquidityFor(repaid[w], coll) \in Nat
        BY <1>10, <1>12, LiquidityForNat
    <2> QED BY <1>0, <1>2, <1>7, <2>1, LiquidationFeePaid
<1>14. /\ paid = [q \in Reserves |-> paid[q]]
       /\ \A q \in Reserves : /\ Balances(paid[q]) /\ paid[q].supply >= token[q].supply
                               /\ paid[q].fee_receiver = token[q].fee_receiver
                               /\ paid[q].supply \in Nat
    <2>1. PICK t : t = Transfer(token[p], "wallet", "supply", y)
        OBVIOUS
    <2>2. Balances(t) /\ t.supply = token[p].supply + y /\ t.fee_receiver = token[p].fee_receiver
        BY <1>9, <2>1, TransferFields DEF TokenFields
    <2>3. paid = [token EXCEPT ![p] = t]
        BY <1>4, <2>1
    <2>4. paid[p] = t /\ \A q \in Reserves \ {p} : paid[q] = token[q]
        BY <1>9, <2>3
    <2>5. paid = [q \in Reserves |-> paid[q]]
        BY <1>9, <2>3
    <2>6. t.supply \in Nat /\ t.supply >= token[p].supply
        BY <1>9, <2>2
    <2> QED BY <1>9, <2>2, <2>4, <2>5, <2>6
<1>15. /\ seized = [q \in Reserves |-> seized[q]]
       /\ Balances(seized[w])
       /\ \A q \in Reserves : /\ seized[q].supply >= token[q].supply
                               /\ seized[q].fee_receiver = token[q].fee_receiver
    <2>1. PICK t : t = Transfer(paid[w], "ctoken_supply", "ctoken_wallet", x)
        OBVIOUS
    <2>2. Balances(t) /\ t.supply = paid[w].supply /\ t.fee_receiver = paid[w].fee_receiver
        BY <1>14, <2>1, TransferFields DEF TokenFields
    <2>3. seized = [paid EXCEPT ![w] = t]
        BY <1>5, <2>1
    <2>4. seized[w] = t /\ \A q \in Reserves \ {w} : seized[q] = paid[q]
        BY <1>14, <2>3
    <2> QED BY <1>14, <2>2, <2>3, <2>4
<1>16. CASE token' = seized
    BY <1>15, <1>16 DEF KeepsLiquidity
<1>17. CASE token' = [seized EXCEPT ![w] = Transfer(Redeemed(@, repaid[w], coll),
                                                   "wallet", "fee_receiver", fee)]
    <2>1. PICK b, u, t : /\ b = Burn(seized[w], coll)
                         /\ u = Transfer(b, "supply", "wallet", LiquidityFor(repaid[w], coll))
                         /\ t = Transfer(u, "wallet", "fee_receiver", fee)
        OBVIOUS
    <2>2. Balances(b) /\ b.fee_receiver = seized[w].fee_receiver
        <3>1. Balances(b)
            BY <1>15, <2>1, MintFields
        <3> QED BY <1>15, <2>1, <3>1 DEF Burn, Balances, TokenFields
    <2>3. Balances(u) /\ u.fee_receiver = b.fee_receiver
        BY <2>1, <2>2, TransferFields DEF TokenFields
    <2>4. t.fee_receiver = u.fee_receiver + fee
        BY <2>1, <2>3, TransferFields DEF TokenFields
    <2>5. token'[w] = t /\ \A q \in Reserves \ {w} : token'[q] = seized[q]
        BY <1>15, <1>17, <2>1 DEF Redeemed
    <2>6. t.fee_receiver = token[w].fee_receiver + fee
        BY <1>15, <2>2, <2>3, <2>4
    <2> QED BY <1>9, <1>13, <1>15, <2>5, <2>6 DEF KeepsLiquidity
<1> QED BY <1>8, <1>16, <1>17

\* A deposit or a repayment adds to the vault.
LEMMA VaultGains ==
    ASSUME TypeOK, NEW r \in Reserves, NEW t, SetToken(r, t), NEW x \in Nat,
           t.supply = token[r].supply + x
    PROVE  \A q \in Reserves : KeepsLiquidity(q)
<1>1. t.supply >= token[r].supply
    BY TokenBalances
<1> QED BY <1>1, TokensKept

\* Redeeming from a stopped reserve takes nothing from it, and nothing from the others.
LEMMA RedemptionKeeps ==
    ASSUME LimitersInv, NEW r \in Reserves, NEW c \in Nat, CanRedeem(reserve[r], c),
           RateLimited(r, reserve[r], c), NEW t, Balances(t), t.supply = token[r].supply,
           SetToken(r, Redeemed(t, reserve[r], c)), NEW q \in Reserves, Stopped(q)
    PROVE  KeepsLiquidity(q)
<1>1. TypeOK /\ token[q].supply \in Nat
    BY TokenBalances DEF LimitersInv
<1>2. CASE q = r
    <2>1. Redeemed(t, reserve[r], c).supply = t.supply - 0
        BY <1>2, StoppedRedeemsNothing, VaultFlows
    <2>2. token'[r] = Redeemed(t, reserve[r], c)
        BY <1>1 DEF SetToken, TypeOK
    <2> QED BY <1>1, <1>2, <2>1, <2>2 DEF KeepsLiquidity
<1>3. CASE q # r
    <2>1. token'[q] = token[q]
        BY <1>1, <1>3 DEF SetToken, TypeOK
    <2> QED BY <1>1, <2>1 DEF KeepsLiquidity
<1> QED BY <1>2, <1>3

\* The steps of one reserve leave a stopped one its liquidity.
LEMMA ReserveStepKeeps ==
    ASSUME LimitersInv, NEW r \in Reserves, ReserveStep(r), NEW q \in live, Stopped(q)
    PROVE  KeepsLiquidity(q)
<1> USE DEF clockVars
<1>0. TypeOK /\ q \in Reserves /\ Balances(token[r]) /\ token[r].supply \in Nat
    BY TokenBalances DEF LimitersInv, TypeOK
<1>1. ASSUME NEW amount, NEW cfg, NEW setup, NEW reading, InitReserve(r, amount, cfg, setup, reading)
      PROVE  KeepsLiquidity(q)
    <2>1. q # r /\ \E t : SetToken(r, t)
        BY <1>1, Zenon DEF InitReserve
    <2>2. token'[q] = token[q]
        BY <1>0, <2>1 DEF SetToken, TypeOK
    <2> QED BY <1>0, <2>2, TokenBalances DEF KeepsLiquidity
<1>2. ASSUME NEW reading, RefreshReserve(r, reading) PROVE KeepsLiquidity(q)
    <2>1. token' = token
        BY <1>2, Zenon DEF RefreshReserve
    <2> QED BY <1>0, <2>1, TokensSame
<1>3. ASSUME NEW amount \in Nat, DepositReserveLiquidity(r, amount) PROVE KeepsLiquidity(q)
    <2>1. PICK res : SetToken(r, Deposited(token[r], res, amount))
        BY <1>3 DEF DepositReserveLiquidity
    <2>2. \A x : Deposited(token[r], res, x).supply = token[r].supply + x
        BY <1>0, VaultFlows
    <2> QED BY <1>0, <2>1, <2>2, VaultGains
<1>4. ASSUME NEW amount \in Nat, RedeemReserveCollateral(r, amount) PROVE KeepsLiquidity(q)
    BY <1>0, <1>4, RedemptionKeeps DEF RedeemReserveCollateral
<1>5. ASSUME RedeemFees(r) PROVE KeepsLiquidity(q)
    <2>1. PICK amount : amount = CalculateRedeemFees(reserve[r])
        OBVIOUS
    <2>2. amount > 0 /\ SetToken(r, Transfer(token[r], "supply", "fee_receiver", amount))
        BY <1>5, <2>1 DEF RedeemFees
    <2>3. amount \in Nat
        <3>1. reserve[r] \in ReserveRec
            BY <1>0 DEF TypeOK
        <3>2. /\ reserve[r].available_amount \in Nat
              /\ reserve[r].accumulated_protocol_fees_wads \in Nat
            BY <3>1, ReserveNat
        <3>3. TryFloor(reserve[r].accumulated_protocol_fees_wads) \in Nat
            BY <3>2, ConversionsNat
        <3> QED BY <2>1, <3>2, <3>3 DEF CalculateRedeemFees, MinOf
    <2>4. Transfer(token[r], "supply", "fee_receiver", amount).fee_receiver
             = token[r].fee_receiver + amount
        BY <1>0, TransferFields DEF TokenFields
    <2>5. token[r].fee_receiver \in Nat
        BY <1>0, WadAssumption DEF TypeOK, TokenRec, U64
    <2>6. Transfer(token[r], "supply", "fee_receiver", amount).fee_receiver > token[r].fee_receiver
        BY <2>2, <2>3, <2>4, <2>5
    <2> QED BY <1>0, <2>2, <2>6, TokensKept
<1>6. ASSUME NEW amount \in U64, FlashBorrowReserveLiquidity(r, amount) PROVE KeepsLiquidity(q)
    <2>1. flash = NoFlash /\ flash' = [reserve |-> r, amount |-> amount]
        BY <1>6 DEF FlashBorrowReserveLiquidity
    <2>2. flash' \in [reserve : Reserves, amount : U64]
        BY <1>6, <2>1
    <2>3. flash' # flash
        BY <2>1, <2>2, MarketAssumption
    <2> QED BY <2>3 DEF KeepsLiquidity
<1>7. DepositAmounts \subseteq Nat /\ RedeemAmounts \subseteq Nat /\ FlashAmounts \subseteq U64
    BY MarketAssumption, WadAssumption DEF U64
<1> QED BY <1>1, <1>2, <1>3, <1>4, <1>5, <1>6, <1>7 DEF ReserveStep

\* The steps of one obligation with one reserve leave a stopped one its liquidity.
LEMMA PositionStepKeeps ==
    ASSUME LimitersInv, RatesInv, NEW o \in Obligations, NEW r \in Reserves, PositionStep(o, r),
           NEW q \in live, Stopped(q)
    PROVE  KeepsLiquidity(q)
<1>0. TypeOK /\ q \in Reserves /\ Balances(token[r]) /\ token[r].supply \in Nat
    BY TokenBalances DEF LimitersInv, TypeOK
<1>1. ASSUME NEW amount, DepositObligationCollateral(o, r, amount) PROVE KeepsLiquidity(q)
    <2>1. SetToken(r, Transfer(token[r], "ctoken_wallet", "ctoken_supply", amount))
        BY <1>1 DEF DepositObligationCollateral
    <2>2. Transfer(token[r], "ctoken_wallet", "ctoken_supply", amount).supply = token[r].supply + 0
        BY <1>0, VaultFlows
    <2> QED BY <1>0, <2>1, <2>2, VaultGains
<1>2. ASSUME NEW amount \in Nat, DepositReserveLiquidityAndObligationCollateral(o, r, amount)
      PROVE  KeepsLiquidity(q)
    <2>1. PICK res, t, u : /\ t = Deposited(token[r], res, amount)
                           /\ u = Transfer(t, "ctoken_wallet", "ctoken_supply",
                                           CollateralFor(res, amount))
                           /\ SetToken(r, u)
        BY <1>2 DEF DepositReserveLiquidityAndObligationCollateral
    <2>2. \A x : /\ Deposited(token[r], res, x).supply = token[r].supply + x
                 /\ Balances(Deposited(token[r], res, x))
        BY <1>0, VaultFlows
    <2>3. Balances(t) /\ t.supply = token[r].supply + amount
        BY <2>1, <2>2
    <2>4. u.supply = t.supply
        BY <2>1, <2>3, VaultFlows
    <2> QED BY <1>0, <2>1, <2>3, <2>4, VaultGains
<1>3. ASSUME NEW amount, WithdrawObligationCollateral(o, r, amount) PROVE KeepsLiquidity(q)
    <2>1. PICK x : SetToken(r, Transfer(token[r], "ctoken_supply", "ctoken_wallet", x))
        BY <1>3 DEF WithdrawObligationCollateral
    <2>2. Transfer(token[r], "ctoken_supply", "ctoken_wallet", x).supply = token[r].supply + 0
        BY <1>0, VaultFlows
    <2> QED BY <1>0, <2>1, <2>2, VaultGains
<1>4. ASSUME NEW amount \in Nat, WithdrawObligationCollateralAndRedeem(o, r, amount)
      PROVE  KeepsLiquidity(q)
    <2>1. PICK cap \in OutflowCollateral(o, r) : \E x \in WithdrawAmount(o, r, amount, cap) :
             /\ CanRedeem(reserve[r], x) /\ RateLimited(r, reserve[r], x)
             /\ SetToken(r, Redeemed(Transfer(token[r], "ctoken_supply", "ctoken_wallet", x),
                                     reserve[r], x))
        BY <1>4 DEF WithdrawObligationCollateralAndRedeem
    <2>2. PICK x \in WithdrawAmount(o, r, amount, cap) :
             /\ CanRedeem(reserve[r], x) /\ RateLimited(r, reserve[r], x)
             /\ SetToken(r, Redeemed(Transfer(token[r], "ctoken_supply", "ctoken_wallet", x),
                                     reserve[r], x))
        BY <2>1
    <2>3. x \in Nat
        BY <1>0, <1>4, WithdrawnNat DEF WithdrawObligationCollateralAndRedeem
    <2>4. PICK t : t = Transfer(token[r], "ctoken_supply", "ctoken_wallet", x)
        OBVIOUS
    <2>5. Balances(t) /\ t.supply = token[r].supply
        BY <1>0, <2>4, TransferFields DEF TokenFields
    <2> QED BY <2>2, <2>3, <2>4, <2>5, <1>0, RedemptionKeeps
<1>5. ASSUME NEW amount \in Nat, NEW host, BorrowObligationLiquidity(o, r, amount, host)
      PROVE  KeepsLiquidity(q)
    <2>1. PICK t : SetToken(r, t)
        BY <1>5 DEF BorrowObligationLiquidity
    <2>2. q # r
        <3>1. PICK x \in Nat : RateLimiterAllows(reserve_limiter[r], slot, x) /\ x # 0
            BY <1>0, <1>5, BorrowCharges
        <3>2. slot \in Nat /\ reserve_limiter[r] \in RateLimiterRec /\ OnGrid(reserve_limiter[r])
            BY <1>0, MarketAssumption DEF LimitersInv, TypeOK
        <3> QED BY <3>1, <3>2, StoppedLetsNothingOut DEF Stopped
    <2>3. token'[q] = token[q]
        BY <1>0, <2>1, <2>2 DEF SetToken, TypeOK
    <2> QED BY <1>0, <2>3, TokenBalances DEF KeepsLiquidity
<1>6. ASSUME NEW amount \in Nat, RepayObligationLiquidity(o, r, amount) PROVE KeepsLiquidity(q)
    <2>1. PICK i, b : i = BorrowIndex(obligation[o], r) /\ b = obligation[o].borrows[i]
        OBVIOUS
    <2>2. PICK res, terms :
             /\ i # 0 /\ res \in WithInterest(r)
             /\ terms = CalculateRepay(amount, AccrueBorrow(b, res.cumulative_borrow_rate_wads)
                                                   .borrowed_amount_wads)
             /\ SetToken(r, Transfer(token[r], "wallet", "supply", terms.repay_amount))
        BY <1>6, <2>1 DEF RepayObligationLiquidity
    <2>3. terms.settle_amount \in Nat
        BY <2>1, <2>2, RepaidNat
    <2>4. terms.repay_amount = TryCeil(terms.settle_amount)
        BY <2>2 DEF CalculateRepay
    <2>5. PICK y \in Nat : y = terms.repay_amount
        BY <2>3, <2>4, ConversionsNat
    <2>6. Transfer(token[r], "wallet", "supply", y).supply = token[r].supply + y
        BY <1>0, VaultFlows
    <2> QED BY <1>0, <2>2, <2>5, <2>6, VaultGains
<1>7. ASSUME NEW w \in Reserves, NEW amount \in Nat, NEW liquidator,
             LiquidateObligation(o, r, w, amount, liquidator)
      PROVE  KeepsLiquidity(q)
    BY <1>0, <1>7, LiquidateKeeps
<1>8. ASSUME NEW amount, ForgiveDebt(o, r, amount) PROVE KeepsLiquidity(q)
    <2>1. token' = token
        BY <1>8 DEF ForgiveDebt
    <2> QED BY <1>0, <2>1, TokensSame
<1>9. UNION {DepositAmounts, WithdrawAmounts, BorrowAmounts, RepayAmounts, LiquidateAmounts}
         \subseteq Nat
    BY MarketAssumption, WadAssumption DEF U64
<1> QED BY <1>1, <1>2, <1>3, <1>4, <1>5, <1>6, <1>7, <1>8, <1>9 DEF PositionStep

\* Every step leaves a stopped reserve its liquidity.
LEMMA NextKeeps ==
    ASSUME LimitersInv, RatesInv, [Next]_vars, NEW q \in live, Stopped(q)
    PROVE  KeepsLiquidity(q)
<1>0. TypeOK /\ q \in Reserves
    BY DEF LimitersInv, TypeOK
<1>1. ASSUME token' = token PROVE KeepsLiquidity(q)
    BY <1>0, <1>1, TokensSame
<1>2. UNCHANGED vars \/ Tick => token' = token
    BY DEF vars, Tick
<1>3. FlashRepayReserveLiquidity => flash' # flash
    BY DEF FlashRepayReserveLiquidity
<1>4. ASSUME NEW o, InitObligation(o) \/ RefreshObligation(o) PROVE token' = token
    BY <1>4 DEF InitObligation, RefreshObligation
<1>5. ASSUME NEW r, NEW signer, ConfigStep(r, signer) PROVE token' = token
    BY <1>5 DEF ConfigStep, UpdateReserveConfigByOwner, UpdateReserveConfigByRiskAuthority,
                UpdateReserveConfigBySolend
<1>6. ASSUME NEW owner, NEW limiter, NEW liquidator, NEW risk,
             SetLendingMarketOwnerAndConfig(owner, limiter, liquidator, risk)
      PROVE  token' = token
    BY <1>6 DEF SetLendingMarketOwnerAndConfig
<1>7. ASSUME flash' # flash PROVE KeepsLiquidity(q)
    BY <1>7 DEF KeepsLiquidity
<1> QED BY <1>1, <1>2, <1>3, <1>4, <1>5, <1>6, <1>7, ReserveStepKeeps, PositionStepKeeps DEF Next

(***************************************************************************)
(* StoppedReserveKeepsLiquidity holds of every behaviour: once the limiter *)
(* of a reserve allows no outflow, redeeming and borrowing take nothing    *)
(* from its vault, in whatever slot and however the limiter got there; a   *)
(* flash loan, collected fees and a liquidation, which pays a fee, still   *)
(* may.  RateLimiter::update subtracts the start of its window from the    *)
(* slot: that the start is a multiple of the window's length, not after    *)
(* the slot, is the part of the invariant about the limiters.              *)
(***************************************************************************)
THEOREM StoppedMeansStopped == Spec => StoppedReserveKeepsLiquidity
<1>1. Init => RatesInv
    BY InitMatchInv DEF MatchInv
<1>2. Init => LimitersInv
    <2> SUFFICES ASSUME Init PROVE LimitersInv
        OBVIOUS
    <2>1. TypeOK
        BY InitTyped
    <2>2. \A r \in Reserves : reserve_limiter[r] = RateLimiterNew(DisabledLimiter, 0)
        BY DEF Init
    <2>3. RateLimiterNew(DisabledLimiter, 0).config.window_duration = 0
        BY DEF RateLimiterNew, DisabledLimiter
    <2> QED BY <2>1, <2>2, <2>3 DEF LimitersInv, OnGrid
<1>3. RatesInv /\ LimitersInv /\ [Next]_vars
         => [\A r \in live : Stopped(r) => \/ token'[r].supply >= token[r].supply
                                           \/ flash' # flash
                                           \/ token'[r].fee_receiver > token[r].fee_receiver]_vars
    BY NextKeeps DEF KeepsLiquidity
<1>4. Spec => []RatesInv
    BY <1>1, NextRatesInv, PTL DEF Spec
<1>5. Spec => []LimitersInv
    BY <1>2, NextLimitersInv, PTL DEF Spec
<1> QED BY <1>3, <1>4, <1>5, PTL DEF Spec, StoppedReserveKeepsLiquidity

-----------------------------------------------------------------------------
(* The copies of a client off the chain.                                   *)

\* obligations hold collateral of live reserves
DepositsLive == \A o \in Obligations : DepositReserves(obligation[o]) \subseteq live

\* The reserves an obligation holds collateral of, after a change of its lists.
LEMMA ChangeHolds ==
    ASSUME NEW s \in ObligationRec, NEW t \in ObligationRec, NEW r
    PROVE  /\ Shrinks(s, t) \/ AddsBorrow(s, t, r)
                 => DepositReserves(t) \subseteq DepositReserves(s)
           /\ AddsDeposit(s, t, r) => DepositReserves(t) \subseteq DepositReserves(s) \cup {r}
<1>1. PICK d \in Nat, e \in Nat : d = Len(s.deposits) /\ e = Len(t.deposits)
    BY DEF ObligationRec
<1>2. DOMAIN s.deposits = 1..d /\ DOMAIN t.deposits = 1..e
    BY <1>1 DEF ObligationRec
<1>3. /\ DepositReserves(s) = {DepositKeys(s.deposits)[i] : i \in 1..d}
      /\ DepositReserves(t) = {DepositKeys(t.deposits)[i] : i \in 1..e}
    BY <1>1, <1>2 DEF DepositReserves, DepositKeys
<1>4. ASSUME Shrinks(s, t) PROVE DepositReserves(t) \subseteq DepositReserves(s)
    <2>1. PICK m : Picks(m, d, DepositKeys(s.deposits), e, DepositKeys(t.deposits))
        BY <1>1, <1>4 DEF Shrinks, SubDeposits, SubKeys
    <2> QED BY <1>3, <2>1 DEF Picks
<1>5. ASSUME AddsBorrow(s, t, r) PROVE DepositReserves(t) \subseteq DepositReserves(s)
    BY <1>5 DEF AddsBorrow, DepositReserves
<1>6. ASSUME AddsDeposit(s, t, r) PROVE DepositReserves(t) \subseteq DepositReserves(s) \cup {r}
    <2>1. /\ e = d + 1 /\ DepositKeys(t.deposits)[d + 1] = r
          /\ \A k \in 1..d : DepositKeys(t.deposits)[k] = DepositKeys(s.deposits)[k]
        BY <1>1, <1>6 DEF AddsDeposit, Adds
    <2>2. \A k \in 1..e : k \in 1..d \/ k = d + 1
        BY <2>1
    <2> QED BY <1>3, <2>1, <2>2
<1> QED BY <1>4, <1>5, <1>6

\* No step makes an obligation name a reserve that is not there.
LEMMA NextDepositsLive ==
    ASSUME TypeOK, TypeOK', [Next]_vars, DepositsLive
    PROVE  DepositsLive'
<1>1. CASE UNCHANGED vars
    BY <1>1 DEF vars, DepositsLive
<1>2. CASE Next
    <2>1. ASSUME NEW o \in Obligations PROVE DepositReserves(obligation'[o]) \subseteq live'
        <3>1. PICK s \in ObligationRec, t \in ObligationRec : s = obligation[o] /\ t = obligation'[o]
            BY DEF TypeOK
        <3>2. DepositReserves(s) \subseteq live /\ live \subseteq live'
            BY <1>2, <3>1, LiveGrows DEF DepositsLive
        <3>3. CASE Untouched(o)
            BY <3>1, <3>2, <3>3 DEF Untouched
        <3>4. CASE Created(o)
            <4>1. t.deposits = <<>>
                BY <3>1, <3>4 DEF Created, NewObligation
            <4> QED BY <3>1, <4>1 DEF DepositReserves
        <3>5. CASE Revalued(o)
            <4>1. t = RefreshedObligation(s, reserve, config) /\ config \in [Reserves -> ReserveConfig]
                BY <3>1, <3>5 DEF Revalued, TypeOK
            <4>2. Shrinks(s, t)
                BY <4>1, RefreshShrinks DEF Shrinks
            <4> QED BY <3>1, <3>2, <4>2, ChangeHolds
        <3>6. CASE Moved(o)
            <4>1. PICK r \in Reserves :
                     Shrinks(s, t) \/ AddsBorrow(s, t, r) \/ (r \in live /\ AddsDeposit(s, t, r))
                BY <3>1, <3>6 DEF Moved, PositionChange
            <4>2. DepositReserves(t) \subseteq DepositReserves(s) \cup live
                BY <4>1, ChangeHolds
            <4> QED BY <3>1, <3>2, <4>2
        <3> QED BY <1>2, <3>3, <3>4, <3>5, <3>6, ObligationChange
    <2> QED BY <2>1 DEF DepositsLive
<1> QED BY <1>1, <1>2

\* the cumulative rate of the copy a of a reserve
RateOf(a) == a.reserve.cumulative_borrow_rate_wads

\* the copy b has a rate no lower than that of a
Ahead(a, b) == RateOf(b) \in Nat /\ RateOf(a) <= RateOf(b)

\* the copy a of a reserve is one the program may have had
Readable(a) ==
    /\ a.reserve \in ReserveRec /\ a.config \in ReserveConfig
    /\ CurveOrdered(a.config) /\ a.update.slot \in Int
    /\ {"config", "reserve", "update"} \subseteq DOMAIN a

\* Interest does not depend on the price, which a client may have replaced by any other.
LEMMA InterestKeepsCopy ==
    ASSUME NEW res \in ReserveRec, NEW cfg \in ReserveConfig, CurveOrdered(cfg), NEW p,
           NEW slots \in Nat,
           NEW t \in AccrueInterest(cfg, [res EXCEPT !.market_price = p], slots)
    PROVE  /\ t.cumulative_borrow_rate_wads \in Nat
           /\ res.cumulative_borrow_rate_wads <= t.cumulative_borrow_rate_wads
<1>1. PICK q : q = [res EXCEPT !.market_price = p]
    OBVIOUS
<1>2. /\ q.available_amount = res.available_amount
      /\ q.borrowed_amount_wads = res.borrowed_amount_wads
      /\ q.accumulated_protocol_fees_wads = res.accumulated_protocol_fees_wads
      /\ q.cumulative_borrow_rate_wads = res.cumulative_borrow_rate_wads
      /\ "cumulative_borrow_rate_wads" \in DOMAIN q
    BY <1>1 DEF ReserveRec
<1>3. res.cumulative_borrow_rate_wads \in Nat
    BY MovesKeepRate
<1>4. CASE slots = 0
    BY <1>1, <1>2, <1>3, <1>4 DEF AccrueInterest
<1>5. CASE slots # 0
    <2>1. TotalSupply(q) = TotalSupply(res)
        BY <1>2 DEF TotalSupply
    <2>2. UtilizationRate(q) = UtilizationRate(res)
        BY <1>2, <2>1 DEF UtilizationRate
    <2>3. CurrentBorrowRate(cfg, q) = CurrentBorrowRate(cfg, res)
        BY <2>2 DEF CurrentBorrowRate
    <2>4. t = CompoundInterest(cfg, q, slots) /\ TotalSupply(res) >= 0
        BY <1>1, <1>5, <2>1 DEF AccrueInterest, Result
    <2>5. PICK u : u = CompoundInterest(cfg, res, slots)
        OBVIOUS
    <2>6. u \in AccrueInterest(cfg, res, slots)
        BY <1>5, <2>4, <2>5 DEF AccrueInterest, Result
    <2>7. /\ u.cumulative_borrow_rate_wads \in Nat
          /\ res.cumulative_borrow_rate_wads <= u.cumulative_borrow_rate_wads
        BY <2>6, InterestGrows
    <2>8. PICK rate : /\ rate = TryPow(WAD + (CurrentBorrowRate(cfg, res) \div SLOTS_PER_YEAR), slots)
                      /\ rate = TryPow(WAD + (CurrentBorrowRate(cfg, q) \div SLOTS_PER_YEAR), slots)
        BY <2>3
    <2>9. t.cumulative_borrow_rate_wads = DecMul(q.cumulative_borrow_rate_wads, rate)
        <3>1. PICK y, z : t = [q EXCEPT !.cumulative_borrow_rate_wads = DecMul(@, rate),
                                        !.accumulated_protocol_fees_wads = y,
                                        !.borrowed_amount_wads = z]
            BY <2>4, <2>8, Zenon DEF CompoundInterest
        <3> QED BY <1>2, <3>1
    <2>10. u.cumulative_borrow_rate_wads = DecMul(res.cumulative_borrow_rate_wads, rate)
        <3>1. PICK y, z : u = [res EXCEPT !.cumulative_borrow_rate_wads = DecMul(@, rate),
                                          !.accumulated_protocol_fees_wads = y,
                                          !.borrowed_amount_wads = z]
            BY <2>5, <2>8, Zenon DEF CompoundInterest
        <3> QED BY <3>1 DEF ReserveRec
    <2> QED BY <1>2, <2>7, <2>9, <2>10
<1> QED BY <1>4, <1>5

\* A copy with any price in it, brought to any slot, is not behind the copy it was.
LEMMA InterestCopy ==
    ASSUME NEW a, Readable(a), NEW s \in Int, NEW p, NEW c,
           c.config = a.config, c.update = a.update, {"reserve", "update"} \subseteq DOMAIN c,
           c.reserve = [a.reserve EXCEPT !.market_price = p]
    PROVE  Ahead(a, OffchainRefreshReserveInterest(c, s))
<1>1. PICK accrued : accrued = IF s < c.update.slot THEN {}
                               ELSE AccrueInterest(c.config, c.reserve, s - c.update.slot)
    OBVIOUS
<1>2. PICK d : d = OffchainRefreshReserveInterest(c, s)
    OBVIOUS
<1>3. d = IF accrued = {} THEN c
          ELSE [c EXCEPT !.reserve = CHOOSE res \in accrued : TRUE,
                         !.update = [slot |-> s, stale |-> FALSE]]
    BY <1>1, <1>2, Zenon DEF OffchainRefreshReserveInterest
<1>4. a.reserve \in ReserveRec /\ RateOf(a) \in Nat
    BY MovesKeepRate DEF Readable, RateOf
<1>5. CASE accrued = {}
    <2>1. c.reserve.cumulative_borrow_rate_wads = a.reserve.cumulative_borrow_rate_wads
        BY <1>4 DEF ReserveRec
    <2>2. d = c
        BY <1>3, <1>5
    <2>3. RateOf(d) = RateOf(a)
        BY <2>1, <2>2 DEF RateOf
    <2> QED BY <1>2, <1>4, <2>3 DEF Ahead
<1>6. CASE accrued # {}
    <2>1. PICK t : t \in accrued /\ t = CHOOSE res \in accrued : TRUE
        BY <1>6
    <2>2. PICK slots \in Nat : slots = s - c.update.slot
        BY <1>1, <1>6 DEF Readable
    <2>3. t \in AccrueInterest(a.config, [a.reserve EXCEPT !.market_price = p], slots)
        BY <1>1, <1>6, <2>1, <2>2
    <2>4. /\ a.reserve.cumulative_borrow_rate_wads <= t.cumulative_borrow_rate_wads
          /\ t.cumulative_borrow_rate_wads \in Nat
        BY <2>3, InterestKeepsCopy DEF Readable
    <2>5. d.reserve = t
        BY <1>3, <1>6, <2>1
    <2> QED BY <1>2, <2>4, <2>5 DEF Ahead, RateOf
<1> QED BY <1>5, <1>6

\* Neither of the two ways to refresh a copy leaves it behind the copy it was.
LEMMA RefreshedCopy ==
    ASSUME NEW a, Readable(a), NEW s \in Int
    PROVE  /\ Ahead(a, OffchainRefreshReserveInterest(a, s))
           /\ \A prices : Ahead(a, OffchainRefreshReserve(a, s, prices))
<1>1. a.reserve \in ReserveRec /\ RateOf(a) \in Nat
    BY MovesKeepRate DEF Readable, RateOf
<1>2. a.reserve = [a.reserve EXCEPT !.market_price = a.reserve.market_price]
    BY <1>1 DEF ReserveRec
<1>3. {"reserve", "update"} \subseteq DOMAIN a
    BY DEF Readable
<1>4. Ahead(a, OffchainRefreshReserveInterest(a, s))
    BY <1>2, <1>3, InterestCopy
<1>5. ASSUME NEW prices PROVE Ahead(a, OffchainRefreshReserve(a, s, prices))
    <2>1. PICK found : found = OffchainPrice(a, prices)
        OBVIOUS
    <2>2. PICK c : c = [a EXCEPT !.reserve.market_price = CHOOSE p \in found : TRUE]
        OBVIOUS
    <2>3. OffchainRefreshReserve(a, s, prices)
             = IF found = {} THEN a ELSE OffchainRefreshReserveInterest(c, s)
        <3>1. OffchainRefreshReserve(a, s, prices)
                 = IF OffchainPrice(a, prices) = {} THEN a
                   ELSE OffchainRefreshReserveInterest(
                            [a EXCEPT !.reserve.market_price =
                                CHOOSE p \in OffchainPrice(a, prices) : TRUE], s)
            BY Zenon DEF OffchainRefreshReserve
        <3> QED BY <2>1, <2>2, <3>1
    <2>4. /\ c.config = a.config /\ c.update = a.update /\ {"reserve", "update"} \subseteq DOMAIN c
          /\ c.reserve = [a.reserve EXCEPT !.market_price = CHOOSE p \in found : TRUE]
        BY <2>2 DEF Readable
    <2>5. Ahead(a, OffchainRefreshReserveInterest(c, s))
        BY <2>4, InterestCopy
    <2>6. Ahead(a, a)
        BY <1>1 DEF Ahead
    <2> QED BY <2>3, <2>5, <2>6
<1> QED BY <1>4, <1>5

\* the copies have every reserve that ob names, none behind the rate of a debt of ob
Serves(reserves, ob) ==
    /\ DepositReserves(ob) \cup BorrowReserves(ob) \subseteq DOMAIN reserves
    /\ \A i \in DOMAIN ob.borrows :
          /\ ob.borrows[i].borrow_reserve \in BorrowReserves(ob)
          /\ ob.borrows[i].cumulative_borrow_rate_wads \in Nat
          /\ RateOf(reserves[ob.borrows[i].borrow_reserve]) \in Nat
          /\ ob.borrows[i].cumulative_borrow_rate_wads
                <= RateOf(reserves[ob.borrows[i].borrow_reserve])

ViewInv ==
    /\ DebtRateInv /\ DepositsLive
    /\ view.phase = "read" => \A r \in DOMAIN view.reserves : Readable(view.reserves[r])
    /\ view.phase \in {"read", "refreshed"} =>
          \A o \in DOMAIN view.obligations : Serves(view.reserves, view.obligations[o])
    /\ RefreshNeverPanics

\* what the exchange rates of the refreshed copies must be for the deposits to be valued
ExchangeRatesUsable ==
    view.phase = "refreshed" =>
        \A o \in DOMAIN view.obligations :
            \A r \in DepositReserves(view.obligations[o]) :
                HasExchangeRate(view.reserves[r].reserve)

\* The copy of a live reserve.
LEMMA ReadReadable ==
    ASSUME DebtRateInv, NEW r \in live
    PROVE  Readable(ReserveAccount(r)) /\ RateOf(ReserveAccount(r)) \in Nat
<1>1. TypeOK /\ PriceInv /\ \A q \in Reserves : CurveOrdered(config[q])
    BY DEF DebtRateInv, CurvesInv, PositionsInv
<1>2. r \in Reserves /\ reserve[r] \in ReserveRec /\ config[r] \in ReserveConfig
    BY <1>1 DEF TypeOK
<1>3. reserve_update[r].slot \in Int
    BY <1>1, <1>2 DEF PriceInv, PastUpdate
<1>4. Readable(ReserveAccount(r))
    BY <1>1, <1>2, <1>3 DEF Readable, ReserveAccount
<1> QED BY <1>2, <1>4, MovesKeepRate DEF RateOf, ReserveAccount

\* One answer of get_program_accounts goes together.
LEMMA ReadServes ==
    ASSUME DebtRateInv, DepositsLive, NEW o \in Obligations
    PROVE  Serves([r \in live |-> ReserveAccount(r)], obligation[o])
<1>1. TypeOK
    BY DEF DebtRateInv, CurvesInv, PositionsInv
<1>2. \A r \in live : RateOf(ReserveAccount(r)) \in Nat
    BY ReadReadable
<1>3. PICK ob \in ObligationRec : ob = obligation[o]
    BY <1>1 DEF TypeOK
<1>4. DepositReserves(ob) \subseteq live /\ BorrowReserves(ob) \subseteq live /\ Behind(ob, reserve)
    BY <1>3 DEF DepositsLive, DebtRateInv, CurvesInv, PositionsInv
<1>5. ASSUME NEW i \in DOMAIN ob.borrows
      PROVE  /\ ob.borrows[i].borrow_reserve \in BorrowReserves(ob)
             /\ ob.borrows[i].cumulative_borrow_rate_wads \in Nat
             /\ ob.borrows[i].cumulative_borrow_rate_wads
                   <= RateOf(ReserveAccount(ob.borrows[i].borrow_reserve))
    <2>1. PICK s : s = ob.borrows /\ s \in Seq(ObligationLiquidity)
        BY <1>3 DEF ObligationRec
    <2>2. i \in 1..Len(s) /\ s[i] \in ObligationLiquidity
        BY <2>1
    <2>3. s[i].cumulative_borrow_rate_wads \in Nat
        BY <2>2, WadAssumption DEF ObligationLiquidity, U128
    <2>4. s[i].cumulative_borrow_rate_wads
             <= reserve[s[i].borrow_reserve].cumulative_borrow_rate_wads
        BY <1>4, <2>1, <2>2 DEF Behind
    <2>5. s[i].borrow_reserve \in BorrowReserves(ob)
        BY <2>1 DEF BorrowReserves
    <2> QED BY <2>1, <2>3, <2>4, <2>5 DEF RateOf, ReserveAccount
<1> QED BY <1>2, <1>3, <1>4, <1>5 DEF Serves

\* Copies that are all brought ahead still serve an obligation.
LEMMA AheadServes ==
    ASSUME NEW copies, NEW newer, NEW ob, Serves(copies, ob), DOMAIN newer = DOMAIN copies,
           \A r \in DOMAIN copies : Ahead(copies[r], newer[r])
    PROVE  Serves(newer, ob)
<1>1. ASSUME NEW i \in DOMAIN ob.borrows
      PROVE  /\ RateOf(newer[ob.borrows[i].borrow_reserve]) \in Nat
             /\ ob.borrows[i].cumulative_borrow_rate_wads
                   <= RateOf(newer[ob.borrows[i].borrow_reserve])
    <2>1. PICK r, x : r = ob.borrows[i].borrow_reserve /\ x = ob.borrows[i].cumulative_borrow_rate_wads
        OBVIOUS
    <2>2. r \in DOMAIN copies /\ x \in Nat /\ RateOf(copies[r]) \in Nat /\ x <= RateOf(copies[r])
        BY <2>1 DEF Serves
    <2>3. RateOf(newer[r]) \in Nat /\ RateOf(copies[r]) <= RateOf(newer[r])
        BY <2>2 DEF Ahead
    <2> QED BY <2>1, <2>2, <2>3
<1> QED BY <1>1 DEF Serves

\* Copies that serve an obligation, and whose exchange rates are usable, can value it.
LEMMA ServesValues ==
    ASSUME NEW copies, NEW ob, Serves(copies, ob),
           \A r \in DepositReserves(ob) : HasExchangeRate(copies[r].reserve)
    PROVE  OffchainCanValue(ob, copies)
<1>1. ASSUME NEW i \in DOMAIN ob.borrows
      PROVE  CanAccrue(ob.borrows[i],
                 copies[ob.borrows[i].borrow_reserve].reserve.cumulative_borrow_rate_wads)
    <2>1. PICK x, y : /\ x = ob.borrows[i].cumulative_borrow_rate_wads
                      /\ y = copies[ob.borrows[i].borrow_reserve].reserve.cumulative_borrow_rate_wads
        OBVIOUS
    <2>2. x \in Nat /\ y \in Nat /\ x <= y
        BY <2>1 DEF Serves, RateOf
    <2> QED BY <2>1, <2>2 DEF CanAccrue
<1> QED BY <1>1 DEF Serves, OffchainCanValue

\* Reading, refreshing and valuing keep the copies together, and none of it panics.
LEMMA NextViewInv ==
    ASSUME ViewInv, ExchangeRatesUsable, [ViewNext]_viewVars
    PROVE  ViewInv'
<1>1. [Next]_vars
    <2>1. Tick => Next
        BY DEF Next
    <2> QED BY <2>1 DEF ViewNext, MarketStep, GetSolendAccountsAsMap, Refreshed, RefreshInterest,
                        RefreshPrices, RefreshObligations, Forget, viewVars
<1>2. DebtRateInv'
    BY <1>1, NextDebtRateInv DEF ViewInv
<1>3. DepositsLive'
    BY <1>1, <1>2, NextDepositsLive DEF ViewInv, DebtRateInv, CurvesInv, PositionsInv
<1>4. CASE UNCHANGED view
    BY <1>2, <1>3, <1>4 DEF ViewInv, RefreshNeverPanics
<1>5. CASE GetSolendAccountsAsMap
    <2>1. /\ view'.phase = "read"
          /\ view'.reserves = [r \in live |-> ReserveAccount(r)]
          /\ view'.obligations = [o \in {o \in open : obligation[o].borrows # <<>>} |-> obligation[o]]
        BY <1>5 DEF GetSolendAccountsAsMap
    <2>2. open \subseteq Obligations
        BY DEF ViewInv, DebtRateInv, CurvesInv, PositionsInv, TypeOK
    <2>3. ASSUME NEW o \in DOMAIN view'.obligations PROVE Serves(view'.reserves, view'.obligations[o])
        <3>1. o \in Obligations /\ view'.obligations[o] = obligation[o]
            BY <2>1, <2>2
        <3> QED BY <2>1, <3>1, ReadServes DEF ViewInv
    <2>4. ASSUME NEW r \in DOMAIN view'.reserves PROVE Readable(view'.reserves[r])
        <3>1. r \in live /\ view'.reserves[r] = ReserveAccount(r)
            BY <2>1
        <3> QED BY <3>1, ReadReadable DEF ViewInv
    <2> QED BY <1>2, <1>3, <2>1, <2>3, <2>4 DEF ViewInv, RefreshNeverPanics
<1>6. ASSUME view.phase = "read", view'.phase = "refreshed", view'.obligations = view.obligations,
             DOMAIN view'.reserves = DOMAIN view.reserves,
             \A r \in DOMAIN view.reserves : Ahead(view.reserves[r], view'.reserves[r])
      PROVE  ViewInv'
    <2>1. \A o \in DOMAIN view.obligations : Serves(view.reserves, view.obligations[o])
        BY <1>6 DEF ViewInv
    <2>2. \A o \in DOMAIN view'.obligations : Serves(view'.reserves, view'.obligations[o])
        BY <1>6, <2>1, AheadServes
    <2> QED BY <1>2, <1>3, <1>6, <2>2 DEF ViewInv, RefreshNeverPanics
<1>7. slot \in Int
    BY DEF ViewInv, DebtRateInv, CurvesInv, PriceInv
<1>8. ASSUME NEW s \in 1..slot, RefreshInterest(s) PROVE ViewInv'
    <2>1. /\ view.phase = "read" /\ view'.phase = "refreshed" /\ view'.obligations = view.obligations
          /\ view'.reserves = [r \in DOMAIN view.reserves |->
                                  OffchainRefreshReserveInterest(view.reserves[r], s)]
        BY <1>8 DEF RefreshInterest, Refreshed
    <2>2. ASSUME NEW r \in DOMAIN view.reserves PROVE Ahead(view.reserves[r], view'.reserves[r])
        <3>1. Readable(view.reserves[r]) /\ s \in Int
            BY <1>7, <2>1 DEF ViewInv
        <3>2. Ahead(view.reserves[r], OffchainRefreshReserveInterest(view.reserves[r], s))
            BY <3>1, RefreshedCopy
        <3> QED BY <2>1, <3>2
    <2>3. DOMAIN view'.reserves = DOMAIN view.reserves
        BY <2>1
    <2> QED BY <1>6, <2>1, <2>2, <2>3
<1>9. ASSUME NEW s \in 1..slot, NEW prices, RefreshPrices(s, prices) PROVE ViewInv'
    <2>1. /\ view.phase = "read" /\ view'.phase = "refreshed" /\ view'.obligations = view.obligations
          /\ view'.reserves = [r \in DOMAIN view.reserves |->
                                  OffchainRefreshReserve(view.reserves[r], s, prices)]
        BY <1>9 DEF RefreshPrices, Refreshed
    <2>2. ASSUME NEW r \in DOMAIN view.reserves PROVE Ahead(view.reserves[r], view'.reserves[r])
        <3>1. Readable(view.reserves[r]) /\ s \in Int
            BY <1>7, <2>1 DEF ViewInv
        <3>2. Ahead(view.reserves[r], OffchainRefreshReserve(view.reserves[r], s, prices))
            BY <3>1, RefreshedCopy
        <3> QED BY <2>1, <3>2
    <2>3. DOMAIN view'.reserves = DOMAIN view.reserves
        BY <2>1
    <2> QED BY <1>6, <2>1, <2>2, <2>3
<1>10. CASE RefreshObligations
    <2>1. view.phase = "refreshed"
        BY <1>10 DEF RefreshObligations
    <2>2. ASSUME NEW o \in DOMAIN view.obligations
          PROVE  OffchainCanValue(view.obligations[o], view.reserves)
        <3>1. /\ Serves(view.reserves, view.obligations[o])
              /\ \A r \in DepositReserves(view.obligations[o]) :
                    HasExchangeRate(view.reserves[r].reserve)
            BY <2>1 DEF ViewInv, ExchangeRatesUsable
        <3> QED BY <3>1, ServesValues
    <2>3. PICK obs : view' = [view EXCEPT !.phase = "valued", !.obligations = obs]
        BY <1>10, <2>2, Zenon DEF RefreshObligations
    <2>4. view'.phase = "valued"
        BY <2>1, <2>3 DEF ViewInv
    <2> QED BY <1>2, <1>3, <2>4 DEF ViewInv, RefreshNeverPanics
<1>11. CASE Forget
    <2>1. view'.phase = "none"
        BY <1>11 DEF Forget, NoView
    <2> QED BY <1>2, <1>3, <2>1 DEF ViewInv, RefreshNeverPanics
<1> QED BY <1>4, <1>5, <1>8, <1>9, <1>10, <1>11 DEF ViewNext, MarketStep, viewVars

(***************************************************************************)
(* RefreshNeverPanics holds of every behaviour in which the exchange rates *)
(* of the refreshed copies can be computed: whatever happened on chain     *)
(* before the accounts were read, in whatever slot the client is told and  *)
(* with whatever prices, every reserve that an obligation names is among   *)
(* the copies and none is behind the rate of a debt, so the unwrap in      *)
(* offchain_refresh_obligation and the lookups of examples/jito.rs succeed. *)
(***************************************************************************)
THEOREM ViewNeverPanics == ViewSpec /\ []ExchangeRatesUsable => []RefreshNeverPanics
<1>1. ViewInit => ViewInv
    <2> SUFFICES ASSUME ViewInit PROVE ViewInv
        OBVIOUS
    <2>1. Init /\ view.phase = "none"
        BY DEF ViewInit, NoView
    <2>2. DebtRateInv
        BY <2>1, InitDebtRateInv
    <2>3. \A o \in Obligations : obligation[o] = NewObligation
        BY <2>1 DEF Init
    <2>4. NewObligation.deposits = <<>>
        BY DEF NewObligation
    <2>5. DepositsLive
        BY <2>3, <2>4 DEF DepositsLive, DepositReserves
    <2> QED BY <2>1, <2>2, <2>5 DEF ViewInv, RefreshNeverPanics
<1>2. ViewInv => RefreshNeverPanics
    BY DEF ViewInv
<1>3. ViewInv /\ ExchangeRatesUsable /\ [ViewNext]_viewVars => ViewInv'
    BY NextViewInv
<1> QED BY <1>1, <1>2, <1>3, PTL DEF ViewSpec
=============================================================================
