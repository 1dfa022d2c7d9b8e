-------------------------- MODULE InstructionCodec --------------------------
(***************************************************************************)
(* The wire format of the program's instructions (sdk/src/instruction.rs). *)
(* `pack` and `unpack` are two hand-written lists of fields that have to   *)
(* stay in step: here each is a definition of its own, `PackFields` and    *)
(* `UnpackFields`, and one exchange takes an instruction through `pack`, a *)
(* transport that may cut, lengthen or alter the bytes, and `unpack`.      *)
(*                                                                         *)
(* Widths are scaled (a u64 is 2 bytes instead of 8, a key 3 instead of    *)
(* 32) and a byte has Base values; the lists of fields, their order, their *)
(* types and what each reader does with too few bytes are the code's.      *)
(***************************************************************************)
EXTENDS Naturals, Sequences, SequencesExt

CONSTANTS Base,      \* the number of values of a byte
          Samples    \* the instructions clients send

\* what the constant has to be
BaseAssumption == Base \in Nat /\ Base > 2

VARIABLES sent,    \* the instruction a client packs, or NoInstruction
          data,    \* the instruction's bytes on their way to the program
          fault,   \* what the transport did to them: none, cut, longer, altered
          result   \* what `unpack` returns: waiting, error, panic or an instruction

vars == <<sent, data, fault, result>>

Byte == 0 .. Base - 1
Width == [u8 |-> 1, u64 |-> 2, pubkey |-> 3, bytes32 |-> 3, reserve_type |-> 1]

NoInstruction == [ix |-> "none"]

----------------------------------------------------------------------------
(* Values and bytes. *)

\* to_le_bytes: the w bytes of v, the least significant first.
ToBytes(v, w) == [i \in 1 .. w |-> (v \div (Base ^ (i - 1))) % Base]

\* from_le_bytes.
FromBytes(bytes) ==
  LET from[i \in 1 .. Len(bytes) + 1] ==
        IF i > Len(bytes) THEN 0 ELSE bytes[i] + Base * from[i + 1]
  IN  from[1]

U8(names) == [i \in DOMAIN names |-> <<names[i], "u8">>]
U64(names) == [i \in DOMAIN names |-> <<names[i], "u64">>]
Key(names) == [i \in DOMAIN names |-> <<names[i], "pubkey">>]

----------------------------------------------------------------------------
(* pack *)

Tag ==
  [InitLendingMarket |-> 0, SetLendingMarketOwnerAndConfig |-> 1, InitReserve |-> 2,
   RefreshReserve |-> 3, DepositReserveLiquidity |-> 4, RedeemReserveCollateral |-> 5,
   InitObligation |-> 6, RefreshObligation |-> 7, DepositObligationCollateral |-> 8,
   WithdrawObligationCollateral |-> 9, BorrowObligationLiquidity |-> 10,
   RepayObligationLiquidity |-> 11, LiquidateObligation |-> 12, FlashLoan |-> 13,
   DepositReserveLiquidityAndObligationCollateral |-> 14,
   WithdrawObligationCollateralAndRedeemReserveCollateral |-> 15,
   UpdateReserveConfig |-> 16, LiquidateObligationAndRedeemReserveCollateral |-> 17,
   RedeemFees |-> 18, FlashBorrowReserveLiquidity |-> 19,
   FlashRepayReserveLiquidity |-> 20, ForgiveDebt |-> 21, UpdateMarketMetadata |-> 22]

Instructions == DOMAIN Tag

\* The reserve configuration as InitReserve and UpdateReserveConfig pack it.
PackedConfig ==
  U8(<<"optimal_utilization_rate", "max_utilization_rate", "loan_to_value_ratio",
       "liquidation_bonus", "liquidation_threshold", "min_borrow_rate",
       "optimal_borrow_rate", "max_borrow_rate">>)
    \o U64(<<"super_max_borrow_rate", "borrow_fee_wad", "flash_loan_fee_wad">>)
    \o U8(<<"host_fee_percentage">>) \o U64(<<"deposit_limit", "borrow_limit">>)
    \o Key(<<"fee_receiver">>) \o U8(<<"protocol_liquidation_fee", "protocol_take_rate">>)
    \o U64(<<"added_borrow_weight_bps">>) \o << <<"reserve_type", "reserve_type">> >>
    \o U8(<<"max_liquidation_bonus", "max_liquidation_threshold">>)

\* The fields `pack` writes after the tag; an option is a byte 0, or 1 and the key.
PackFields(ix) ==
  CASE ix = "InitLendingMarket" -> Key(<<"owner">>) \o << <<"quote_currency", "bytes32">> >>
    [] ix = "SetLendingMarketOwnerAndConfig" ->
         Key(<<"new_owner">>) \o U64(<<"window_duration", "max_outflow">>)
           \o << <<"whitelisted_liquidator", "option">> >> \o Key(<<"risk_authority">>)
    [] ix = "InitReserve" -> U64(<<"liquidity_amount">>) \o PackedConfig
    [] ix = "UpdateReserveConfig" -> PackedConfig \o U64(<<"window_duration", "max_outflow">>)
    [] ix = "FlashRepayReserveLiquidity" ->
         U64(<<"liquidity_amount">>) \o U8(<<"borrow_instruction_index">>)
    [] ix \in {"DepositReserveLiquidity", "BorrowObligationLiquidity",
               "RepayObligationLiquidity", "LiquidateObligation",
               "DepositReserveLiquidityAndObligationCollateral",
               "LiquidateObligationAndRedeemReserveCollateral",
               "FlashBorrowReserveLiquidity", "ForgiveDebt"} -> U64(<<"liquidity_amount">>)
    [] ix \in {"RedeemReserveCollateral", "DepositObligationCollateral",
               "WithdrawObligationCollateral",
               "WithdrawObligationCollateralAndRedeemReserveCollateral"} ->
         U64(<<"collateral_amount">>)
    [] ix = "FlashLoan" -> U64(<<"amount">>)
    [] OTHER -> << >>

\* One field. An option is the sequence of its values: << >> or <<key>>.
PackField(f, v) ==
  IF f[2] = "option"
    THEN IF v = << >> THEN <<0>> ELSE <<1>> \o ToBytes(v[1], Width.pubkey)
    ELSE ToBytes(v, Width[f[2]])

PackAll(list, fields) ==
  LET upTo[k \in 0 .. Len(list)] ==
        IF k = 0 THEN << >> ELSE upTo[k - 1] \o PackField(list[k], fields[list[k][1]])
  IN  upTo[Len(list)]

\* pack. UpdateMarketMetadata packs to nothing: its builder writes the bytes itself.
Pack(i) ==
  IF i.ix = "UpdateMarketMetadata"
    THEN << >>
    ELSE <<Tag[i.ix]>> \o PackAll(PackFields(i.ix), i.fields)

\* update_market_metadata: the tag and the metadata's bytes, bump seed first.
MetadataFields == U8(<<"bump_seed">>) \o U64(<<"market_name", "market_description",
                     "market_image_url">>) \o Key(<<"lookup_tables">>) \o U8(<<"padding">>)

PackMetadata(i) ==
  <<Tag.UpdateMarketMetadata>> \o PackAll(MetadataFields, i.fields)

\* What a builder of the SDK puts into the instruction's data.
InstructionData(i) == IF i.ix = "UpdateMarketMetadata" THEN PackMetadata(i) ELSE Pack(i)

----------------------------------------------------------------------------
(* unpack *)

\* mutant: the two fields added last are read in the other order
UnpackedConfigSwapped ==
  [PackedConfig EXCEPT ![20] = PackedConfig[21], ![21] = PackedConfig[20]]

\* The reserve configuration as InitReserve and UpdateReserveConfig unpack it.
UnpackedConfig ==
  U8(<<"optimal_utilization_rate", "max_utilization_rate", "loan_to_value_ratio",
       "liquidation_bonus", "liquidation_threshold", "min_borrow_rate",
       "optimal_borrow_rate", "max_borrow_rate">>)
    \o U64(<<"super_max_borrow_rate", "borrow_fee_wad", "flash_loan_fee_wad">>)
    \o U8(<<"host_fee_percentage">>) \o U64(<<"deposit_limit", "borrow_limit">>)
    \o Key(<<"fee_receiver">>) \o U8(<<"protocol_liquidation_fee", "protocol_take_rate">>)
    \o U64(<<"added_borrow_weight_bps">>) \o << <<"reserve_type", "reserve_type">> >>
    \o U8(<<"max_liquidation_bonus", "max_liquidation_threshold">>)

UnpackFields(tag) ==
  CASE tag = 0 -> Key(<<"owner">>) \o << <<"quote_currency", "bytes32">> >>
    [] tag = 1 -> Key(<<"new_owner">>) \o U64(<<"window_duration", "max_outflow">>)
                    \o << <<"whitelisted_liquidator", "option">> >> \o Key(<<"risk_authority">>)
    [] tag = 2 -> U64(<<"liquidity_amount">>) \o UnpackedConfig
    [] tag \in {4, 10, 11, 12, 14, 17, 19, 21} -> U64(<<"liquidity_amount">>)
    [] tag \in {5, 8, 9, 15} -> U64(<<"collateral_amount">>)
    [] tag = 13 -> U64(<<"amount">>)
    [] tag = 16 -> UnpackedConfig \o U64(<<"window_duration", "max_outflow">>)
    [] tag = 20 -> U64(<<"liquidity_amount">>) \o U8(<<"borrow_instruction_index">>)
    [] OTHER -> << >>

Name(tag) == CHOOSE ix \in Instructions : Tag[ix] = tag

\* A reader's state: the bytes left, the fields read, and whether it failed.
Failed(r, how) == [r EXCEPT !.status = how]

\* unpack_u8, unpack_u64, unpack_bytes32 and unpack_pubkey.
Take(r, w, name) ==
  IF Len(r.rest) < w
    THEN Failed(r, "error")
    ELSE [r EXCEPT !.rest = SubSeq(@, w + 1, Len(@)),
                   !.fields = (name :> FromBytes(SubSeq(r.rest, 1, w))) @@ @]

\* mutant: any non-zero byte stands for a key that is present
TakeOptionLoose(r, name) ==
  LET flag == Take(r, Width.u8, "flag")
      key == Take(flag, Width.pubkey, "key")
  IN  IF flag.status # "ok" THEN flag
      ELSE IF flag.fields["flag"] = 0
        THEN [flag EXCEPT !.fields = (name :> << >>) @@ r.fields]
      ELSE IF key.status # "ok" THEN key
      ELSE [key EXCEPT !.fields = (name :> <<key.fields["key"]>>) @@ r.fields]

\* The optional liquidator: any byte but 0 and 1 is an error.
TakeOption(r, name) ==
  LET flag == Take(r, Width.u8, "flag")
      key == Take(flag, Width.pubkey, "key")
  IN  IF flag.status # "ok" THEN flag
      ELSE IF flag.fields["flag"] = 0
        THEN [flag EXCEPT !.fields = (name :> << >>) @@ r.fields]
      ELSE IF flag.fields["flag"] # 1 THEN Failed(r, "error")
      ELSE IF key.status # "ok" THEN key
      ELSE [key EXCEPT !.fields = (name :> <<key.fields["key"]>>) @@ r.fields]

\* One field of the list; a reader that has failed reads no more.
ReadField(r, f) ==
  IF r.status # "ok" THEN r
  ELSE IF f[2] = "option" THEN TakeOption(r, f[1])
  ELSE Take(r, Width[f[2]], f[1])

\* ReserveType::from_u8(asset_type).unwrap(), once every field has been read.
BadReserveType(fields) == "reserve_type" \in DOMAIN fields /\ fields["reserve_type"] \notin {0, 1}

Read(fields, bytes) ==
  LET after[k \in 0 .. Len(fields)] ==
        IF k = 0 THEN [rest |-> bytes, fields |-> << >>, status |-> "ok"]
        ELSE ReadField(after[k - 1], fields[k])
  IN  after[Len(fields)]

\* process_instruction: unpack, and for UpdateMarketMetadata new_from_bytes,
\* which wants exactly as many bytes as the structure has.
Unpack(bytes) ==
  IF bytes = << >> \/ Head(bytes) \notin {Tag[ix] : ix \in Instructions}
    THEN [ix |-> "error"]
    ELSE LET ix == Name(Head(bytes))
             metadata == ix = "UpdateMarketMetadata"
             r == Read(IF metadata THEN MetadataFields ELSE UnpackFields(Head(bytes)),
                       Tail(bytes))
         IN  IF r.status # "ok" \/ (metadata /\ r.rest # << >>) THEN [ix |-> "error"]
             ELSE IF BadReserveType(r.fields) THEN [ix |-> "panic"]
             ELSE [ix |-> ix, fields |-> r.fields]

----------------------------------------------------------------------------
(* The exchange. *)

Waiting == [ix |-> "waiting"]

Init ==
  /\ sent = NoInstruction
  /\ data = << >>
  /\ fault = "none"
  /\ result = Waiting

\* A client of the SDK builds the instruction.
Build ==
  /\ sent = NoInstruction
  /\ \E i \in Samples : sent' = i /\ data' = InstructionData(i)
  /\ UNCHANGED <<fault, result>>

InTransit == sent # NoInstruction /\ fault = "none" /\ result = Waiting

\* Bytes that did not come out of the SDK unharmed: another client's version of
\* the layout, a buffer cut short, padded, or with one byte of another value.
Cut ==
  /\ InTransit
  /\ \E n \in 0 .. Len(data) - 1 : data' = SubSeq(data, 1, n)
  /\ fault' = "cut"
  /\ UNCHANGED <<sent, result>>

Lengthen ==
  /\ InTransit
  /\ \E b \in Byte : data' = Append(data, b)
  /\ fault' = "longer"
  /\ UNCHANGED <<sent, result>>

Alter ==
  /\ InTransit
  /\ \E k \in DOMAIN data, b \in Byte : b # data[k] /\ data' = [data EXCEPT ![k] = b]
  /\ fault' = "altered"
  /\ UNCHANGED <<sent, result>>

\* The program decodes what arrived.
Receive ==
  /\ sent # NoInstruction
  /\ result = Waiting
  /\ result' = Unpack(data)
  /\ UNCHANGED <<sent, data, fault>>

Done == result # Waiting /\ UNCHANGED vars

Next == Build \/ Cut \/ Lengthen \/ Alter \/ Receive \/ Done

Spec == Init /\ [][Next]_vars

----------------------------------------------------------------------------
(* Properties *)

Decoded == result.ix \in Instructions

TypeOK ==
  /\ sent.ix \in Instructions \cup {"none"}
  /\ \A k \in DOMAIN data : data[k] \in IF k = 1 THEN 0 .. 22 ELSE Byte
  /\ fault \in {"none", "cut", "longer", "altered"}
  /\ result.ix \in {"waiting", "error", "panic"} \cup Instructions

\* What the SDK packs the program unpacks to the same instruction with every
\* field where it was put, the metadata its builder writes by hand included;
\* bytes behind the last field change nothing but for the metadata, whose
\* reader wants the exact length.  A buffer cut anywhere is refused: no prefix
\* of an instruction is taken for that instruction with other values, or for
\* another one.
DecodesWhatWasSent ==
  /\ fault = "none" /\ result # Waiting => result = sent
  /\ fault = "longer" /\ result # Waiting =>
       result = IF sent.ix = "UpdateMarketMetadata" THEN [ix |-> "error"] ELSE sent
  /\ fault = "cut" /\ result # Waiting => result = [ix |-> "error"]

\* Whatever bytes arrive, an instruction the program accepts is the one those
\* bytes are the encoding of: two readings of one buffer never exist, so what a
\* wallet shows by unpacking and what the program runs are the same.
OneReading ==
  Decoded => IsPrefix(InstructionData([ix |-> result.ix, fields |-> result.fields]), data)
=============================================================================
