----------------------------- MODULE MCFormats -----------------------------
(***************************************************************************)
(* The three formats the program shares with its clients and with its own  *)
(* earlier releases.  An instruction is the bytes of its data              *)
(* (InstructionCodec), which `process_instruction` decodes, and the list   *)
(* of its accounts (InstructionAccounts), which the handler it is decoded  *)
(* to takes one by one.  The accounts themselves are bytes that one        *)
(* handler leaves to the next (StoredAccounts): a behaviour follows either *)
(* one instruction or one account, of which neither looks into the other.  *)
(***************************************************************************)
EXTENDS StoredAccounts

VARIABLES
    format,                               \* what is followed: instruction or account
    sent, data, fault, result,            \* InstructionCodec
    call, accounts, reads, bound, outcome \* InstructionAccounts

codecVars == <<sent, data, fault, result>>
listVars == <<call, accounts, reads, bound, outcome>>

\* every instruction with its fields set one at a time, in bytes of three values
Layout == INSTANCE MCInstructionCodec WITH Base <- 3, Samples <- {}

Codec == INSTANCE InstructionCodec WITH Base <- 3, Samples <- Layout!MCSamples

\* every builder of the SDK, obligations of up to two deposits and two borrows
Lists == INSTANCE InstructionAccounts WITH MaxPositions <- 2

ASSUME FormatsAssumption == Codec!BaseAssumption /\ Lists!AccountsAssumption

FormatsInit ==
    /\ format \in {"instruction", "account"}
    /\ Codec!Init /\ Lists!Init /\ Init
    /\ format = "account" \/ kind = "obligation"

\* the data on its way, until it is decoded
DataStep ==
    format = "instruction" /\ Codec!Next /\ UNCHANGED <<format, listVars, vars>>

\* process_instruction calls the handler of what it decoded
Dispatch ==
    /\ format = "instruction"
    /\ fault = "none" /\ Codec!Decoded /\ outcome = "idle"
    /\ result.ix \in Lists!Instructions /\ Lists!Calls(result.ix)
    /\ UNCHANGED <<format, codecVars, vars>>

HandlerStep ==
    /\ format = "instruction"
    /\ Lists!NextAccountInfo \/ Lists!Perform
    /\ UNCHANGED <<format, codecVars, vars>>

AccountStep ==
    format = "account" /\ Next /\ UNCHANGED <<format, codecVars, listVars>>

FormatsNext == DataStep \/ Dispatch \/ HandlerStep \/ AccountStep

FormatsSpec ==
    FormatsInit /\ [][FormatsNext]_<<format, codecVars, listVars, vars>>

-----------------------------------------------------------------------------
(* Properties.                                                             *)

\* What a builder packs is what process_instruction decodes.
DecodesWhatWasSent == Codec!DecodesWhatWasSent

\* Bytes that are accepted are the encoding of what they are taken for.
OneReading == Codec!OneReading

\* The handler an instruction is decoded to finds its accounts in the list the
\* SDK built for that instruction, each in its role and with its privileges.
AccountsServe == Lists!AccountsServe
=============================================================================
