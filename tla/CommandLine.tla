---------------------------- MODULE CommandLine ----------------------------
(***************************************************************************)
(* The command line client as a whole.  `main` runs one command; those     *)
(* that send transactions form three groups which touch different          *)
(* accounts: the settings of a reserve and of its market (AdminClient),    *)
(* the accounts of a reserve that is being added (SetupClient), and the    *)
(* positions of an obligation (PositionClient).  Nothing a command of one  *)
(* group writes is read by one of another, so a behaviour here is one of   *)
(* the commands of one group, run by several clients at once.              *)
(***************************************************************************)
EXTENDS AdminClient

CONSTANTS
    \* SetupClient
    MaxRuns, Rent, Fee, Lamports, Spent, SourceTokens, Amount, MaxDisturbed,
    \* PositionClient
    Takers,         \* its clients
    Reserves, Feeds, Deposits0, Borrows0, Atas0,
    TakerCommands,  \* its commands
    MaxAmount, MaxPositions,
    MaxTaken,       \* commands of its clients
    MaxMoved        \* steps of others

VARIABLES
    group,          \* the commands that are run
    \* SetupClient
    accounts, inflight, running, told, disturbed,
    \* PositionClient
    positions, takers, answers, taken, moved

setupVars == <<accounts, inflight, running, told, disturbed>>
positionVars == <<positions, takers, answers, taken, moved>>

Setup == INSTANCE SetupClient WITH
    chain <- accounts, client <- running, others <- disturbed

Position == INSTANCE PositionClient WITH
    Clients <- Takers, Commands <- TakerCommands, MaxCommands <- MaxTaken, MaxOthers <- MaxMoved,
    chain <- positions, client <- takers, told <- answers, commands <- taken, others <- moved

ASSUME CommandLineAssumption == Setup!SetupAssumption /\ Position!PositionAssumption

\* The token accounts the fee payer has matter to one group only.
CommandLineInit ==
    /\ group \in {"settings", "add-reserve", "obligation"}
    /\ Init /\ Setup!Init /\ Position!Init
    /\ group = "obligation" \/ positions.ata = CHOOSE a \in Atas0 : TRUE

SettingsStep ==
    group = "settings" /\ Next /\ UNCHANGED <<group, setupVars, positionVars>>

AddReserveStep ==
    group = "add-reserve" /\ Setup!Next /\ UNCHANGED <<group, vars, positionVars>>

ObligationStep ==
    group = "obligation" /\ Position!Next /\ UNCHANGED <<group, vars, setupVars>>

CommandLineNext == SettingsStep \/ AddReserveStep \/ ObligationStep

Delivery == group = "add-reserve" /\ Setup!Deliver /\ UNCHANGED <<group, vars, positionVars>>

commandLineVars == <<group, vars, setupVars, positionVars>>

CommandLineSpec ==
    /\ CommandLineInit /\ [][CommandLineNext]_commandLineVars
    /\ WF_commandLineVars(Delivery)

-----------------------------------------------------------------------------
(* Properties.                                                             *)

\* add-reserve: however a run ends, the user can run the command again.
RetryIsSafe == Setup!RetryIsSafe

\* add-reserve: send_transaction does not wait for ever.
RunEnds == Setup!RunEnds

\* liquidate-obligation and withdraw-collateral act on the positions they read.
ActsOnWhatWasRead == Position!ActsOnWhatWasRead

\* A command on an obligation that can be served is served when nobody interferes.
NeverRefusedUndisturbed == Position!NeverRefusedUndisturbed
=============================================================================
