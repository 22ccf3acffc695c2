----------------------------- MODULE MCConsole -----------------------------
(* What an operator sees of the agents: the two sessions of the dashboard, *)
(* and the figures that an agent projects and the page reads.  They share  *)
(* no state here: one part is explored, the others rest at their start.    *)
EXTENDS Dashboard

CONSTANTS Parts,  \* the parts explored
          Addresses, Chains, Base, MaxAttempts, MaxMoves

ASSUME WalletAssumption ==
  /\ Base \in Chains /\ "nobody" \notin Addresses
  /\ {MaxAttempts, MaxMoves} \subseteq Nat

VARIABLES
  part,
  wallet, subscribed, attempts, provider, asked, moves, missed, \* BaseWallet
  prices, instant, starts, trader, flights, ledger              \* PaperFigures

-----------------------------------------------------------------------------
(* The wallet: two accounts, two chains.                                   *)
Owners == {"x", "y"}
Networks == {1, 2}
Wallet == INSTANCE BaseWallet
walletVars == <<wallet, subscribed, attempts, provider, asked, moves, missed>>

(* The figures: an agent of one product, a portfolio, and a configuration  *)
(* that names a product twice, over prices that rise and fall.             *)
Figures == INSTANCE PaperFigures WITH
  MaxAge <- 1, Day <- 4,
  Inputs <- {[products |-> <<1>>, limited |-> FALSE],
             [products |-> <<2, 1>>, limited |-> TRUE],
             [products |-> <<1, 1>>, limited |-> TRUE]},
  Capital <- 30, Fee <- 1, Slippage <- 1, Timeframe <- 2,
  CandlePaths <- {<< <<10, 12, 8, 8>>, <<20, 20, 20, 20>> >>},
  MaxSlots <- 2, Limit <- 2, MaxNow <- 5, MaxCycles <- 3, MaxShared <- 2,
  MaxStarts <- 2, agent <- trader
figureVars == <<prices, instant, starts, trader, flights, ledger>>

-----------------------------------------------------------------------------
ConsoleInit ==
  /\ part \in Parts
  /\ Init
  /\ Wallet!Init /\ (part = "wallet" \/ provider.chain = Base)
  /\ Figures!Init /\ (part = "figures" \/ trader = Figures!Unstarted)

ConsoleNext ==
  \/ /\ part = "page" /\ Next
     /\ UNCHANGED <<part, walletVars, figureVars>>
  \/ /\ part = "wallet" /\ Wallet!Next
     /\ UNCHANGED <<part, vars, figureVars>>
  \/ /\ part = "figures" /\ Figures!Next
     /\ UNCHANGED <<part, vars, walletVars>>

consoleVars == <<part, vars, walletVars, figureVars>>

ConsoleSpec == ConsoleInit /\ [][ConsoleNext]_consoleVars /\ Fairness

-----------------------------------------------------------------------------
(* BaseWallet: a session names the account and the chain of the wallet.    *)
SessionFollowsWallet == Wallet!SessionFollowsWallet

(* PaperFigures: the page accepts what the agent projects of its figures,  *)
(* which are those of its account; and the claim that the page of a started*)
(* agent loads.                                                            *)
FiguresAreAccepted == Figures!FiguresAreAccepted
FiguresAreTrue == Figures!FiguresAreTrue
PageLoads == Figures!PageLoads
=============================================================================
