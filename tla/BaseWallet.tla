----------------------------- MODULE BaseWallet -----------------------------
(***************************************************************************)
(* The wallet session of the dashboard: baseWalletSessionMachine, the      *)
(* EIP-1193 calls of base-wallet.ts and their use in App.tsx.  A           *)
(* connection asks for the accounts, then for the chain, and subscribes to *)
(* the changes of both when it has its answers.                            *)
(***************************************************************************)
EXTENDS Integers

CONSTANTS Addresses, Chains, Base,
          MaxAttempts,  \* bound: connections asked for
          MaxMoves      \* bound: changes of the wallet by itself

VARIABLES
  wallet,      \* baseWalletSessionMachine: phase, account
  subscribed,  \* the listeners of unsubscribeWalletRef are installed
  attempts,    \* connectBaseWallet calls in flight
  provider,    \* the wallet itself: the account it grants, its chain
  asked, moves,
  missed       \* history: a change met an answer that was under way

vars == <<wallet, subscribed, attempts, provider, asked, moves, missed>>

Nobody == "nobody"
NoAccount == [address |-> Nobody, chain |-> 0]

(* The wallet has granted no account yet.                                  *)
Init ==
  /\ wallet = [phase |-> "disconnected", account |-> NoAccount]
  /\ subscribed = FALSE
  /\ attempts = {}
  /\ provider \in [address: {Nobody}, chain: Chains]
  /\ asked = 0 /\ moves = 0 /\ missed = FALSE

-----------------------------------------------------------------------------
(* The machine.  Addresses reach it canonical and chains parsed.           *)

OnChain(account) ==
  [phase |-> IF account.chain = Base THEN "connected" ELSE "wrongChain",
   account |-> account]

ConnectRequested(w) ==
  IF w.phase \in {"disconnected", "failed"}
  THEN [w EXCEPT !.phase = "connecting"] ELSE w

WalletConnected(w, account) ==
  IF w.phase = "connecting" THEN OnChain(account) ELSE w

ConnectionFailed(w) ==
  IF w.phase \in {"connecting", "connected", "wrongChain"}
  THEN [w EXCEPT !.phase = "failed"] ELSE w

InSession(w) == w.phase \in {"connected", "wrongChain"}

AccountRotated(w, address) ==  \* mutant: a rotation back on the base chain
  CASE InSession(w) /\ address = Nobody ->
         [phase |-> "disconnected", account |-> NoAccount]
    [] InSession(w) /\ address # Nobody ->
         OnChain([address |-> address, chain |-> Base])
    [] OTHER -> w

AccountChanged(w, address) ==
  CASE InSession(w) /\ address = Nobody ->
         [phase |-> "disconnected", account |-> NoAccount]
    [] InSession(w) /\ address # Nobody ->
         [w EXCEPT !.account.address = address]
    [] OTHER -> w

ChainChanged(w, chain) ==
  IF InSession(w) THEN OnChain([w.account EXCEPT !.chain = chain]) ELSE w

-----------------------------------------------------------------------------
(* connectWallet and connectBaseWallet.                                    *)

Connect ==
  /\ wallet.phase \in {"disconnected", "failed"}
  /\ asked < MaxAttempts
  /\ asked' = asked + 1
  /\ wallet' = ConnectRequested(wallet)
  /\ attempts' = attempts \cup
       {[id |-> asked', account |-> NoAccount, stage |-> "accounts"]}
  /\ UNCHANGED <<subscribed, provider, moves, missed>>

(* eth_requestAccounts: the owner grants an account, or keeps the one      *)
(* granted before.                                                         *)
Granted(a) ==
  /\ a.stage = "accounts"
  /\ \E x \in IF provider.address = Nobody THEN Addresses
              ELSE {provider.address}:
       /\ provider' = [provider EXCEPT !.address = x]
       /\ attempts' = (attempts \ {a}) \cup
            {[a EXCEPT !.stage = "chain", !.account.address = x]}
  /\ UNCHANGED <<wallet, subscribed, asked, moves, missed>>

(* eth_chainId.                                                            *)
ChainRead(a) ==
  /\ a.stage = "chain"
  /\ attempts' = (attempts \ {a}) \cup
       {[a EXCEPT !.stage = "read", !.account.chain = provider.chain]}
  /\ UNCHANGED <<wallet, subscribed, provider, asked, moves, missed>>

(* The session opens, and the listeners of an earlier one are replaced.    *)
Resolved(a) ==
  /\ a.stage = "read"
  /\ attempts' = attempts \ {a}
  /\ wallet' = WalletConnected(wallet, a.account)
  /\ subscribed' = TRUE
  /\ UNCHANGED <<provider, asked, moves, missed>>

(* The owner refuses, the wallet fails or answers something invalid.       *)
Rejected(a) ==
  /\ a.stage # "read"
  /\ attempts' = attempts \ {a}
  /\ wallet' = ConnectionFailed(wallet)
  /\ UNCHANGED <<subscribed, provider, asked, moves, missed>>

Disconnect ==
  /\ wallet.phase \notin {"disconnected", "failed"}
  /\ wallet' = [phase |-> "disconnected", account |-> NoAccount]
  /\ subscribed' = FALSE
  /\ UNCHANGED <<attempts, provider, asked, moves, missed>>

-----------------------------------------------------------------------------
(* The wallet changes by itself, and tells who listens.                    *)

Moving == moves < MaxMoves /\ moves' = moves + 1

(* An attempt has read what changes, and is not listening yet.             *)
Overtaken == missed \/ \E a \in attempts: a.stage # "accounts"

AccountMoves(x) ==
  /\ Moving
  /\ provider.address \notin {Nobody, x}
  /\ provider' = [provider EXCEPT !.address = x]
  /\ wallet' = IF subscribed THEN AccountChanged(wallet, x) ELSE wallet
  /\ missed' = Overtaken
  /\ UNCHANGED <<subscribed, attempts, asked>>

ChainMoves(c) ==
  /\ Moving
  /\ provider.chain # c
  /\ provider' = [provider EXCEPT !.chain = c]
  /\ wallet' = IF subscribed THEN ChainChanged(wallet, c) ELSE wallet
  /\ missed' = Overtaken
  /\ UNCHANGED <<subscribed, attempts, asked>>

(* A listener gets a payload it cannot read.                               *)
Garbled ==
  /\ Moving
  /\ subscribed
  /\ wallet' = ConnectionFailed(wallet)
  /\ UNCHANGED <<subscribed, attempts, provider, asked, missed>>

Next ==
  \/ Connect \/ Disconnect
  \/ \E a \in attempts: Granted(a) \/ ChainRead(a) \/ Resolved(a) \/ Rejected(a)
  \/ \E x \in Addresses \cup {Nobody}: AccountMoves(x)
  \/ \E c \in Chains: ChainMoves(c)
  \/ Garbled

Spec == Init /\ [][Next]_vars

-----------------------------------------------------------------------------
(* A session names the account and the chain the wallet is on, through     *)
(* rotations, revocations, disconnections and attempts that end late; only *)
(* a change between an answer and the subscription that follows it goes    *)
(* unseen (models/base-wallet-session.md, invariants 4 and 5).             *)
SessionFollowsWallet ==
  InSession(wallet) /\ ~missed => wallet = OnChain(provider)
=============================================================================
