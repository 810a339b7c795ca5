---------------------------- MODULE TokenLedger ----------------------------
(***************************************************************************)
(* What the refresh tokens promise, without requests, clocks or row locks: *)
(* chains of tokens in which a live token is exchanged for its successor   *)
(* in one indivisible step, so that a chain has one live token at most,    *)
(* and in which a token that was exchanged or ended stays so.              *)
(***************************************************************************)
EXTENDS Integers

CONSTANTS
    Tokens,         \* the tokens that can be issued, numbers
    Null

VARIABLE ledger     \* ledger[t]: the chain and the state of token t, Null when there is no such token

Entry == [chain: Tokens, state: {"live", "exchanged", "ended"}]

\* At first some chains may have been started.
Init == ledger \in {l \in [Tokens -> Entry \cup {Null}] :
                     \A t \in Tokens : l[t] = Null \/ l[t] = [chain |-> t, state |-> "live"]}

Known(t) == ledger[t] # Null
Live(t) == Known(t) /\ ledger[t].state = "live"

\* A chain is named by the token it starts with.
Start(t) ==
    /\ ledger[t] = Null
    /\ \A s \in Tokens : Known(s) => ledger[s].chain # t
    /\ ledger' = [ledger EXCEPT ![t] = [chain |-> t, state |-> "live"]]

Moved(t, state) == [chain |-> ledger[t].chain, state |-> state]

Exchange(t, n) ==
    /\ Live(t)
    /\ ledger[n] = Null
    /\ ledger' = [ledger EXCEPT ![t] = Moved(t, "exchanged"), ![n] = Moved(t, "live")]

\* Logout, a reported theft, an account that is no longer active: any live tokens
End ==
    \A t \in Tokens :
        \/ ledger'[t] = ledger[t]
        \/ Live(t) /\ ledger'[t] = Moved(t, "ended")

\* Expired tokens are deleted.
Forget == \A t \in Tokens : ledger'[t] \in {ledger[t], Null}

Next ==
    /\ ledger' \in [Tokens -> Entry \cup {Null}]
    /\ \/ End \/ Forget
       \/ \E t \in Tokens : Start(t)
       \/ \E t, n \in Tokens : Exchange(t, n)

Spec == Init /\ [][Next]_ledger
=============================================================================
