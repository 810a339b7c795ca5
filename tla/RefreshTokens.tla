--------------------------- MODULE RefreshTokens ---------------------------
(***************************************************************************)
(* Refresh tokens (refreshTokenUtils.ts, auth.service.ts): rotation in a   *)
(* transaction, the grace window for a token presented twice, the answer   *)
(* to a replay, logout, the re-check of the account and the hourly purge.  *)
(*                                                                         *)
(* Each statement is a step, as an await lets other requests run between   *)
(* any two.  An UPDATE waits for a row that a transaction in progress has  *)
(* updated; nobody sees the row that a transaction has not committed.      *)
(*                                                                         *)
(* Cookies and access tokens are left out: authenticate reads the account  *)
(* again on every request.                                                 *)
(***************************************************************************)
EXTENDS Integers, FiniteSets, Sequences

CONSTANTS
    Users,          \* e-mail addresses, by which accounts are unique
    Calls,          \* the requests clients make
    Asks,           \* Asks[c]: what request c may ask for
    MaxTokens,      \* bound of the tokens issued
    MaxNow,         \* bound of the clock
    TokenTTL,       \* REFRESH_TOKEN_EXPIRES_IN_SECONDS
    GraceWindow,    \* REFRESH_TOKEN_GRACE_WINDOW_MS
    Null

VARIABLES
    users,          \* users[u]: the User row of that e-mail, NoUser when there is none
    rows,           \* rows[t]: the RefreshToken row of token t, Null when there is none
    issued,         \* how many tokens have been issued; they are random, so never issued again
    held,           \* the tokens that answers have given to clients
    locks,          \* locks[t]: the transaction in progress that has updated row t
    now,
    pc, tx,         \* where the handler of a request stands, and its local variables
    barred          \* history: accounts whose sessions a refresh has ended because they are
                    \* inactive, and that have neither been reactivated nor signed in since

tokenVars == <<rows, issued, held, locks>>

Tokens == 1..MaxTokens
Roles == {"SUPER_ADMIN", "COACH"}
Removals == {"delete", "deactivate", "demote"}
Changes == Removals \cup {"reactivate", "promote"}

Ask ==
    [op: {"login"}, user: Users, right: BOOLEAN]
    \cup [op: {"refresh", "logout"}]
    \cup [op: {"register", "bootstrap"}, user: Users]
    \cup [op: {"change"}, user: Users, change: Changes]

Account == [role: Roles, isActive: BOOLEAN, failed: Nat, lockedUntil: Nat \cup {Null}]
NoUser == [role |-> Null, isActive |-> FALSE, failed |-> 0, lockedUntil |-> Null]

Token == [user: Users, chain: Tokens, expiresAt: Nat,
          revokedAt: Nat \cup {Null}, replacedBy: Tokens \cup {Null}]

ASSUME TokensAssumption ==
    /\ \A c \in Calls : Asks[c] \subseteq Ask
    /\ MaxTokens \in Nat /\ MaxNow \in Nat /\ TokenTTL \in Nat /\ GraceWindow \in Nat
    /\ Null \notin Nat \cup Calls \cup Token

NoTx == [user |-> Null, token |-> Null, at |-> 0, owned |-> FALSE, targets |-> {}, bars |-> FALSE,
         right |-> FALSE, failed |-> 0, role |-> Null, change |-> Null]

Asked(c, op) == {a \in Asks[c] : a.op = op}

Goto(c, step, local) ==
    /\ pc' = [pc EXCEPT ![c] = step]
    /\ tx' = [tx EXCEPT ![c] = local]

\* Whatever the answer, the handler has nothing left to do.
Answer(c) == Goto(c, "done", NoTx)

\* An update of row t proceeds when no other transaction has updated it.
Unlocked(t) == locks[t] = Null

Live(t) == rows[t] # Null /\ rows[t].revokedAt = Null

\* Revoked because it was exchanged, and not by a logout
Rotated(t) == rows[t] # Null /\ rows[t].replacedBy # Null

NewToken(u, chain, expiresAt) ==
    [user |-> u, chain |-> chain, expiresAt |-> expiresAt, revokedAt |-> Null, replacedBy |-> Null]

\* updateMany where revokedAt is null, of the rows S
Revoked(S, at) ==
    [t \in Tokens |-> IF t \in S /\ Live(t) THEN [rows[t] EXCEPT !.revokedAt = at] ELSE rows[t]]

-----------------------------------------------------------------------------
(* POST /auth/refresh: rotateRefreshToken, then the account *)

\* A token that is unknown or expired is refused, which is no step.
PresentToken(c) ==
    /\ pc[c] = "idle"
    /\ Asked(c, "refresh") # {}
    /\ \E t \in held :
         /\ rows[t] # Null
         /\ rows[t].expiresAt > now
         /\ Goto(c, "claim", [NoTx EXCEPT !.user = rows[t].user, !.token = t, !.at = now])
    /\ UNCHANGED <<tokenVars, users, now, barred>>

\* mutant: whoever gets the row's lock owns the rotation
ClaimAnyToken(c) ==
    /\ pc[c] = "claim"
    /\ Unlocked(tx[c].token)
    /\ locks' = [locks EXCEPT ![tx[c].token] = c]
    /\ Goto(c, "mint", [tx[c] EXCEPT !.owned = TRUE])
    /\ UNCHANGED <<users, rows, issued, held, now, barred>>

\* The compare-and-set of revokedAt, invisible until the commit
ClaimToken(c) ==
    /\ pc[c] = "claim"
    /\ Unlocked(tx[c].token)
    /\ IF Live(tx[c].token)
       THEN /\ locks' = [locks EXCEPT ![tx[c].token] = c]
            /\ Goto(c, "mint", [tx[c] EXCEPT !.owned = TRUE])
       ELSE /\ Goto(c, "reread", tx[c])
            /\ UNCHANGED locks
    /\ UNCHANGED <<users, rows, issued, held, now, barred>>

\* Another request, a logout or a replay has revoked the token first.
RereadToken(c) ==
    /\ pc[c] = "reread"
    /\ LET t == tx[c].token
       IN  IF ~Rotated(t) THEN Answer(c)
           ELSE IF tx[c].at - rows[t].revokedAt <= GraceWindow THEN Goto(c, "mint", tx[c])
           ELSE Goto(c, "revokeAll", tx[c])
    /\ UNCHANGED <<tokenVars, users, now, barred>>

\* mutant: the replacement is not linked
ExchangedUnlinked(t, n, at) ==
    [rows EXCEPT ![t].revokedAt = at,
                 ![n] = NewToken(rows[t].user, rows[t].chain, now + TokenTTL)]

\* Token t, claimed at that time, is replaced by n.
Exchanged(t, n, at) ==
    [rows EXCEPT ![t].revokedAt = at,
                 ![t].replacedBy = n,
                 ![n] = NewToken(rows[t].user, rows[t].chain, now + TokenTTL)]

\* The replacement, the link of a token this request has claimed, and the commit
MintToken(c) ==
    /\ pc[c] = "mint"
    /\ issued < MaxTokens
    /\ LET t == tx[c].token
           n == issued + 1
       IN  /\ issued' = n
           /\ IF tx[c].owned
              THEN /\ rows' = Exchanged(t, n, tx[c].at)
                   /\ locks' = [locks EXCEPT ![t] = Null]
              ELSE /\ rows' = [rows EXCEPT ![n] = NewToken(tx[c].user, n, now + TokenTTL)]
                   /\ UNCHANGED locks
           /\ Goto(c, "check", [NoTx EXCEPT !.user = tx[c].user, !.token = n])
    /\ UNCHANGED <<users, held, now, barred>>

CheckAccount(c) ==
    /\ pc[c] = "check"
    /\ IF users[tx[c].user].isActive
       THEN held' = held \cup {tx[c].token} /\ Answer(c)
       ELSE /\ Goto(c, "revokeAll", [tx[c] EXCEPT !.at = now, !.bars = TRUE])
            /\ UNCHANGED held
    /\ UNCHANGED <<users, rows, issued, locks, now, barred>>

\* mutant: only the token just issued is revoked
RevokeOwnToken(c) ==
    /\ pc[c] = "revokeAll"
    /\ Goto(c, "revoking", [tx[c] EXCEPT !.targets = {tx[c].token}])
    /\ UNCHANGED <<tokenVars, users, now, barred>>

\* revokeAllRefreshTokensForUser: the statement finds the rows committed so far,
RevokeAll(c) ==
    /\ pc[c] = "revokeAll"
    /\ Goto(c, "revoking",
            [tx[c] EXCEPT !.targets = {t \in Tokens : Live(t) /\ rows[t].user = tx[c].user}])
    /\ UNCHANGED <<tokenVars, users, now, barred>>

\* and revokes those that are still live when it gets their locks.
RevokeTargets(c) ==
    /\ pc[c] = "revoking"
    /\ \A t \in tx[c].targets : Unlocked(t)
    /\ rows' = Revoked(tx[c].targets, tx[c].at)
    /\ barred' = IF tx[c].bars THEN barred \cup {tx[c].user} ELSE barred
    /\ Answer(c)
    /\ UNCHANGED <<users, issued, held, locks, now>>

-----------------------------------------------------------------------------
(* Logout, the purge, and the start of a session *)

Logout(c) ==
    /\ pc[c] = "idle"
    /\ Asked(c, "logout") # {}
    /\ \E t \in held : Goto(c, "revokeOne", [NoTx EXCEPT !.token = t, !.at = now])
    /\ UNCHANGED <<tokenVars, users, now, barred>>

RevokeOne(c) ==
    /\ pc[c] = "revokeOne"
    /\ Unlocked(tx[c].token)
    /\ rows' = Revoked({tx[c].token}, tx[c].at)
    /\ Answer(c)
    /\ UNCHANGED <<users, issued, held, locks, now, barred>>

Purge ==
    LET expired == {t \in Tokens : rows[t] # Null /\ rows[t].expiresAt < now}
    IN  /\ expired # {}
        /\ \A t \in expired : Unlocked(t)
        /\ rows' = [t \in Tokens |-> IF t \in expired THEN Null ELSE rows[t]]
        /\ UNCHANGED <<users, issued, held, locks, now, pc, tx, barred>>

\* establishRefreshSession, after a login or a registration; the history forgets that u was barred.
EstablishSession(c) ==
    LET u == tx[c].user
        n == issued + 1
    IN  /\ pc[c] = "issue"
        /\ issued < MaxTokens
        /\ issued' = n
        /\ rows' = [rows EXCEPT ![n] = NewToken(u, n, now + TokenTTL)]
        /\ held' = held \cup {n}
        /\ barred' = barred \ {u}
        /\ pc' = [pc EXCEPT ![c] = "done"]
        /\ tx' = [d \in Calls |-> IF d = c THEN NoTx
                                  ELSE IF tx[d].user = u THEN [tx[d] EXCEPT !.bars = FALSE] ELSE tx[d]]
        /\ UNCHANGED <<users, locks, now>>

\* The database or the process fails: a transaction is rolled back, a handler is left half done.
GiveUp(c) ==
    /\ pc[c] \notin {"idle", "done"}
    /\ locks' = [t \in Tokens |-> IF locks[t] = c THEN Null ELSE locks[t]]
    /\ Answer(c)
    /\ UNCHANGED <<users, rows, issued, held, now, barred>>

Tick ==
    /\ now < MaxNow
    /\ now' = now + 1
    /\ UNCHANGED <<tokenVars, users, pc, tx, barred>>

TokenSteps(c) ==
    \/ PresentToken(c) \/ ClaimToken(c) \/ RereadToken(c) \/ MintToken(c)
    \/ CheckAccount(c) \/ RevokeAll(c) \/ RevokeTargets(c)
    \/ Logout(c) \/ RevokeOne(c) \/ EstablishSession(c) \/ GiveUp(c)
=============================================================================
