------------------------------ MODULE Accounts ------------------------------
(***************************************************************************)
(* Accounts over their sessions: login with its lockout, registration and  *)
(* bootstrap (auth.service.ts), and the changes administrators make to     *)
(* accounts (user.service.ts), composed with RefreshTokens.                *)
(*                                                                         *)
(* Callers are authorised.  A password is right or wrong; names and other  *)
(* profile fields are left out.  A request that is refused by what it      *)
(* reads first changes nothing and is no step.                             *)
(***************************************************************************)
EXTENDS RefreshTokens

CONSTANTS
    Initial,        \* the accounts there may be at first, and the sessions open then
    MaxFailed,      \* MAX_FAILED_LOGIN_ATTEMPTS
    Lockout         \* LOGIN_LOCKOUT_MINUTES

VARIABLE wrong      \* history: the wrong passwords recorded for an account

vars == <<users, tokenVars, now, pc, tx, barred, wrong>>

\* Where a token stands, without clocks
Place == [chain: Tokens, state: {"live", "exchanged", "ended"}]

ASSUME AccountsAssumption ==
    /\ \A i \in Initial :
         /\ i.users \in [Users -> Account \cup {NoUser}]
         /\ i.sessions \in Seq([user: {u \in Users : i.users[u] # NoUser}, expiresAt: Nat])
         /\ Len(i.sessions) <= MaxTokens
         /\ \A u \in Users : i.users[u].failed = 0 /\ i.users[u].lockedUntil = Null
    /\ MaxFailed \in Nat \ {0} /\ Lockout \in Nat
    /\ Null \notin Roles \cup Users \cup Changes \cup Place

Exists(u) == users[u] # NoUser
ActiveAdmins == {u \in Users : users[u].role = "SUPER_ADMIN" /\ users[u].isActive}
Locked(u) == users[u].lockedUntil # Null /\ users[u].lockedUntil > now

Init ==
    /\ now = 0
    /\ \E i \in Initial :
         /\ users = i.users
         /\ issued = Len(i.sessions)
         /\ rows = [t \in Tokens |->
                       IF t > issued THEN Null
                       ELSE NewToken(i.sessions[t].user, t, i.sessions[t].expiresAt)]
         /\ held = 1..issued
    /\ locks = [t \in Tokens |-> Null]
    /\ pc = [c \in Calls |-> "idle"]
    /\ tx = [c \in Calls |-> NoTx]
    /\ barred = {}
    /\ wrong = [u \in Users |-> 0]

-----------------------------------------------------------------------------
(* Login *)

\* The account is read, and with it the number of failed attempts.
Login(c) ==
    /\ pc[c] = "idle"
    /\ \E a \in Asked(c, "login") :
         /\ users[a.user].isActive
         /\ ~Locked(a.user)
         /\ Goto(c, "compare", [NoTx EXCEPT !.user = a.user, !.right = a.right,
                                            !.failed = users[a.user].failed])
    /\ UNCHANGED <<tokenVars, users, now, barred, wrong>>

\* What recordFailedLogin and recordSuccessfulLogin write
WithCounters(account, failed, until) == [account EXCEPT !.failed = failed, !.lockedUntil = until]

RecordSuccessfulLogin(c) ==
    /\ pc[c] = "compare"
    /\ tx[c].right
    /\ users' = [users EXCEPT ![tx[c].user] = WithCounters(@, 0, Null)]
    /\ Goto(c, "issue", [NoTx EXCEPT !.user = tx[c].user])
    /\ UNCHANGED <<tokenVars, now, barred, wrong>>

\* mutant: locked one attempt early
AfterFailureEarly(failed) ==
    IF failed + 2 >= MaxFailed
    THEN [failed |-> 0, lockedUntil |-> now + Lockout]
    ELSE [failed |-> failed + 1, lockedUntil |-> Null]

AfterFailure(failed) ==
    IF failed + 1 >= MaxFailed
    THEN [failed |-> 0, lockedUntil |-> now + Lockout]
    ELSE [failed |-> failed + 1, lockedUntil |-> Null]

RecordFailedLogin(c) ==
    LET u == tx[c].user
        next == AfterFailure(tx[c].failed)
    IN  /\ pc[c] = "compare"
        /\ ~tx[c].right
        /\ users' = [users EXCEPT ![u] = WithCounters(@, next.failed, next.lockedUntil)]
        /\ wrong' = [wrong EXCEPT ![u] = @ + 1]
        /\ Answer(c)
        /\ UNCHANGED <<tokenVars, now, barred>>

-----------------------------------------------------------------------------
(* Registration, and the bootstrap of the first administrator *)

Bootstrap(c) ==
    /\ pc[c] = "idle"
    /\ \A u \in Users : ~Exists(u)
    /\ \E a \in Asked(c, "bootstrap") :
         Goto(c, "find", [NoTx EXCEPT !.user = a.user, !.role = "SUPER_ADMIN"])
    /\ UNCHANGED <<tokenVars, users, now, barred, wrong>>

Register(c) ==
    /\ pc[c] = "idle"
    /\ \E a \in Asked(c, "register") :
         Goto(c, "find", [NoTx EXCEPT !.user = a.user, !.role = "COACH"])
    /\ UNCHANGED <<tokenVars, users, now, barred, wrong>>

FindEmail(c) ==
    /\ pc[c] = "find"
    /\ IF Exists(tx[c].user) THEN Answer(c) ELSE Goto(c, "create", tx[c])
    /\ UNCHANGED <<tokenVars, users, now, barred, wrong>>

\* The e-mail is unique (P2002).
CreateUser(c) ==
    LET u == tx[c].user
    IN  /\ pc[c] = "create"
        /\ IF Exists(u)
           THEN Answer(c) /\ UNCHANGED users
           ELSE /\ users' = [users EXCEPT ![u] = [NoUser EXCEPT !.role = tx[c].role, !.isActive = TRUE]]
                /\ Goto(c, "issue", [NoTx EXCEPT !.user = u])
        /\ UNCHANGED <<tokenVars, now, barred, wrong>>

-----------------------------------------------------------------------------
(* updateUser and deleteUser *)

\* Taking away an administrator is preceded by a count of the others.
ReadTarget(c) ==
    /\ pc[c] = "idle"
    /\ ActiveAdmins # {}
    /\ \E a \in Asked(c, "change") :
         /\ Exists(a.user)
         /\ a.change = "delete" => users[a.user].isActive
         /\ Goto(c, IF users[a.user].role = "SUPER_ADMIN" /\ a.change \in Removals THEN "count" ELSE "write",
                 [NoTx EXCEPT !.user = a.user, !.change = a.change])
    /\ UNCHANGED <<tokenVars, users, now, barred, wrong>>

CountOtherAdmins(c) ==
    /\ pc[c] = "count"
    /\ IF ActiveAdmins \ {tx[c].user} = {} THEN Answer(c) ELSE Goto(c, "write", tx[c])
    /\ UNCHANGED <<tokenVars, users, now, barred, wrong>>

\* mutant: the role of a demoted administrator is removed
ChangedWithoutRole(account, change) ==
    CASE change \in {"delete", "deactivate"} -> [account EXCEPT !.isActive = FALSE]
      [] change = "reactivate" -> [account EXCEPT !.isActive = TRUE]
      [] change = "demote" -> [account EXCEPT !.role = Null]
      [] change = "promote" -> [account EXCEPT !.role = "SUPER_ADMIN"]

Changed(account, change) ==
    CASE change \in {"delete", "deactivate"} -> [account EXCEPT !.isActive = FALSE]
      [] change = "reactivate" -> [account EXCEPT !.isActive = TRUE]
      [] change = "demote" -> [account EXCEPT !.role = "COACH"]
      [] change = "promote" -> [account EXCEPT !.role = "SUPER_ADMIN"]

\* The history forgets that a reactivated account was barred.
WriteChange(c) ==
    LET u == tx[c].user
        revived == tx[c].change = "reactivate"
    IN  /\ pc[c] = "write"
        /\ users' = [users EXCEPT ![u] = Changed(@, tx[c].change)]
        /\ barred' = IF revived THEN barred \ {u} ELSE barred
        /\ pc' = [pc EXCEPT ![c] = "done"]
        /\ tx' = [d \in Calls |-> IF d = c THEN NoTx
                                  ELSE IF revived /\ tx[d].user = u THEN [tx[d] EXCEPT !.bars = FALSE]
                                  ELSE tx[d]]
        /\ UNCHANGED <<tokenVars, now, wrong>>

-----------------------------------------------------------------------------
AccountSteps(c) ==
    \/ Login(c) \/ RecordSuccessfulLogin(c) \/ RecordFailedLogin(c)
    \/ Bootstrap(c) \/ Register(c) \/ FindEmail(c) \/ CreateUser(c)
    \/ ReadTarget(c) \/ CountOtherAdmins(c) \/ WriteChange(c)

Next ==
    \/ \E c \in Calls : AccountSteps(c)
    \/ (\E c \in Calls : TokenSteps(c)) /\ UNCHANGED wrong
    \/ (Purge \/ Tick) /\ UNCHANGED wrong

Spec == Init /\ [][Next]_vars
-----------------------------------------------------------------------------
(* Properties *)

LocalType ==
    [user: Users \cup {Null}, token: Tokens \cup {Null}, at: Nat, owned: BOOLEAN,
     targets: SUBSET Tokens, bars: BOOLEAN, right: BOOLEAN, failed: Nat,
     role: Roles \cup {Null}, change: Changes \cup {Null}]

\* Types of the tables and of the handlers
TypeOK ==
    /\ users \in [Users -> Account \cup {NoUser}]
    /\ rows \in [Tokens -> Token \cup {Null}]
    /\ issued \in 0..MaxTokens
    /\ held \in SUBSET Tokens
    /\ locks \in [Tokens -> Calls \cup {Null}]
    /\ now \in Nat
    /\ pc \in [Calls -> {"idle", "claim", "reread", "mint", "check", "revokeAll", "revoking",
                         "revokeOne", "issue", "compare", "find", "create", "count", "write", "done"}]
    /\ tx \in [Calls -> LocalType]
    /\ barred \in SUBSET Users
    /\ wrong \in [Users -> Nat]

\* However many requests present a token at once, a chain of rotations has one live token at most
\* (the compare-and-set of rotateRefreshToken); a replay within the grace window starts a chain.
OneLiveTokenPerChain ==
    \A s, t \in Tokens : Live(s) /\ Live(t) /\ rows[s].chain = rows[t].chain => s = t

\* Once a refresh has been refused because the account is inactive, no client holds a live token of
\* that account, whatever rotations were in progress (refresh: re-check, then revoke all).
BarredUserHoldsNoLiveToken ==
    \A u \in barred : \A t \in held : Live(t) => rows[t].user # u

\* No account is locked, or nearer to its lock, than by as many wrong passwords, although the
\* counter is read before the comparison and written after it (login).
LockoutEarned ==
    \A u \in Users :
        /\ users[u].failed <= wrong[u]
        /\ users[u].lockedUntil # Null => wrong[u] >= MaxFailed

PlaceOf(t) ==
    IF rows[t] = Null THEN Null
    ELSE [chain |-> rows[t].chain,
          state |-> IF Live(t) THEN "live" ELSE IF Rotated(t) THEN "exchanged" ELSE "ended"]

Ledger == INSTANCE TokenLedger WITH ledger <- [t \in Tokens |-> PlaceOf(t)]

\* The token table implements the ledger: a rotation is one exchange, and what was exchanged,
\* logged out or revoked is never live again.
KeepsTokens == Ledger!Spec
=============================================================================
