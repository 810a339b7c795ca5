--------------------------- MODULE AccountsProofs ---------------------------
(***************************************************************************)
(* Type correctness of Accounts and the lockout, for every set of users,   *)
(* requests and tokens and every bound of the clock; TokenProofs continues *)
(* with what the refresh tokens promise.                                   *)
(***************************************************************************)
EXTENDS Accounts, TLAPS

\* What a handler has read is what its next statement needs; the rows it has locked are the live
\* token it has claimed.
HandlerOK(c) ==
    /\ pc[c] \in {"claim", "reread", "mint", "check"} =>
         tx[c].user \in Users /\ tx[c].token \in 1..issued
    /\ pc[c] \in {"claim", "reread"} => ~tx[c].owned
    /\ pc[c] = "revokeOne" => tx[c].token \in 1..issued
    /\ pc[c] \in {"compare", "count", "write"} => tx[c].user \in Users /\ Exists(tx[c].user)
    /\ pc[c] \in {"revokeAll", "revoking", "issue", "find", "create"} => tx[c].user \in Users
    /\ pc[c] \in {"find", "create"} => tx[c].role \in Roles
    /\ pc[c] \in {"count", "write"} => tx[c].change \in Changes
    /\ pc[c] = "mint" /\ tx[c].owned => locks[tx[c].token] = c
    /\ \A t \in Tokens :
         locks[t] = c => pc[c] = "mint" /\ tx[c].owned /\ tx[c].token = t /\ Live(t)

\* Tokens and chains are numbered in the order of their issue, and a token that has been replaced
\* has been revoked.
RowsOK ==
    /\ held \subseteq 1..issued
    /\ \A t \in Tokens : rows[t] # Null =>
         /\ t <= issued
         /\ rows[t].chain <= issued
         /\ rows[t].replacedBy # Null => rows[t].revokedAt # Null

TablesOK ==
    /\ users \in [Users -> Account \cup {NoUser}]
    /\ rows \in [Tokens -> Token \cup {Null}]
    /\ issued \in 0..MaxTokens
    /\ held \in SUBSET Tokens
    /\ locks \in [Tokens -> Calls \cup {Null}]
    /\ now \in Nat
    /\ barred \in SUBSET Users
    /\ wrong \in [Users -> Nat]

WellFormed == TypeOK /\ RowsOK /\ \A c \in Calls : HandlerOK(c)

-----------------------------------------------------------------------------
(* What the operators return *)

\* The local variables of a handler that has nothing to remember.
LEMMA NoTxType == NoTx \in LocalType
BY TokensAssumption DEF NoTx, LocalType

\* Where a request goes keeps the types of the handlers.
LEMMA GotoType ==
    ASSUME TypeOK, NEW c \in Calls, NEW step, NEW local \in LocalType,
           step \in {"idle", "claim", "reread", "mint", "check", "revokeAll", "revoking",
                     "revokeOne", "issue", "compare", "find", "create", "count", "write", "done"},
           Goto(c, step, local)
    PROVE  /\ pc' \in [Calls -> {"idle", "claim", "reread", "mint", "check", "revokeAll", "revoking",
                           "revokeOne", "issue", "compare", "find", "create", "count", "write", "done"}]
           /\ tx' \in [Calls -> LocalType]
BY DEF Goto, TypeOK

\* A new row of RefreshToken is one.
LEMMA NewTokenType ==
    ASSUME NEW u \in Users, NEW chain \in Tokens, NEW at \in Nat
    PROVE  NewToken(u, chain, at) \in Token /\ NewToken(u, chain, at) # Null
BY TokensAssumption DEF NewToken, Token

\* updateMany leaves rows that are tokens of the same users and chains.
LEMMA RevokedType ==
    ASSUME TypeOK, NEW S, NEW at \in Nat
    PROVE  /\ Revoked(S, at) \in [Tokens -> Token \cup {Null}]
           /\ \A t \in Tokens :
                /\ Revoked(S, at)[t] = Null <=> rows[t] = Null
                /\ rows[t] # Null =>
                     /\ Revoked(S, at)[t].user = rows[t].user
                     /\ Revoked(S, at)[t].chain = rows[t].chain
                     /\ Revoked(S, at)[t].expiresAt = rows[t].expiresAt
                     /\ Revoked(S, at)[t].replacedBy = rows[t].replacedBy
                     /\ Revoked(S, at)[t].revokedAt =
                          IF t \in S /\ Live(t) THEN at ELSE rows[t].revokedAt
<1> SUFFICES ASSUME NEW t \in Tokens
             PROVE  /\ Revoked(S, at)[t] \in Token \cup {Null}
                    /\ Revoked(S, at)[t] = Null <=> rows[t] = Null
                    /\ rows[t] # Null =>
                         /\ Revoked(S, at)[t].user = rows[t].user
                         /\ Revoked(S, at)[t].chain = rows[t].chain
                         /\ Revoked(S, at)[t].expiresAt = rows[t].expiresAt
                         /\ Revoked(S, at)[t].replacedBy = rows[t].replacedBy
                         /\ Revoked(S, at)[t].revokedAt =
                              IF t \in S /\ Live(t) THEN at ELSE rows[t].revokedAt
    BY DEF Revoked
<1>1. rows[t] \in Token \cup {Null}
      BY DEF TypeOK
<1>2. Null \notin Token
      BY TokensAssumption
<1>3. rows[t] \in Token => [rows[t] EXCEPT !.revokedAt = at] \in Token
      BY DEF Token
<1> QED BY <1>1, <1>2, <1>3 DEF Revoked, Live, Token

\* A rotation puts a token in the place of another, in the same chain.
LEMMA ExchangedType ==
    ASSUME TypeOK, NEW t \in Tokens, NEW n \in Tokens, t # n, rows[t] # Null, NEW at \in Nat
    PROVE  /\ Exchanged(t, n, at) \in [Tokens -> Token \cup {Null}]
           /\ Exchanged(t, n, at)[n] = NewToken(rows[t].user, rows[t].chain, now + TokenTTL)
           /\ Exchanged(t, n, at)[n] # Null
           /\ Exchanged(t, n, at)[t] # Null
           /\ Exchanged(t, n, at)[t].user = rows[t].user
           /\ Exchanged(t, n, at)[t].chain = rows[t].chain
           /\ Exchanged(t, n, at)[t].revokedAt = at
           /\ Exchanged(t, n, at)[t].replacedBy = n
           /\ \A s \in Tokens \ {t, n} : Exchanged(t, n, at)[s] = rows[s]
<1>1. rows[t] \in Token /\ now + TokenTTL \in Nat
      BY TokensAssumption DEF TypeOK
<1>2. NewToken(rows[t].user, rows[t].chain, now + TokenTTL) \in Token
      BY <1>1, NewTokenType DEF Token
<1> DEFINE old == [rows[t] EXCEPT !.revokedAt = at, !.replacedBy = n]
<1>3. /\ old \in Token
      /\ old.user = rows[t].user /\ old.chain = rows[t].chain
      /\ old.revokedAt = at /\ old.replacedBy = n
      BY <1>1 DEF Token
<1>4. Null \notin Token
      BY TokensAssumption
<1>5. rows \in [Tokens -> Token \cup {Null}]
      BY DEF TypeOK
<1>6. /\ Exchanged(t, n, at) =
           [rows EXCEPT ![t] = old, ![n] = NewToken(rows[t].user, rows[t].chain, now + TokenTTL)]
      BY <1>1, <1>5 DEF Exchanged
<1> HIDE DEF old
<1> QED BY <1>1, <1>2, <1>3, <1>4, <1>5, <1>6

-----------------------------------------------------------------------------
(* Steps of the handlers *)

\* What a request's step leaves to the other handlers.
LEMMA OthersOK ==
    ASSUME WellFormed, NEW d \in Calls, issued' \in Nat, issued <= issued',
           \A u \in Users : Exists(u) => Exists(u)',
           \A t \in Tokens : locks'[t] = d <=> locks[t] = d,
           \A t \in Tokens : locks[t] = d /\ Live(t) => Live(t)',
           pc'[d] = pc[d], tx'[d] = tx[d] \/ tx'[d] = [tx[d] EXCEPT !.bars = FALSE]
    PROVE  HandlerOK(d)'
<1>1. tx[d] \in LocalType /\ issued \in Nat
      BY DEF WellFormed, TypeOK
<1>2. /\ tx'[d].user = tx[d].user /\ tx'[d].token = tx[d].token /\ tx'[d].owned = tx[d].owned
      /\ tx'[d].role = tx[d].role /\ tx'[d].change = tx[d].change
      BY <1>1 DEF LocalType
<1>3. HandlerOK(d)
      BY DEF WellFormed
<1>4. 1..issued \subseteq Tokens
      BY TokensAssumption DEF WellFormed, TypeOK, Tokens
<1> QED BY <1>1, <1>2, <1>3, <1>4 DEF HandlerOK

\* A step that keeps the tables' types and goes on to what the next statement needs.
LEMMA WritingOK ==
    ASSUME WellFormed, NEW c \in Calls, NEW step, NEW local \in LocalType,
           step \in {"idle", "claim", "reread", "mint", "check", "revokeAll", "revoking",
                     "revokeOne", "issue", "compare", "find", "create", "count", "write", "done"},
           Goto(c, step, local),
           TablesOK', issued <= issued', RowsOK',
           \A t \in Tokens : \/ locks'[t] = locks[t] /\ (Live(t) => Live(t)')
                            \/ {locks[t], locks'[t]} \subseteq {Null, c},
           \A u \in Users : Exists(u) => Exists(u)',
           pc'[c] = step /\ tx'[c] = local => HandlerOK(c)'
    PROVE  WellFormed'
<1>1. TypeOK'
      BY GotoType DEF WellFormed, TypeOK, TablesOK
<1>2. pc'[c] = step /\ tx'[c] = local
      BY DEF WellFormed, TypeOK, Goto
<1>3. ASSUME NEW d \in Calls, d # c PROVE HandlerOK(d)'
  <2>1. pc'[d] = pc[d] /\ tx'[d] = tx[d]
        BY <1>3 DEF Goto, WellFormed, TypeOK
  <2>2. issued' \in Nat
        BY DEF TablesOK
  <2>3. d # Null
        BY TokensAssumption
  <2>4. \A t \in Tokens : /\ locks'[t] = d <=> locks[t] = d
                          /\ locks[t] = d /\ Live(t) => Live(t)'
        BY <1>3, <2>3
  <2> QED BY <2>1, <2>2, <2>4, OthersOK
<1> QED BY <1>1, <1>2, <1>3 DEF WellFormed

\* A step that changes at most what clients hold and what is locked.
LEMMA GotoOK ==
    ASSUME WellFormed, NEW c \in Calls, NEW step, NEW local \in LocalType,
           step \in {"idle", "claim", "reread", "mint", "check", "revokeAll", "revoking",
                     "revokeOne", "issue", "compare", "find", "create", "count", "write", "done"},
           Goto(c, step, local),
           UNCHANGED <<users, rows, issued, now, barred, wrong>>,
           held' \in SUBSET Tokens, locks' \in [Tokens -> Calls \cup {Null}], RowsOK',
           \A t \in Tokens : locks'[t] = locks[t] \/ {locks[t], locks'[t]} \subseteq {Null, c},
           pc'[c] = step /\ tx'[c] = local => HandlerOK(c)'
    PROVE  WellFormed'
<1>1. TablesOK'
      BY DEF WellFormed, TypeOK, TablesOK
<1>2. issued <= issued' /\ \A u \in Users : Exists(u) => Exists(u)'
      BY DEF WellFormed, TypeOK, Exists
<1>3. \A t \in Tokens : \/ locks'[t] = locks[t] /\ (Live(t) => Live(t)')
                        \/ {locks[t], locks'[t]} \subseteq {Null, c}
      BY DEF Live
<1> QED BY <1>1, <1>2, <1>3, WritingOK

\* A refresh before it writes.
LEMMA ReadingRotation ==
    ASSUME WellFormed, NEW c \in Calls, UNCHANGED wrong,
           PresentToken(c) \/ ClaimToken(c) \/ RereadToken(c) \/ CheckAccount(c) \/ RevokeAll(c)
    PROVE  WellFormed'
<1>. USE DEF WellFormed
<1>0. UNCHANGED <<users, rows, issued, now, barred, wrong>>
      BY DEF PresentToken, ClaimToken, RereadToken, CheckAccount, RevokeAll, tokenVars
<1>1. /\ UNCHANGED <<users, rows, issued, now, barred, wrong>>
      /\ issued \in Nat /\ 1..issued \subseteq Tokens
      /\ RowsOK /\ tx[c] \in LocalType /\ now \in Nat /\ HandlerOK(c)
      BY <1>0, TokensAssumption DEF TypeOK, Tokens
<1>2. held' \subseteq 1..issued => RowsOK'
      BY <1>1 DEF RowsOK
<1>3. \A t \in Tokens : locks[t] # c
      BY <1>1 DEF HandlerOK, PresentToken, ClaimToken, RereadToken, CheckAccount, RevokeAll
<1>4. NoTx \in LocalType
      BY NoTxType
<1>5. CASE PresentToken(c)
  <2>1. PICK t \in held : /\ rows[t] # Null
                          /\ Goto(c, "claim", [NoTx EXCEPT !.user = rows[t].user, !.token = t, !.at = now])
        BY <1>5 DEF PresentToken
  <2>2. t \in Tokens /\ t \in 1..issued /\ rows[t].user \in Users
        BY <1>1, <2>1 DEF RowsOK, TypeOK, Token
  <2> DEFINE local == [NoTx EXCEPT !.user = rows[t].user, !.token = t, !.at = now]
  <2>3. local \in LocalType /\ local.user = rows[t].user /\ local.token = t /\ ~local.owned
        BY <1>1, <1>4, <2>2 DEF LocalType, NoTx
  <2>4. UNCHANGED <<held, locks>>
        BY <1>5 DEF PresentToken, tokenVars
  <2>5. pc'[c] = "claim" /\ tx'[c] = local => HandlerOK(c)'
        BY <1>1, <1>3, <2>2, <2>3, <2>4 DEF HandlerOK
  <2> HIDE DEF local
  <2>6. Goto(c, "claim", local)
        BY <2>1 DEF local
  <2>7. held' \in SUBSET Tokens /\ locks' \in [Tokens -> Calls \cup {Null}] /\ RowsOK'
        BY <1>1, <1>2, <2>4 DEF TypeOK, RowsOK
  <2> QED BY <1>1, <2>3, <2>4, <2>5, <2>6, <2>7, GotoOK
<1>6. CASE ClaimToken(c)
  <2> DEFINE t == tx[c].token
  <2>1. held' = held /\ locks' \in [Tokens -> Calls \cup {Null}] /\ t \in Tokens /\ pc[c] = "claim"
        BY <1>1, <1>6 DEF ClaimToken, TypeOK, HandlerOK
  <2>2. held' \in SUBSET Tokens /\ RowsOK'
        BY <1>1, <1>2, <2>1 DEF TypeOK, RowsOK
  <2>3. CASE ~Live(t)
    <3>1. UNCHANGED locks /\ Goto(c, "reread", tx[c])
          BY <1>6, <2>3 DEF ClaimToken
    <3>2. pc'[c] = "reread" /\ tx'[c] = tx[c] => HandlerOK(c)'
          BY <1>1, <1>3, <2>1, <3>1 DEF HandlerOK
    <3> QED BY <1>1, <2>1, <2>2, <3>1, <3>2, GotoOK
  <2>4. CASE Live(t)
    <3> DEFINE local == [tx[c] EXCEPT !.owned = TRUE]
    <3>1. /\ local \in LocalType /\ local.user = tx[c].user /\ local.token = t /\ local.owned
          BY <1>1 DEF LocalType
    <3>2. /\ locks' = [locks EXCEPT ![t] = c] /\ Goto(c, "mint", local)
          /\ locks[t] = Null
          BY <1>6, <2>4 DEF ClaimToken, Unlocked
    <3> HIDE DEF local
    <3>3. locks'[t] = c /\ \A s \in Tokens \ {t} : locks'[s] = locks[s]
          BY <2>1, <3>2 DEF TypeOK
    <3>4. pc'[c] = "mint" /\ tx'[c] = local => HandlerOK(c)'
          BY <1>1, <1>3, <2>1, <2>4, <3>1, <3>3 DEF HandlerOK, Live
    <3> QED BY <1>1, <2>1, <2>2, <3>1, <3>2, <3>3, <3>4, GotoOK
  <2> QED BY <2>3, <2>4
<1>7. CASE RereadToken(c)
  <2>1. UNCHANGED <<held, locks>> /\ pc[c] = "reread"
        BY <1>7 DEF RereadToken, tokenVars
  <2>2. held' \in SUBSET Tokens /\ locks' \in [Tokens -> Calls \cup {Null}] /\ RowsOK'
        BY <1>1, <1>2, <2>1 DEF TypeOK, RowsOK
  <2>3. CASE Answer(c)
    <3>1. pc'[c] = "done" /\ tx'[c] = NoTx => HandlerOK(c)'
          BY <1>3, <2>1 DEF HandlerOK
    <3> QED BY <1>1, <1>4, <2>1, <2>2, <2>3, <3>1, GotoOK DEF Answer
  <2>4. ASSUME NEW step \in {"mint", "revokeAll"}, Goto(c, step, tx[c]) PROVE WellFormed'
    <3>1. pc'[c] = step /\ tx'[c] = tx[c] => HandlerOK(c)'
          BY <1>1, <1>3, <2>1 DEF HandlerOK
    <3> QED BY <1>1, <2>1, <2>2, <2>4, <3>1, GotoOK
  <2> QED BY <1>7, <2>3, <2>4 DEF RereadToken
<1>8. CASE CheckAccount(c)
  <2>1. /\ UNCHANGED locks /\ held' \in {held, held \cup {tx[c].token}} /\ tx[c].token \in 1..issued
        /\ pc[c] = "check"
        BY <1>1, <1>8 DEF CheckAccount, HandlerOK
  <2>2. held' \in SUBSET Tokens /\ locks' \in [Tokens -> Calls \cup {Null}] /\ RowsOK'
        BY <1>1, <1>2, <2>1 DEF TypeOK, RowsOK
  <2>3. CASE Answer(c)
    <3>1. pc'[c] = "done" /\ tx'[c] = NoTx => HandlerOK(c)'
          BY <1>3, <2>1 DEF HandlerOK
    <3> QED BY <1>1, <1>4, <2>1, <2>2, <2>3, <3>1, GotoOK DEF Answer
  <2>4. CASE Goto(c, "revokeAll", [tx[c] EXCEPT !.at = now, !.bars = TRUE])
    <3> DEFINE local == [tx[c] EXCEPT !.at = now, !.bars = TRUE]
    <3>1. local \in LocalType /\ local.user = tx[c].user
          BY <1>1 DEF LocalType
    <3>2. pc'[c] = "revokeAll" /\ tx'[c] = local => HandlerOK(c)'
          BY <1>1, <1>3, <2>1, <3>1 DEF HandlerOK
    <3> HIDE DEF local
    <3>3. Goto(c, "revokeAll", local)
          BY <2>4 DEF local
    <3> QED BY <1>1, <2>1, <2>2, <3>1, <3>2, <3>3, GotoOK
  <2> QED BY <1>8, <2>3, <2>4 DEF CheckAccount
<1>9. CASE RevokeAll(c)
  <2> DEFINE found == {t \in Tokens : Live(t) /\ rows[t].user = tx[c].user}
             local == [tx[c] EXCEPT !.targets = found]
  <2>1. local \in LocalType /\ local.user = tx[c].user
        BY <1>1 DEF LocalType
  <2>2. UNCHANGED <<held, locks>> /\ Goto(c, "revoking", local) /\ pc[c] = "revokeAll"
        BY <1>9 DEF RevokeAll, tokenVars
  <2>3. pc'[c] = "revoking" /\ tx'[c] = local => HandlerOK(c)'
        BY <1>1, <1>3, <2>1, <2>2 DEF HandlerOK
  <2> HIDE DEF local
  <2>4. held' \in SUBSET Tokens /\ locks' \in [Tokens -> Calls \cup {Null}] /\ RowsOK'
        BY <1>1, <1>2, <2>2 DEF TypeOK, RowsOK
  <2> QED BY <1>1, <2>1, <2>2, <2>3, <2>4, GotoOK
<1> QED BY <1>5, <1>6, <1>7, <1>8, <1>9

\* The commit of a rotation.
LEMMA Minting ==
    ASSUME WellFormed, NEW c \in Calls, UNCHANGED wrong, MintToken(c)
    PROVE  WellFormed'
<1> DEFINE t == tx[c].token
           n == issued + 1
           local == [NoTx EXCEPT !.user = tx[c].user, !.token = n]
<1>1. /\ TypeOK /\ TablesOK /\ RowsOK /\ HandlerOK(c) /\ pc[c] = "mint"
      /\ tx[c] \in LocalType /\ NoTx \in LocalType /\ now + TokenTTL \in Nat
      BY NoTxType, TokensAssumption DEF TypeOK, TablesOK, MintToken, WellFormed
<1>2. /\ issued \in Nat /\ t \in Tokens /\ t \in 1..issued /\ n \in Tokens /\ t # n
      /\ tx[c].user \in Users
      /\ issued' = n /\ issued' \in 0..MaxTokens /\ issued <= issued'
      /\ UNCHANGED <<users, held, now, barred>> /\ Goto(c, "check", local)
      BY <1>1, TokensAssumption DEF MintToken, HandlerOK, Tokens, TypeOK
<1>3. local \in LocalType /\ local.user = tx[c].user /\ local.token = n
      BY <1>1, <1>2 DEF LocalType, NoTx
<1> HIDE DEF local
<1>4. /\ rows' \in [Tokens -> Token \cup {Null}] /\ RowsOK'
      /\ locks' \in [Tokens -> Calls \cup {Null}]
      /\ \A s \in Tokens : locks'[s] # c
      /\ \A s \in Tokens : \/ locks'[s] = locks[s] /\ (Live(s) => Live(s)')
                           \/ {locks[s], locks'[s]} \subseteq {Null, c}
  <2>1. CASE tx[c].owned
    <3>1. /\ rows' = Exchanged(t, n, tx[c].at) /\ tx[c].at \in Nat
          /\ locks' = [locks EXCEPT ![t] = Null] /\ locks[t] = c /\ Live(t)
          BY <1>1, <1>2, <2>1 DEF MintToken, LocalType, HandlerOK
    <3>2. rows[t] \in Token /\ rows[t] # Null /\ rows[t].chain \in Nat /\ rows[t].chain <= issued
          BY <1>1, <1>2, <3>1 DEF TypeOK, RowsOK, Live, Token, Tokens
    <3>3. /\ rows'[n] = NewToken(rows[t].user, rows[t].chain, now + TokenTTL)
          /\ rows'[t].revokedAt = tx[c].at /\ rows'[t].chain = rows[t].chain
          /\ rows' \in [Tokens -> Token \cup {Null}]
          /\ \A s \in Tokens \ {t, n} : rows'[s] = rows[s]
      <4> DEFINE at == tx[c].at
      <4> HIDE DEF t, n, at
      <4>1. rows' = Exchanged(t, n, at) /\ at \in Nat
            BY <3>1 DEF at
      <4>2. t \in Tokens /\ n \in Tokens /\ t # n
            BY <1>2
      <4> QED BY <1>1, <3>2, <4>1, <4>2, ExchangedType DEF at
    <3>4. rows'[n].replacedBy = Null /\ rows'[n].chain <= n
          BY <1>2, <3>2, <3>3 DEF NewToken
    <3>5. rows'[t].revokedAt # Null /\ rows'[t].chain <= n
      <4>1. tx[c].at # Null
            BY <3>1, TokensAssumption
      <4> QED BY <1>2, <3>2, <3>3, <4>1
    <3>6. \A s \in Tokens \ {t, n} : rows'[s] # Null =>
            s <= n /\ rows'[s].chain <= n /\ (rows'[s].replacedBy # Null => rows'[s].revokedAt # Null)
          BY <1>1, <1>2, <3>3 DEF RowsOK, TypeOK, Token, Tokens
    <3>7. held' \subseteq 1..n
          BY <1>1, <1>2 DEF RowsOK
    <3>8. \A s \in Tokens : s # t => locks'[s] = locks[s] /\ locks'[s] # c
          BY <1>1, <3>1 DEF TypeOK, HandlerOK
    <3>9. locks'[t] = Null /\ Null # c
          BY <1>1, <1>2, <3>1, TokensAssumption DEF TypeOK
    <3>10. RowsOK'
           BY <1>2, <3>4, <3>5, <3>6, <3>7 DEF RowsOK
    <3>11. locks' \in [Tokens -> Calls \cup {Null}]
           BY <1>1, <3>1 DEF TypeOK
    <3>12. \A s \in Tokens : s # t /\ Live(s) => Live(s)'
      <4> SUFFICES ASSUME NEW s \in Tokens, s # t, Live(s) PROVE Live(s)'
          OBVIOUS
      <4>1. s # n
            BY <1>1, <1>2 DEF RowsOK, Live
      <4> QED BY <3>3, <4>1 DEF Live
    <3> QED BY <3>1, <3>3, <3>8, <3>9, <3>10, <3>11, <3>12
  <2>2. CASE ~tx[c].owned
    <3>1. /\ rows' = [rows EXCEPT ![n] = NewToken(tx[c].user, n, now + TokenTTL)]
          /\ NewToken(tx[c].user, n, now + TokenTTL) \in Token
          /\ UNCHANGED locks
          BY <1>1, <1>2, <2>2, NewTokenType DEF MintToken
    <3>2. /\ rows' \in [Tokens -> Token \cup {Null}]
          /\ rows'[n].chain <= n /\ rows'[n].replacedBy = Null
          /\ \A s \in Tokens \ {n} : rows'[s] = rows[s]
          BY <1>1, <1>2, <3>1 DEF TypeOK, NewToken
    <3>3. held' \subseteq 1..n
          BY <1>1, <1>2 DEF RowsOK
    <3>4. \A s \in Tokens \ {n} : rows'[s] # Null =>
            s <= n /\ rows'[s].chain <= n /\ (rows'[s].replacedBy # Null => rows'[s].revokedAt # Null)
          BY <1>1, <1>2, <3>2 DEF RowsOK, TypeOK, Token, Tokens
    <3>5. RowsOK'
          BY <1>2, <3>2, <3>3, <3>4 DEF RowsOK
    <3>6. \A s \in Tokens : Live(s) => Live(s)'
          BY <1>1, <1>2, <3>2 DEF RowsOK, Live
    <3> QED BY <1>1, <2>2, <3>1, <3>2, <3>5, <3>6 DEF TypeOK, HandlerOK
  <2> QED BY <2>1, <2>2
<1>5. pc'[c] = "check" /\ tx'[c] = local => HandlerOK(c)'
      BY <1>2, <1>3, <1>4 DEF HandlerOK
<1>6. TablesOK'
      BY <1>1, <1>2, <1>4 DEF TablesOK
<1>7. \A u \in Users : Exists(u) => Exists(u)'
      BY <1>2 DEF Exists
<1> QED BY <1>2, <1>3, <1>4, <1>5, <1>6, <1>7, WritingOK

\* A revocation, which waits for the rows it revokes.
LEMMA Revoking ==
    ASSUME WellFormed, NEW c \in Calls, NEW S, NEW at \in Nat,
           rows' = Revoked(S, at), \A t \in S \cap Tokens : Unlocked(t), pc[c] # "mint",
           barred' \in SUBSET Users, Answer(c),
           UNCHANGED <<users, issued, held, locks, now, wrong>>
    PROVE  WellFormed'
<1>1. TypeOK /\ TablesOK /\ RowsOK /\ HandlerOK(c)
      BY DEF WellFormed, TypeOK, TablesOK
<1>2. /\ rows' \in [Tokens -> Token \cup {Null}]
      /\ \A t \in Tokens :
           /\ rows'[t] = Null <=> rows[t] = Null
           /\ rows[t] # Null =>
                /\ rows'[t].chain = rows[t].chain
                /\ rows'[t].replacedBy = rows[t].replacedBy
                /\ rows'[t].revokedAt = IF t \in S /\ Live(t) THEN at ELSE rows[t].revokedAt
      BY <1>1, RevokedType
<1>3. Null # at
      BY TokensAssumption
<1>4. RowsOK'
      BY <1>1, <1>2, <1>3 DEF RowsOK
<1>5. \A t \in Tokens : \/ locks'[t] = locks[t] /\ (Live(t) => Live(t)')
                        \/ {locks[t], locks'[t]} \subseteq {Null, c}
      BY <1>2 DEF Live, Unlocked
<1>6. TablesOK'
      BY <1>1, <1>2 DEF TablesOK
<1>7. \A t \in Tokens : locks'[t] # c
      BY <1>1 DEF HandlerOK
<1>8. pc'[c] = "done" => HandlerOK(c)'
      BY <1>7 DEF HandlerOK
<1>9. issued <= issued' /\ \A u \in Users : Exists(u) => Exists(u)'
      BY <1>1 DEF Exists, TypeOK
<1> QED BY <1>4, <1>5, <1>6, <1>8, <1>9, NoTxType, WritingOK DEF Answer

\* Logout, and the revocations.
LEMMA Ending ==
    ASSUME WellFormed, NEW c \in Calls, UNCHANGED wrong,
           RevokeTargets(c) \/ Logout(c) \/ RevokeOne(c) \/ GiveUp(c)
    PROVE  WellFormed'
<1>1. /\ TypeOK /\ TablesOK /\ RowsOK /\ HandlerOK(c) /\ tx[c] \in LocalType /\ NoTx \in LocalType
      /\ 1..issued \subseteq Tokens
      BY NoTxType, TokensAssumption DEF WellFormed, TypeOK, TablesOK, Tokens
<1>2. CASE RevokeTargets(c)
  <2>1. tx[c].user \in Users /\ tx[c].at \in Nat /\ pc[c] = "revoking"
        BY <1>1, <1>2 DEF RevokeTargets, HandlerOK, LocalType
  <2>2. barred' \in SUBSET Users
        BY <1>1, <1>2, <2>1 DEF RevokeTargets, TypeOK
  <2> QED BY <1>2, <2>1, <2>2, Revoking DEF RevokeTargets
<1>3. CASE RevokeOne(c)
  <2>1. tx[c].at \in Nat /\ pc[c] = "revokeOne"
        BY <1>1, <1>3 DEF RevokeOne, LocalType
  <2>2. barred' \in SUBSET Users
        BY <1>1, <1>3 DEF RevokeOne, TypeOK
  <2> QED BY <1>3, <2>1, <2>2, Revoking DEF RevokeOne
<1>4. CASE Logout(c)
  <2>1. PICK t \in held : Goto(c, "revokeOne", [NoTx EXCEPT !.token = t, !.at = now])
        BY <1>4 DEF Logout
  <2> DEFINE local == [NoTx EXCEPT !.token = t, !.at = now]
  <2>2. t \in 1..issued /\ t \in Tokens
        BY <1>1 DEF RowsOK
  <2>3. local \in LocalType /\ local.token = t
        BY <1>1, <2>2 DEF LocalType, NoTx, TypeOK
  <2>4. UNCHANGED <<tokenVars, users, now, barred, wrong>> /\ pc[c] = "idle"
        BY <1>4 DEF Logout
  <2>5. pc'[c] = "revokeOne" /\ tx'[c] = local => HandlerOK(c)'
        BY <1>1, <2>2, <2>3, <2>4 DEF HandlerOK, tokenVars
  <2> HIDE DEF local
  <2>6. Goto(c, "revokeOne", local)
        BY <2>1 DEF local
  <2>7. RowsOK' /\ held' \in SUBSET Tokens /\ locks' \in [Tokens -> Calls \cup {Null}]
        BY <1>1, <2>4 DEF RowsOK, TypeOK, tokenVars
  <2> QED BY <2>3, <2>4, <2>5, <2>6, <2>7, GotoOK DEF tokenVars
<1>5. CASE GiveUp(c)
  <2>1. /\ UNCHANGED <<users, rows, issued, held, now, barred, wrong>> /\ Answer(c)
        /\ locks' = [t \in Tokens |-> IF locks[t] = c THEN Null ELSE locks[t]]
        BY <1>5 DEF GiveUp
  <2>2. /\ locks' \in [Tokens -> Calls \cup {Null}]
        /\ \A t \in Tokens : locks'[t] = locks[t] \/ {locks[t], locks'[t]} \subseteq {Null, c}
        BY <1>1, <2>1 DEF TypeOK
  <2>3. \A t \in Tokens : locks'[t] # c
        BY <2>1, TokensAssumption
  <2>4. pc'[c] = "done" => HandlerOK(c)'
        BY <2>3 DEF HandlerOK
  <2>5. RowsOK' /\ held' \in SUBSET Tokens
        BY <1>1, <2>1 DEF RowsOK, TypeOK
  <2> QED BY <1>1, <2>1, <2>2, <2>4, <2>5, GotoOK DEF Answer
<1> QED BY <1>2, <1>3, <1>4, <1>5

\* A purge, and time.
LEMMA Purging ==
    ASSUME WellFormed, UNCHANGED wrong, Purge \/ Tick
    PROVE  WellFormed'
<1>1. TypeOK /\ RowsOK /\ issued \in Nat
      BY DEF WellFormed, TypeOK
<1>2. TypeOK' /\ RowsOK' /\ UNCHANGED <<users, issued, locks, pc, tx>>
  <2>1. CASE Purge
    <3>1. \A t \in Tokens : rows'[t] \in {rows[t], Null}
          BY <2>1 DEF Purge
    <3>2. rows' \in [Tokens -> Token \cup {Null}]
          BY <1>1, <2>1 DEF Purge, TypeOK
    <3>3. UNCHANGED <<users, issued, held, locks, now, pc, tx, barred, wrong>>
          BY <2>1 DEF Purge
    <3>4. TypeOK'
          BY <1>1, <3>2, <3>3 DEF TypeOK
    <3>5. RowsOK'
          BY <1>1, <3>1, <3>3 DEF RowsOK
    <3> QED BY <3>3, <3>4, <3>5
  <2>2. CASE Tick
    <3>1. UNCHANGED <<tokenVars, users, pc, tx, barred, wrong>> /\ now' \in Nat
          BY <1>1, <2>2 DEF Tick, TypeOK
    <3> QED BY <1>1, <3>1 DEF TypeOK, RowsOK, tokenVars
  <2> QED BY <2>1, <2>2
<1>3. \A t \in Tokens : locks[t] # Null /\ Live(t) => Live(t)'
      BY <1>1 DEF Purge, Tick, tokenVars, Live, Unlocked, TypeOK
<1>4. ASSUME NEW d \in Calls PROVE HandlerOK(d)'
  <2>1. d # Null
        BY TokensAssumption
  <2>2. \A t \in Tokens : locks[t] = d /\ Live(t) => Live(t)'
        BY <1>3, <2>1
  <2>3. \A u \in Users : Exists(u) => Exists(u)'
        BY <1>2 DEF Exists
  <2> QED BY <1>1, <1>2, <2>2, <2>3, OthersOK
<1> QED BY <1>2, <1>4 DEF WellFormed

\* The start of a session.
LEMMA Establishing ==
    ASSUME WellFormed, NEW c \in Calls, UNCHANGED wrong, EstablishSession(c)
    PROVE  WellFormed'
<1> DEFINE u == tx[c].user
           n == issued + 1
<1>1. /\ TypeOK /\ TablesOK /\ RowsOK /\ HandlerOK(c) /\ pc[c] = "issue"
      /\ NoTx \in LocalType /\ now + TokenTTL \in Nat
      BY NoTxType, TokensAssumption DEF EstablishSession, WellFormed, TypeOK, TablesOK
<1>2. /\ u \in Users /\ n \in Tokens /\ issued \in Nat /\ issued' = n /\ n \in 0..MaxTokens
      /\ UNCHANGED <<users, locks, now, wrong>>
      /\ held' = held \cup {n} /\ barred' = barred \ {u}
      BY <1>1, TokensAssumption DEF EstablishSession, HandlerOK, TypeOK, Tokens
<1>3. /\ rows' = [rows EXCEPT ![n] = NewToken(u, n, now + TokenTTL)]
      /\ NewToken(u, n, now + TokenTTL) \in Token
      BY <1>1, <1>2, NewTokenType DEF EstablishSession
<1>4. /\ rows' \in [Tokens -> Token \cup {Null}]
      /\ rows'[n].chain = n /\ rows'[n].replacedBy = Null
      /\ \A s \in Tokens \ {n} : rows'[s] = rows[s]
      BY <1>1, <1>2, <1>3 DEF TypeOK, NewToken
<1>5. pc' = [pc EXCEPT ![c] = "done"]
      BY DEF EstablishSession
<1>6. ASSUME NEW d \in Calls
      PROVE  /\ tx'[d] \in LocalType
             /\ d # c => tx'[d] = tx[d] \/ tx'[d] = [tx[d] EXCEPT !.bars = FALSE]
  <2>1. tx[d] \in LocalType
        BY <1>1 DEF TypeOK
  <2>2. [tx[d] EXCEPT !.bars = FALSE] \in LocalType
        BY <2>1 DEF LocalType
  <2> QED BY <1>1, <2>1, <2>2 DEF EstablishSession
<1>7. tx' \in [Calls -> LocalType]
      BY <1>6 DEF EstablishSession
<1>8. TypeOK'
      BY <1>1, <1>2, <1>4, <1>5, <1>7 DEF TypeOK
<1>9. RowsOK'
      BY <1>1, <1>2, <1>4 DEF RowsOK, TypeOK, Token, Tokens
<1>10. \A t \in Tokens : Live(t) => Live(t)'
       BY <1>1, <1>2, <1>4 DEF RowsOK, Live
<1>11. HandlerOK(c)'
       BY <1>1, <1>2, <1>5 DEF HandlerOK, TypeOK
<1>12. ASSUME NEW d \in Calls, d # c PROVE HandlerOK(d)'
  <2>1. pc'[d] = pc[d]
        BY <1>1, <1>5, <1>12 DEF TypeOK
  <2>2. \A v \in Users : Exists(v) => Exists(v)'
        BY <1>2 DEF Exists
  <2>3. issued' \in Nat /\ issued <= issued'
        BY <1>2
  <2>4. \A t \in Tokens : (locks'[t] = d <=> locks[t] = d) /\ (locks[t] = d /\ Live(t) => Live(t)')
        BY <1>2, <1>10
  <2>5. tx'[d] = tx[d] \/ tx'[d] = [tx[d] EXCEPT !.bars = FALSE]
        BY <1>6, <1>12
  <2> QED BY <2>1, <2>2, <2>3, <2>4, <2>5, OthersOK
<1> QED BY <1>8, <1>9, <1>11, <1>12 DEF WellFormed

-----------------------------------------------------------------------------
(* Steps of login, registration and administration *)

\* A step on accounts, which leaves the tokens alone.
LEMMA AccountOK ==
    ASSUME WellFormed, NEW c \in Calls, NEW step, NEW local \in LocalType,
           step \in {"issue", "compare", "find", "create", "count", "write", "done"},
           Goto(c, step, local), pc[c] # "mint",
           UNCHANGED <<tokenVars, now, barred>>,
           users' \in [Users -> Account \cup {NoUser}], wrong' \in [Users -> Nat],
           \A u \in Users : Exists(u) => Exists(u)',
           step \in {"compare", "count", "write"} => local.user \in Users /\ users'[local.user] # NoUser,
           step \in {"issue", "find", "create"} => local.user \in Users,
           step \in {"find", "create"} => local.role \in Roles,
           step \in {"count", "write"} => local.change \in Changes
    PROVE  WellFormed'
<1>1. TypeOK /\ RowsOK /\ HandlerOK(c)
      BY DEF WellFormed
<1>2. TablesOK' /\ RowsOK' /\ issued <= issued'
      BY <1>1 DEF TablesOK, TypeOK, RowsOK, tokenVars
<1>3. \A t \in Tokens : locks'[t] = locks[t] /\ (Live(t) => Live(t)') /\ locks'[t] # c
      BY <1>1 DEF tokenVars, Live, HandlerOK
<1>4. ASSUME pc'[c] = step, tx'[c] = local PROVE HandlerOK(c)'
  <2>1. step \notin {"claim", "reread", "mint", "check", "revokeOne", "revokeAll", "revoking"}
        OBVIOUS
  <2> QED BY <1>3, <1>4, <2>1 DEF HandlerOK, Exists
<1> QED BY <1>2, <1>3, <1>4, WritingOK

\* The row of an account after its login counters are written.
LEMMA CounterType ==
    ASSUME TypeOK, NEW u \in Users, Exists(u), NEW failed \in Nat, NEW until \in Nat \cup {Null},
           users' = [users EXCEPT ![u] = WithCounters(users[u], failed, until)]
    PROVE  /\ users' \in [Users -> Account \cup {NoUser}]
           /\ users'[u] \in Account /\ users'[u].failed = failed /\ users'[u].lockedUntil = until
           /\ users'[u].isActive = users[u].isActive
           /\ \A v \in Users : v # u => users'[v] = users[v]
           /\ \A v \in Users : Exists(v) => Exists(v)'
<1> DEFINE row == WithCounters(users[u], failed, until)
<1>1. users[u] \in Account
      BY DEF TypeOK, Exists
<1>2. /\ row \in Account /\ row.failed = failed /\ row.lockedUntil = until
      /\ row.isActive = users[u].isActive
      BY <1>1 DEF Account, WithCounters
<1>3. NoUser \notin Account
      BY AccountsAssumption DEF NoUser, Account
<1> HIDE DEF row
<1> QED BY <1>2, <1>3 DEF row, TypeOK, Exists

\* What login writes after a wrong password.
LEMMA AfterFailureType ==
    ASSUME TypeOK, NEW failed \in Nat
    PROVE  /\ AfterFailure(failed).failed \in 0..failed + 1
           /\ AfterFailure(failed).lockedUntil \in Nat \cup {Null}
           /\ AfterFailure(failed).lockedUntil # Null => failed + 1 >= MaxFailed
<1>1. now + Lockout \in Nat
      BY AccountsAssumption DEF TypeOK
<1>2. CASE failed + 1 >= MaxFailed
      BY <1>1, <1>2 DEF AfterFailure
<1>3. CASE ~(failed + 1 >= MaxFailed)
      BY <1>3 DEF AfterFailure
<1> QED BY <1>2, <1>3

\* Login.
LEMMA LoggingIn ==
    ASSUME WellFormed, NEW c \in Calls,
           Login(c) \/ RecordSuccessfulLogin(c) \/ RecordFailedLogin(c)
    PROVE  WellFormed'
<1>1. /\ TypeOK /\ HandlerOK(c) /\ NoTx \in LocalType /\ tx[c] \in LocalType
      /\ UNCHANGED <<tokenVars, now, barred>>
      BY NoTxType DEF WellFormed, TypeOK, Login, RecordSuccessfulLogin, RecordFailedLogin
<1>2. CASE Login(c)
  <2>1. PICK a \in Asked(c, "login") :
              /\ users[a.user].isActive
              /\ Goto(c, "compare", [NoTx EXCEPT !.user = a.user, !.right = a.right,
                                                 !.failed = users[a.user].failed])
        BY <1>2 DEF Login
  <2> DEFINE local == [NoTx EXCEPT !.user = a.user, !.right = a.right, !.failed = users[a.user].failed]
  <2>2. a \in Ask /\ a.op = "login"
        BY TokensAssumption DEF Asked
  <2>3. a.user \in Users /\ a.right \in BOOLEAN
        BY <2>2 DEF Ask
  <2>4. Exists(a.user) /\ users[a.user].failed \in Nat
        BY <1>1, <2>1, <2>3 DEF Exists, TypeOK, NoUser, Account
  <2>5. local \in LocalType /\ local.user = a.user
        BY <1>1, <2>3, <2>4 DEF LocalType, NoTx
  <2>6. UNCHANGED <<users, wrong>> /\ pc[c] = "idle"
        BY <1>2 DEF Login
  <2> HIDE DEF local
  <2>7. Goto(c, "compare", local)
        BY <2>1 DEF local
  <2>8. /\ users' \in [Users -> Account \cup {NoUser}] /\ wrong' \in [Users -> Nat]
        /\ \A u \in Users : Exists(u) => Exists(u)'
        BY <1>1, <2>6 DEF TypeOK, Exists
  <2>9. users'[local.user] # NoUser
        BY <2>4, <2>5, <2>6 DEF Exists
  <2> QED BY <1>1, <2>3, <2>5, <2>6, <2>7, <2>8, <2>9, AccountOK
<1>3. CASE RecordSuccessfulLogin(c)
  <2> DEFINE u == tx[c].user
             local == [NoTx EXCEPT !.user = u]
  <2>1. u \in Users /\ Exists(u) /\ pc[c] = "compare" /\ UNCHANGED wrong
        BY <1>1, <1>3 DEF RecordSuccessfulLogin, HandlerOK
  <2>2. /\ users' \in [Users -> Account \cup {NoUser}] /\ wrong' \in [Users -> Nat]
        /\ \A v \in Users : Exists(v) => Exists(v)'
        BY <1>1, <1>3, <2>1, CounterType DEF RecordSuccessfulLogin, TypeOK
  <2>3. local \in LocalType /\ local.user = u
        BY <1>1, <2>1 DEF LocalType, NoTx
  <2> HIDE DEF local
  <2>4. Goto(c, "issue", local)
        BY <1>3 DEF RecordSuccessfulLogin, local
  <2> QED BY <1>1, <2>1, <2>2, <2>3, <2>4, AccountOK
<1>4. CASE RecordFailedLogin(c)
  <2> DEFINE u == tx[c].user
             next == AfterFailure(tx[c].failed)
  <2>1. /\ u \in Users /\ Exists(u) /\ pc[c] = "compare" /\ wrong' = [wrong EXCEPT ![u] = @ + 1]
        /\ users' = [users EXCEPT ![u] = WithCounters(users[u], next.failed, next.lockedUntil)]
        /\ Answer(c)
        BY <1>1, <1>4 DEF RecordFailedLogin, HandlerOK
  <2>2. next.failed \in Nat /\ next.lockedUntil \in Nat \cup {Null}
        BY <1>1, AfterFailureType DEF LocalType
  <2> HIDE DEF next
  <2>3. /\ users' \in [Users -> Account \cup {NoUser}]
        /\ \A v \in Users : Exists(v) => Exists(v)'
        BY <1>1, <2>1, <2>2, CounterType
  <2>4. wrong' \in [Users -> Nat]
        BY <1>1, <2>1 DEF TypeOK
  <2> QED BY <1>1, <2>1, <2>3, <2>4, AccountOK DEF Answer
<1> QED BY <1>2, <1>3, <1>4

\* Registration and bootstrap.
LEMMA Registering ==
    ASSUME WellFormed, NEW c \in Calls,
           Bootstrap(c) \/ Register(c) \/ FindEmail(c) \/ CreateUser(c)
    PROVE  WellFormed'
<1>1. /\ TypeOK /\ HandlerOK(c) /\ NoTx \in LocalType /\ tx[c] \in LocalType
      /\ UNCHANGED <<tokenVars, now, barred, wrong>> /\ wrong' \in [Users -> Nat]
      BY NoTxType DEF WellFormed, TypeOK, Bootstrap, Register, FindEmail, CreateUser
<1>2. ASSUME UNCHANGED users
      PROVE  /\ users' \in [Users -> Account \cup {NoUser}]
             /\ \A u \in Users : Exists(u) => Exists(u)'
      BY <1>1, <1>2 DEF TypeOK, Exists
<1>3. CASE Bootstrap(c) \/ Register(c)
  <2>1. PICK a \in Asked(c, "bootstrap") \cup Asked(c, "register"), role \in Roles :
              Goto(c, "find", [NoTx EXCEPT !.user = a.user, !.role = role])
        BY <1>3 DEF Bootstrap, Register, Roles
  <2> DEFINE local == [NoTx EXCEPT !.user = a.user, !.role = role]
  <2>2. a.user \in Users
    <3>1. a \in Ask /\ a.op \in {"register", "bootstrap"}
          BY TokensAssumption DEF Asked
    <3> QED BY <3>1 DEF Ask
  <2>3. local \in LocalType /\ local.user = a.user /\ local.role = role
        BY <1>1, <2>2 DEF LocalType, NoTx
  <2>4. UNCHANGED users /\ pc[c] = "idle"
        BY <1>3 DEF Bootstrap, Register
  <2> HIDE DEF local
  <2>5. Goto(c, "find", local)
        BY <2>1 DEF local
  <2> QED BY <1>1, <1>2, <2>2, <2>3, <2>4, <2>5, AccountOK
<1>4. CASE FindEmail(c)
  <2>1. UNCHANGED users /\ pc[c] = "find" /\ (Answer(c) \/ Goto(c, "create", tx[c]))
        BY <1>4 DEF FindEmail
  <2>2. tx[c].user \in Users /\ tx[c].role \in Roles
        BY <1>1, <2>1 DEF HandlerOK
  <2> QED BY <1>1, <1>2, <2>1, <2>2, AccountOK DEF Answer
<1>5. CASE CreateUser(c)
  <2> DEFINE u == tx[c].user
  <2>1. u \in Users /\ tx[c].role \in Roles /\ pc[c] = "create"
        BY <1>1, <1>5 DEF HandlerOK, CreateUser
  <2>2. CASE Exists(u)
    <3>1. Answer(c) /\ UNCHANGED users
          BY <1>5, <2>2 DEF CreateUser
    <3> QED BY <1>1, <1>2, <2>1, <3>1, AccountOK DEF Answer
  <2>3. CASE ~Exists(u)
    <3> DEFINE local == [NoTx EXCEPT !.user = u]
               row == [NoUser EXCEPT !.role = tx[c].role, !.isActive = TRUE]
    <3>1. users' = [users EXCEPT ![u] = row] /\ Goto(c, "issue", local)
          BY <1>5, <2>3 DEF CreateUser
    <3>2. row \in Account /\ local \in LocalType /\ local.user = u
          BY <1>1, <2>1 DEF Account, NoUser, LocalType, NoTx
    <3>3. NoUser \notin Account
          BY AccountsAssumption DEF NoUser, Account
    <3> HIDE DEF local, row
    <3>4. /\ users' \in [Users -> Account \cup {NoUser}]
          /\ \A v \in Users : Exists(v) => Exists(v)'
          BY <1>1, <2>1, <3>1, <3>2, <3>3 DEF TypeOK, Exists
    <3> QED BY <1>1, <2>1, <3>1, <3>2, <3>4, AccountOK
  <2> QED BY <2>2, <2>3
<1> QED BY <1>3, <1>4, <1>5

\* An administrator's request before it writes.
LEMMA Administering ==
    ASSUME WellFormed, NEW c \in Calls, ReadTarget(c) \/ CountOtherAdmins(c)
    PROVE  WellFormed'
<1>1. /\ TypeOK /\ HandlerOK(c) /\ NoTx \in LocalType /\ tx[c] \in LocalType
      /\ UNCHANGED <<tokenVars, users, now, barred, wrong>> /\ wrong' \in [Users -> Nat]
      /\ users' \in [Users -> Account \cup {NoUser}]
      BY NoTxType DEF WellFormed, TypeOK, ReadTarget, CountOtherAdmins
<1>2. \A u \in Users : Exists(u) => Exists(u)'
      BY <1>1 DEF Exists
<1>3. CASE ReadTarget(c)
  <2>1. PICK a \in Asked(c, "change"), step \in {"count", "write"} :
              Exists(a.user) /\ Goto(c, step, [NoTx EXCEPT !.user = a.user, !.change = a.change])
        BY <1>3 DEF ReadTarget
  <2> DEFINE local == [NoTx EXCEPT !.user = a.user, !.change = a.change]
  <2>2. a.user \in Users /\ a.change \in Changes
    <3>1. a \in Ask /\ a.op = "change"
          BY TokensAssumption DEF Asked
    <3> QED BY <3>1 DEF Ask
  <2>3. local \in LocalType /\ local.user = a.user /\ local.change = a.change
        BY <1>1, <2>2 DEF LocalType, NoTx
  <2>4. pc[c] = "idle"
        BY <1>3 DEF ReadTarget
  <2> HIDE DEF local
  <2>5. Goto(c, step, local)
        BY <2>1 DEF local
  <2>6. users'[local.user] # NoUser
        BY <1>1, <2>1, <2>3 DEF Exists
  <2> QED BY <1>1, <1>2, <2>2, <2>3, <2>4, <2>5, <2>6, AccountOK
<1>4. CASE CountOtherAdmins(c)
  <2>1. pc[c] = "count" /\ (Answer(c) \/ Goto(c, "write", tx[c]))
        BY <1>4 DEF CountOtherAdmins
  <2>2. tx[c].user \in Users /\ users'[tx[c].user] # NoUser /\ tx[c].change \in Changes
        BY <1>1, <2>1 DEF HandlerOK, Exists
  <2> QED BY <1>1, <1>2, <2>1, <2>2, AccountOK DEF Answer
<1> QED BY <1>3, <1>4

\* What an administrator may write over an account.
LEMMA ChangedType ==
    ASSUME NEW account \in Account, NEW change \in Changes
    PROVE  /\ Changed(account, change) \in Account
           /\ Changed(account, change).failed = account.failed
           /\ Changed(account, change).lockedUntil = account.lockedUntil
           /\ change # "reactivate" /\ Changed(account, change).isActive => account.isActive
<1>1. CASE change \in {"delete", "deactivate"}
      BY <1>1 DEF Changed, Account
<1>2. CASE change = "reactivate"
      BY <1>2 DEF Changed, Account
<1>3. CASE change = "demote"
      BY <1>3 DEF Changed, Account, Roles
<1>4. CASE change = "promote"
      BY <1>4 DEF Changed, Account, Roles
<1> QED BY <1>1, <1>2, <1>3, <1>4 DEF Changes, Removals

\* What the write of an administrator's change does to the state.
LEMMA WrittenChange ==
    ASSUME WellFormed, NEW c \in Calls, WriteChange(c)
    PROVE  /\ tx[c].user \in Users /\ tx[c].change \in Changes /\ pc[c] = "write"
           /\ users[tx[c].user] \in Account
           /\ users'[tx[c].user] = Changed(users[tx[c].user], tx[c].change)
           /\ users'[tx[c].user] \in Account
           /\ \A u \in Users \ {tx[c].user} : users'[u] = users[u]
           /\ users' \in [Users -> Account \cup {NoUser}]
           /\ pc' = [pc EXCEPT ![c] = "done"]
           /\ tx' \in [Calls -> LocalType]
           /\ \A d \in Calls \ {c} :
                \/ tx'[d] = [tx[d] EXCEPT !.bars = FALSE]
                \/ tx'[d] = tx[d] /\ ~(tx[c].change = "reactivate" /\ tx[d].user = tx[c].user)
           /\ tx'[c] = NoTx
<1> DEFINE u == tx[c].user
<1>1. /\ TypeOK /\ u \in Users /\ tx[c].change \in Changes /\ pc[c] = "write" /\ Exists(u)
      BY DEF WellFormed, HandlerOK, WriteChange
<1>2. users[u] \in Account
      BY <1>1 DEF TypeOK, Exists
<1>3. users' = [users EXCEPT ![u] = Changed(users[u], tx[c].change)]
      BY DEF WriteChange
<1>4. Changed(users[u], tx[c].change) \in Account
      BY <1>1, <1>2, ChangedType
<1>5. ASSUME NEW d \in Calls
      PROVE  /\ tx'[d] \in LocalType
             /\ d # c => \/ tx'[d] = [tx[d] EXCEPT !.bars = FALSE]
                         \/ tx'[d] = tx[d] /\ ~(tx[c].change = "reactivate" /\ tx[d].user = u)
             /\ d = c => tx'[d] = NoTx
  <2>1. tx[d] \in LocalType /\ NoTx \in LocalType
        BY <1>1, NoTxType DEF TypeOK
  <2>2. [tx[d] EXCEPT !.bars = FALSE] \in LocalType
        BY <2>1 DEF LocalType
  <2> QED BY <2>1, <2>2 DEF WriteChange
<1>6. tx' \in [Calls -> LocalType]
      BY <1>5 DEF WriteChange
<1>7. pc' = [pc EXCEPT ![c] = "done"]
      BY DEF WriteChange
<1>8. /\ users'[u] = Changed(users[u], tx[c].change) /\ users' \in [Users -> Account \cup {NoUser}]
      /\ \A v \in Users \ {u} : users'[v] = users[v]
      BY <1>1, <1>3, <1>4 DEF TypeOK
<1> QED BY <1>1, <1>2, <1>4, <1>5, <1>6, <1>7, <1>8

\* The write keeps every handler and row well formed.
LEMMA Writing ==
    ASSUME WellFormed, NEW c \in Calls, WriteChange(c)
    PROVE  WellFormed'
<1> DEFINE u == tx[c].user
<1>1. /\ TypeOK /\ RowsOK /\ HandlerOK(c) /\ UNCHANGED <<tokenVars, now, wrong>>
      BY DEF WellFormed, WriteChange
<1>2. barred' \in SUBSET Users
      BY <1>1 DEF WriteChange, TypeOK
<1>3. TypeOK' /\ RowsOK'
      BY <1>1, <1>2, WrittenChange DEF TypeOK, RowsOK, tokenVars
<1>4. NoUser \notin Account
      BY AccountsAssumption DEF NoUser, Account
<1>5. \A v \in Users : Exists(v) => Exists(v)'
      BY <1>4, WrittenChange DEF Exists
<1>6. HandlerOK(c)'
      BY <1>1, WrittenChange DEF HandlerOK, TypeOK, tokenVars
<1>7. ASSUME NEW d \in Calls, d # c PROVE HandlerOK(d)'
  <2>1. pc'[d] = pc[d] /\ (tx'[d] = tx[d] \/ tx'[d] = [tx[d] EXCEPT !.bars = FALSE])
        BY <1>1, <1>7, WrittenChange DEF TypeOK
  <2>2. issued' \in Nat /\ issued <= issued'
        BY <1>1 DEF tokenVars, TypeOK
  <2>3. \A t \in Tokens : (locks'[t] = d <=> locks[t] = d) /\ (locks[t] = d /\ Live(t) => Live(t)')
        BY <1>1 DEF tokenVars, Live
  <2> QED BY <1>5, <2>1, <2>2, <2>3, OthersOK
<1> QED BY <1>3, <1>6, <1>7 DEF WellFormed

-----------------------------------------------------------------------------
(* The theorems *)

\* The seeded tables are well formed, and no request has begun.
LEMMA WellFormedInit == Init => WellFormed
<1> SUFFICES ASSUME Init PROVE WellFormed
    OBVIOUS
<1>1. PICK i \in Initial :
            /\ users = i.users
            /\ issued = Len(i.sessions)
            /\ rows = [t \in Tokens |->
                          IF t > issued THEN Null
                          ELSE NewToken(i.sessions[t].user, t, i.sessions[t].expiresAt)]
            /\ held = 1..issued
      BY DEF Init
<1>2. /\ i.users \in [Users -> Account \cup {NoUser}]
      /\ i.sessions \in Seq([user: {u \in Users : i.users[u] # NoUser}, expiresAt: Nat])
      /\ Len(i.sessions) <= MaxTokens
      BY AccountsAssumption
<1>3. issued \in 0..MaxTokens /\ 1..issued \subseteq Tokens
      BY <1>1, <1>2, TokensAssumption DEF Tokens
<1>4. \A t \in Tokens : rows[t] # Null =>
        t <= issued /\ rows[t] \in Token /\ rows[t].chain = t /\ rows[t].replacedBy = Null
  <2> SUFFICES ASSUME NEW t \in Tokens, rows[t] # Null
               PROVE  /\ t <= issued /\ rows[t] \in Token /\ rows[t].chain = t
                      /\ rows[t].replacedBy = Null
      OBVIOUS
  <2>1. t <= issued /\ t \in 1..Len(i.sessions)
        BY <1>1, <1>3 DEF Tokens
  <2>2. i.sessions[t] \in [user: {u \in Users : i.users[u] # NoUser}, expiresAt: Nat]
    <3> DEFINE S == [user: {u \in Users : i.users[u] # NoUser}, expiresAt: Nat]
               q == i.sessions
    <3>1. q \in Seq(S) /\ t \in 1..Len(q)
          BY <1>2, <2>1
    <3> HIDE DEF S, q
    <3>2. q[t] \in S
          BY <3>1
    <3> QED BY <3>2 DEF S, q
  <2>3. rows[t] = NewToken(i.sessions[t].user, t, i.sessions[t].expiresAt)
        BY <1>1, <2>1 DEF Tokens
  <2> QED BY <2>1, <2>2, <2>3, NewTokenType DEF NewToken
<1>5. rows \in [Tokens -> Token \cup {Null}]
      BY <1>1, <1>4
<1>6. TypeOK
      BY <1>1, <1>2, <1>3, <1>5, NoTxType DEF Init, TypeOK
<1>7. RowsOK
      BY <1>1, <1>4 DEF RowsOK
<1>8. \A c \in Calls : HandlerOK(c)
      BY TokensAssumption DEF Init, HandlerOK
<1> QED BY <1>6, <1>7, <1>8 DEF WellFormed

\* Every statement, purge and tick keeps the tables and handlers well formed.
LEMMA WellFormedStep == WellFormed /\ [Next]_vars => WellFormed'
<1> SUFFICES ASSUME WellFormed, [Next]_vars PROVE WellFormed'
    OBVIOUS
<1>1. ASSUME NEW c \in Calls, AccountSteps(c) PROVE WellFormed'
      BY <1>1, LoggingIn, Registering, Administering, Writing DEF AccountSteps
<1>2. ASSUME NEW c \in Calls, TokenSteps(c), UNCHANGED wrong PROVE WellFormed'
      BY <1>2, ReadingRotation, Minting, Ending, Establishing DEF TokenSteps
<1>3. CASE (Purge \/ Tick) /\ UNCHANGED wrong
      BY <1>3, Purging
<1>4. CASE UNCHANGED vars
  <2>1. TypeOK' /\ RowsOK'
        BY <1>4 DEF vars, tokenVars, WellFormed, TypeOK, RowsOK
  <2>2. \A c \in Calls : HandlerOK(c)'
        BY <1>4 DEF vars, tokenVars, WellFormed, HandlerOK, Exists, Live
  <2> QED BY <2>1, <2>2 DEF WellFormed
<1> QED BY <1>1, <1>2, <1>3, <1>4 DEF Next

\* The inductive invariant: a handler has read what its next statement needs, a locked row is the
\* live token of a rotation in progress, and tokens are numbered in the order of their issue.
THEOREM WellFormedInvariant == Spec => []WellFormed
BY WellFormedInit, WellFormedStep, PTL DEF Spec

\* In every reachable state each table and handler has the type of its schema or code.
THEOREM TypeCorrect == Spec => []TypeOK
<1>1. WellFormed => TypeOK
      BY DEF WellFormed
<1> QED BY <1>1, WellFormedInvariant, PTL

-----------------------------------------------------------------------------
(* The lockout *)

\* The number of failures a login has read, which it will write incremented, has been earned too.
CountsOK ==
    /\ LockoutEarned
    /\ \A c \in Calls : pc[c] = "compare" => tx[c].failed <= wrong[tx[c].user]

\* What the steps that neither log in nor write an account do to a login in progress.
LEMMA LoginInProgress ==
    ASSUME WellFormed, NEW c \in Calls, NEW d \in Calls,
           \/ TokenSteps(c) \/ Purge \/ Tick
           \/ Bootstrap(c) \/ Register(c) \/ FindEmail(c) \/ CreateUser(c)
           \/ ReadTarget(c) \/ CountOtherAdmins(c) \/ WriteChange(c)
           \/ RecordSuccessfulLogin(c) \/ RecordFailedLogin(c),
           pc'[d] = "compare"
    PROVE  pc[d] = "compare" /\ tx'[d].failed = tx[d].failed /\ tx'[d].user = tx[d].user
<1>1. pc \in [Calls -> {"idle", "claim", "reread", "mint", "check", "revokeAll", "revoking",
                 "revokeOne", "issue", "compare", "find", "create", "count", "write", "done"}]
      /\ tx \in [Calls -> LocalType] /\ tx[d] \in LocalType
      BY DEF WellFormed, TypeOK
<1>2. CASE Purge \/ Tick
      BY <1>2 DEF Purge, Tick
<1>3. ASSUME NEW step, NEW local, Goto(c, step, local), step # "compare"
      PROVE  pc[d] = "compare" /\ tx'[d] = tx[d]
      BY <1>1, <1>3 DEF Goto
<1>4. CASE EstablishSession(c) \/ WriteChange(c)
  <2>1. pc' = [pc EXCEPT ![c] = "done"]
        BY <1>4 DEF EstablishSession, WriteChange
  <2>2. d # c /\ pc[d] = "compare"
        BY <1>1, <2>1
  <2>3. tx'[d] = tx[d] \/ tx'[d] = [tx[d] EXCEPT !.bars = FALSE]
        BY <1>4, <2>2 DEF EstablishSession, WriteChange
  <2> QED BY <1>1, <2>2, <2>3 DEF LocalType
<1>5. ASSUME \/ PresentToken(c) \/ ClaimToken(c) \/ RereadToken(c) \/ MintToken(c)
             \/ CheckAccount(c) \/ RevokeAll(c) \/ RevokeTargets(c) \/ Logout(c)
             \/ RevokeOne(c) \/ GiveUp(c)
      PROVE  \E step \in {"claim", "mint", "reread", "revokeAll", "check", "revoking", "revokeOne", "done"} :
               \E local : Goto(c, step, local)
      BY <1>5 DEF PresentToken, ClaimToken, RereadToken, MintToken, CheckAccount, RevokeAll,
                  RevokeTargets, Logout, RevokeOne, GiveUp, Answer
<1>6. ASSUME \/ Bootstrap(c) \/ Register(c) \/ FindEmail(c) \/ CreateUser(c)
             \/ ReadTarget(c) \/ CountOtherAdmins(c)
             \/ RecordSuccessfulLogin(c) \/ RecordFailedLogin(c)
      PROVE  \E step \in {"issue", "find", "create", "count", "write", "done"} :
               \E local : Goto(c, step, local)
      BY <1>6 DEF Bootstrap, Register, FindEmail, CreateUser, ReadTarget, CountOtherAdmins,
                  RecordSuccessfulLogin, RecordFailedLogin, Answer
<1> QED BY <1>2, <1>3, <1>4, <1>5, <1>6 DEF TokenSteps

\* A login writes the count it has read plus one, and has recorded one more wrong password.
LEMMA CountsStep == WellFormed /\ CountsOK /\ [Next]_vars => CountsOK'
<1> SUFFICES ASSUME WellFormed, CountsOK, [Next]_vars PROVE CountsOK'
    OBVIOUS
<1>1. TypeOK /\ \A c \in Calls : HandlerOK(c)
      BY DEF WellFormed
<1>2. ASSUME UNCHANGED wrong,
             \A d \in Calls : pc'[d] = "compare" =>
               pc[d] = "compare" /\ tx'[d].failed = tx[d].failed /\ tx'[d].user = tx[d].user,
             \A u \in Users : \/ users'[u].failed = users[u].failed
                                   /\ users'[u].lockedUntil = users[u].lockedUntil
                              \/ users'[u].failed = 0 /\ users'[u].lockedUntil = Null
      PROVE  CountsOK'
      BY <1>1, <1>2 DEF CountsOK, LockoutEarned, TypeOK
<1>3. ASSUME NEW c \in Calls, TokenSteps(c) \/ Purge \/ Tick, UNCHANGED wrong PROVE CountsOK'
  <2>1. UNCHANGED users
        BY <1>3 DEF TokenSteps, PresentToken, ClaimToken, RereadToken, MintToken, CheckAccount,
                    RevokeAll, RevokeTargets, Logout, RevokeOne, EstablishSession, GiveUp, Purge, Tick
  <2> QED BY <1>2, <1>3, <2>1, LoginInProgress
<1>4. ASSUME NEW c \in Calls, \/ Bootstrap(c) \/ Register(c) \/ FindEmail(c)
                              \/ ReadTarget(c) \/ CountOtherAdmins(c)
      PROVE  CountsOK'
  <2>1. UNCHANGED <<users, wrong>>
        BY <1>4 DEF Bootstrap, Register, FindEmail, ReadTarget, CountOtherAdmins
  <2> QED BY <1>2, <1>4, <2>1, LoginInProgress
<1>5. ASSUME NEW c \in Calls, CreateUser(c) PROVE CountsOK'
  <2>1. UNCHANGED wrong /\ tx[c].user \in Users
        BY <1>1, <1>5 DEF CreateUser, HandlerOK
  <2>2. \/ UNCHANGED users
        \/ users' = [users EXCEPT ![tx[c].user] = [NoUser EXCEPT !.role = tx[c].role, !.isActive = TRUE]]
        BY <1>5 DEF CreateUser
  <2>3. \A u \in Users : \/ users'[u].failed = users[u].failed
                              /\ users'[u].lockedUntil = users[u].lockedUntil
                         \/ users'[u].failed = 0 /\ users'[u].lockedUntil = Null
        BY <1>1, <2>1, <2>2 DEF TypeOK, NoUser
  <2> QED BY <1>2, <1>5, <2>1, <2>3, LoginInProgress
<1>6. ASSUME NEW c \in Calls, WriteChange(c) PROVE CountsOK'
  <2>1. UNCHANGED wrong
        BY <1>6 DEF WriteChange
  <2>2. \A u \in Users : users'[u].failed = users[u].failed
                           /\ users'[u].lockedUntil = users[u].lockedUntil
        BY <1>6, WrittenChange, ChangedType
  <2> QED BY <1>2, <1>6, <2>1, <2>2, LoginInProgress
<1>7. ASSUME NEW c \in Calls, RecordSuccessfulLogin(c) PROVE CountsOK'
  <2>1. UNCHANGED wrong /\ tx[c].user \in Users /\ Exists(tx[c].user)
        BY <1>1, <1>7 DEF RecordSuccessfulLogin, HandlerOK
  <2>2. \A u \in Users : \/ users'[u] = users[u]
                         \/ users'[u].failed = 0 /\ users'[u].lockedUntil = Null
    <3> DEFINE u == tx[c].user
    <3>1. users' = [users EXCEPT ![u] = WithCounters(users[u], 0, Null)]
          BY <1>7 DEF RecordSuccessfulLogin
    <3>2. u \in Users /\ Exists(u) /\ 0 \in Nat
          BY <2>1
    <3> HIDE DEF u
    <3> QED BY <1>1, <3>1, <3>2, CounterType
  <2> QED BY <1>2, <1>7, <2>1, <2>2, LoginInProgress
<1>8. ASSUME NEW c \in Calls, RecordFailedLogin(c) PROVE CountsOK'
  <2> DEFINE u == tx[c].user
             next == AfterFailure(tx[c].failed)
  <2>1. /\ u \in Users /\ Exists(u) /\ pc[c] = "compare" /\ wrong' = [wrong EXCEPT ![u] = @ + 1]
        /\ users' = [users EXCEPT ![u] = WithCounters(users[u], next.failed, next.lockedUntil)]
        /\ tx[c].failed \in Nat
        BY <1>1, <1>8 DEF RecordFailedLogin, HandlerOK, TypeOK, LocalType
  <2>2. /\ next.failed \in 0..tx[c].failed + 1 /\ next.lockedUntil \in Nat \cup {Null}
        /\ next.lockedUntil # Null => tx[c].failed + 1 >= MaxFailed
        BY <1>1, <2>1, AfterFailureType
  <2> HIDE DEF next
  <2>3. /\ users'[u].failed = next.failed /\ users'[u].lockedUntil = next.lockedUntil
        /\ \A v \in Users : v # u => users'[v] = users[v]
    <3> DEFINE f == next.failed
               l == next.lockedUntil
    <3>1. f \in Nat /\ l \in Nat \cup {Null}
          BY <2>1, <2>2
    <3>2. u \in Users /\ Exists(u) /\ users' = [users EXCEPT ![u] = WithCounters(users[u], f, l)]
          BY <2>1
    <3> HIDE DEF u, f, l
    <3>3. /\ users'[u].failed = f /\ users'[u].lockedUntil = l
          /\ \A v \in Users : v # u => users'[v] = users[v]
      <4>1. TypeOK
            BY <1>1
      <4>2. users'[u].failed = f
            BY <3>1, <3>2, <4>1, CounterType
      <4>3. users'[u].lockedUntil = l
        <5>1. users[u] \in Account
              BY <3>2, <4>1 DEF TypeOK, Exists
        <5>2. WithCounters(users[u], f, l).lockedUntil = l
              BY <5>1 DEF WithCounters, Account
        <5>3. users'[u] = WithCounters(users[u], f, l)
              BY <3>2, <4>1 DEF TypeOK
        <5> QED BY <5>2, <5>3
      <4>4. \A v \in Users : v # u => users'[v] = users[v]
            BY <3>1, <3>2, <4>1, CounterType
      <4> QED BY <4>2, <4>3, <4>4
    <3> QED BY <3>3 DEF f, l
  <2>4. tx[c].failed <= wrong[u] /\ wrong \in [Users -> Nat]
        BY <1>1, <2>1 DEF CountsOK, TypeOK
  <2>5. LockoutEarned'
    <3> SUFFICES ASSUME NEW v \in Users
                 PROVE  /\ users'[v].failed <= wrong'[v]
                        /\ users'[v].lockedUntil # Null => wrong'[v] >= MaxFailed
        BY DEF LockoutEarned
    <3>1. MaxFailed \in Nat
          BY AccountsAssumption
    <3>2. CASE v = u
          BY <2>1, <2>2, <2>3, <2>4, <3>1, <3>2
    <3>3. CASE v # u
          BY <2>1, <2>3, <2>4, <3>3 DEF CountsOK, LockoutEarned
    <3> QED BY <3>2, <3>3
  <2>6. ASSUME NEW d \in Calls, pc'[d] = "compare" PROVE tx'[d].failed <= wrong'[tx'[d].user]
    <3>1. pc[d] = "compare" /\ tx'[d].failed = tx[d].failed /\ tx'[d].user = tx[d].user
          BY <1>8, <2>6, LoginInProgress
    <3>2. tx[d].user \in Users /\ tx[d].failed \in Nat /\ tx[d].failed <= wrong[tx[d].user]
          BY <1>1, <3>1 DEF HandlerOK, CountsOK, TypeOK, LocalType
    <3> QED BY <2>1, <2>4, <3>1, <3>2
  <2> QED BY <2>5, <2>6 DEF CountsOK
<1>9. ASSUME NEW c \in Calls, Login(c) PROVE CountsOK'
  <2>1. PICK a \in Asked(c, "login") :
              Goto(c, "compare", [NoTx EXCEPT !.user = a.user, !.right = a.right,
                                              !.failed = users[a.user].failed])
        BY <1>9 DEF Login
  <2>2. a.user \in Users
    <3>1. a \in Ask /\ a.op = "login"
          BY TokensAssumption DEF Asked
    <3> QED BY <3>1 DEF Ask
  <2>3. UNCHANGED <<users, wrong>>
        BY <1>9 DEF Login
  <2>4. ASSUME NEW d \in Calls, pc'[d] = "compare" PROVE tx'[d].failed <= wrong'[tx'[d].user]
    <3>1. CASE d = c
          BY <1>1, <2>1, <2>2, <2>3, <3>1 DEF Goto, TypeOK, NoTx, CountsOK, LockoutEarned
    <3>2. CASE d # c
          BY <1>1, <2>1, <2>3, <2>4, <3>2 DEF Goto, TypeOK, CountsOK
    <3> QED BY <3>1, <3>2
  <2> QED BY <2>3, <2>4 DEF CountsOK, LockoutEarned
<1>10. CASE UNCHANGED vars
       BY <1>10 DEF vars, CountsOK, LockoutEarned
<1>11. ASSUME NEW c \in Calls, AccountSteps(c) PROVE CountsOK'
       BY <1>4, <1>5, <1>6, <1>7, <1>8, <1>9, <1>11 DEF AccountSteps
<1>12. CASE (Purge \/ Tick) /\ UNCHANGED wrong
  <2>1. UNCHANGED <<users, pc, tx, wrong>>
        BY <1>12 DEF Purge, Tick
  <2> QED BY <1>2, <2>1
<1> QED BY <1>3, <1>10, <1>11, <1>12 DEF Next

\* An account is locked, or nearer to its lock, only by as many wrong passwords, however the logins
\* interleave that read the counter and write it.
THEOREM LockoutSafety == Spec => []LockoutEarned
<1>1. Init => CountsOK
  <2> SUFFICES ASSUME Init PROVE CountsOK
      OBVIOUS
  <2>1. \A u \in Users : users[u].failed = 0 /\ users[u].lockedUntil = Null
        BY AccountsAssumption DEF Init
  <2> QED BY <2>1 DEF Init, CountsOK, LockoutEarned
<1>2. CountsOK => LockoutEarned
      BY DEF CountsOK
<1> QED BY <1>1, <1>2, CountsStep, WellFormedInvariant, PTL DEF Spec

=============================================================================
