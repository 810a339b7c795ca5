---------------------------- MODULE TokenProofs ----------------------------
(***************************************************************************)
(* What the refresh tokens of Accounts promise, proved for every set of    *)
(* users, requests and tokens: one live token in a chain, the ledger of    *)
(* TokenLedger, and no live token in anybody's hands once the sessions of  *)
(* an inactive account have been ended.                                    *)
(***************************************************************************)
EXTENDS AccountsProofs

-----------------------------------------------------------------------------
(* What a step may do to the rows *)

\* A chain starts, with the next token.
StartsChain(n) ==
    /\ n = issued + 1 /\ n \in Tokens /\ rows[n] = Null
    /\ rows'[n] # Null /\ rows'[n].chain = n
    /\ rows'[n].revokedAt = Null /\ rows'[n].replacedBy = Null
    /\ \A s \in Tokens \ {n} : rows'[s] = rows[s]

\* A live token is replaced by the next one.
Replaces(t, n) ==
    /\ n = issued + 1 /\ n \in Tokens /\ rows[n] = Null
    /\ t \in Tokens /\ t # n /\ Live(t)
    /\ rows'[n] # Null /\ rows'[n].chain = rows[t].chain /\ rows'[n].user = rows[t].user
    /\ rows'[n].revokedAt = Null /\ rows'[n].replacedBy = Null
    /\ rows'[t] # Null /\ rows'[t].chain = rows[t].chain /\ rows'[t].user = rows[t].user
    /\ rows'[t].revokedAt # Null /\ rows'[t].replacedBy = n
    /\ \A s \in Tokens \ {t, n} : rows'[s] = rows[s]

\* Live tokens of S are revoked.
Revokes(S) ==
    \A s \in Tokens :
        /\ rows'[s] = Null <=> rows[s] = Null
        /\ rows[s] # Null =>
             /\ rows'[s].user = rows[s].user /\ rows'[s].chain = rows[s].chain
             /\ rows'[s].replacedBy = rows[s].replacedBy
             /\ IF s \in S /\ Live(s) THEN rows'[s].revokedAt # Null
                                      ELSE rows'[s].revokedAt = rows[s].revokedAt

Forgets == \A s \in Tokens : rows'[s] \in {rows[s], Null}

\* The next token is new.
LEMMA NextToken ==
    ASSUME WellFormed, issued < MaxTokens
    PROVE  issued + 1 \in Tokens /\ rows[issued + 1] = Null /\ issued \in Nat
BY TokensAssumption DEF WellFormed, TypeOK, RowsOK, Tokens

\* The commit of a rotation replaces the claimed token, or starts a chain within the grace window.
LEMMA MintsToken ==
    ASSUME WellFormed, NEW c \in Calls, MintToken(c)
    PROVE  IF tx[c].owned THEN Replaces(tx[c].token, issued + 1)
           ELSE StartsChain(issued + 1) /\ rows'[issued + 1].user = tx[c].user
<1> DEFINE t == tx[c].token
           n == issued + 1
<1>1. /\ TypeOK /\ RowsOK /\ HandlerOK(c) /\ pc[c] = "mint" /\ tx[c] \in LocalType
      /\ now + TokenTTL \in Nat
      BY TokensAssumption DEF TypeOK, MintToken, WellFormed
<1>2. n \in Tokens /\ rows[n] = Null /\ issued \in Nat
      BY NextToken DEF MintToken
<1>3. t \in Tokens /\ t # n /\ tx[c].user \in Users
      BY <1>1, <1>2, TokensAssumption DEF HandlerOK, Tokens, TypeOK
<1>4. CASE tx[c].owned
  <2> DEFINE at == tx[c].at
  <2>1. rows' = Exchanged(t, n, at) /\ at \in Nat /\ Live(t)
        BY <1>1, <1>3, <1>4 DEF MintToken, LocalType, HandlerOK
  <2>2. rows[t] # Null /\ rows[t] \in Token
        BY <1>1, <1>3, <2>1 DEF Live, TypeOK
  <2> HIDE DEF t, n, at
  <2>3. /\ rows'[n] = NewToken(rows[t].user, rows[t].chain, now + TokenTTL)
        /\ rows'[n] # Null /\ rows'[t] # Null
        /\ rows'[t].chain = rows[t].chain /\ rows'[t].user = rows[t].user
        /\ rows'[t].revokedAt = at /\ rows'[t].replacedBy = n
        /\ \A s \in Tokens \ {t, n} : rows'[s] = rows[s]
        BY <1>1, <1>2, <1>3, <2>1, <2>2, ExchangedType
  <2>4. /\ rows'[n].chain = rows[t].chain /\ rows'[n].user = rows[t].user
        /\ rows'[n].revokedAt = Null /\ rows'[n].replacedBy = Null
        BY <2>3 DEF NewToken
  <2>5. at # Null
        BY <2>1, TokensAssumption
  <2> QED BY <1>2, <1>3, <1>4, <2>1, <2>3, <2>4, <2>5 DEF Replaces, t, n
<1>5. CASE ~tx[c].owned
  <2>1. /\ rows' = [rows EXCEPT ![n] = NewToken(tx[c].user, n, now + TokenTTL)]
        /\ NewToken(tx[c].user, n, now + TokenTTL) # Null
        BY <1>1, <1>2, <1>3, <1>5, NewTokenType DEF MintToken
  <2> QED BY <1>1, <1>2, <1>5, <2>1 DEF StartsChain, NewToken, TypeOK
<1> QED BY <1>4, <1>5

\* A login or registration starts a chain of its user.
LEMMA EstablishesSession ==
    ASSUME WellFormed, NEW c \in Calls, EstablishSession(c)
    PROVE  StartsChain(issued + 1) /\ rows'[issued + 1].user = tx[c].user
<1> DEFINE n == issued + 1
<1>1. TypeOK /\ tx[c].user \in Users /\ now + TokenTTL \in Nat
      BY TokensAssumption DEF TypeOK, EstablishSession, WellFormed, HandlerOK
<1>2. n \in Tokens /\ rows[n] = Null
      BY NextToken DEF EstablishSession
<1>3. /\ rows' = [rows EXCEPT ![n] = NewToken(tx[c].user, n, now + TokenTTL)]
      /\ NewToken(tx[c].user, n, now + TokenTTL) # Null
      BY <1>1, <1>2, NewTokenType DEF EstablishSession
<1> QED BY <1>1, <1>2, <1>3 DEF StartsChain, NewToken, TypeOK

\* The statements that end sessions revoke live tokens and change nothing else.
LEMMA RevokesTokens ==
    ASSUME WellFormed, NEW c \in Calls, RevokeTargets(c) \/ RevokeOne(c)
    PROVE  Revokes(IF pc[c] = "revoking" THEN tx[c].targets ELSE {tx[c].token})
<1> DEFINE S == IF pc[c] = "revoking" THEN tx[c].targets ELSE {tx[c].token}
<1>1. TypeOK /\ tx[c].at \in Nat
      BY DEF WellFormed, TypeOK, LocalType
<1>2. rows' = Revoked(S, tx[c].at)
      BY DEF RevokeTargets, RevokeOne
<1>3. tx[c].at # Null
      BY <1>1, TokensAssumption
<1> HIDE DEF S
<1>4. Revokes(S)
  <2> DEFINE at == tx[c].at
  <2>1. at \in Nat /\ rows' = Revoked(S, at) /\ at # Null
        BY <1>1, <1>2, <1>3
  <2> HIDE DEF at
  <2> QED BY <1>1, <2>1, RevokedType DEF Revokes
<1> QED BY <1>4 DEF S

\* Every step is one of the above, or leaves the rows alone.
LEMMA RowSteps ==
    ASSUME WellFormed, [Next]_vars
    PROVE  \/ UNCHANGED rows
           \/ \E n \in Tokens : StartsChain(n)
           \/ \E t, n \in Tokens : Replaces(t, n)
           \/ \E S : Revokes(S)
           \/ Forgets
<1>1. ASSUME NEW c \in Calls, AccountSteps(c) PROVE UNCHANGED rows
      BY <1>1 DEF AccountSteps, Login, RecordSuccessfulLogin, RecordFailedLogin, Bootstrap, Register,
                  FindEmail, CreateUser, ReadTarget, CountOtherAdmins, WriteChange, tokenVars
<1>2. ASSUME NEW c \in Calls, \/ PresentToken(c) \/ ClaimToken(c) \/ RereadToken(c)
                              \/ CheckAccount(c) \/ RevokeAll(c) \/ Logout(c) \/ GiveUp(c)
      PROVE  UNCHANGED rows
      BY <1>2 DEF PresentToken, ClaimToken, RereadToken, CheckAccount, RevokeAll, Logout, GiveUp, tokenVars
<1>3. ASSUME NEW c \in Calls, MintToken(c)
      PROVE  \/ \E n \in Tokens : StartsChain(n)
             \/ \E t, n \in Tokens : Replaces(t, n)
      BY <1>3, MintsToken DEF StartsChain, Replaces
<1>4. ASSUME NEW c \in Calls, EstablishSession(c) PROVE \E n \in Tokens : StartsChain(n)
      BY <1>4, EstablishesSession DEF StartsChain
<1>5. ASSUME NEW c \in Calls, RevokeTargets(c) \/ RevokeOne(c) PROVE \E S : Revokes(S)
      BY <1>5, RevokesTokens
<1>6. CASE Purge
      BY <1>6 DEF Purge, Forgets
<1>7. CASE Tick \/ UNCHANGED vars
      BY <1>7 DEF Tick, vars, tokenVars
<1> QED BY <1>1, <1>2, <1>3, <1>4, <1>5, <1>6, <1>7 DEF Next, TokenSteps

-----------------------------------------------------------------------------
(* One live token in a chain *)

\* A chain gets a live token only when it starts or in exchange for the one it had.
LEMMA OneLiveStep == WellFormed /\ OneLiveTokenPerChain /\ [Next]_vars => OneLiveTokenPerChain'
<1> SUFFICES ASSUME WellFormed, OneLiveTokenPerChain, [Next]_vars PROVE OneLiveTokenPerChain'
    OBVIOUS
<1>1. \A s \in Tokens : rows[s] # Null => rows[s].chain <= issued
      BY DEF WellFormed, RowsOK
<1>2. issued \in Nat
      BY DEF WellFormed, TypeOK
<1>3. CASE UNCHANGED rows
      BY <1>3 DEF OneLiveTokenPerChain, Live
<1>4. ASSUME NEW n \in Tokens, StartsChain(n) PROVE OneLiveTokenPerChain'
  <2>1. \A s \in Tokens \ {n} : Live(s)' => Live(s) /\ rows'[s].chain = rows[s].chain /\ rows[s].chain # n
        BY <1>1, <1>2, <1>4 DEF StartsChain, Live
  <2> QED BY <1>4, <2>1 DEF StartsChain, OneLiveTokenPerChain
<1>5. ASSUME NEW t \in Tokens, NEW n \in Tokens, Replaces(t, n) PROVE OneLiveTokenPerChain'
  <2>1. ~Live(t)' /\ rows'[n].chain = rows[t].chain /\ Live(t)
        BY <1>5 DEF Replaces, Live
  <2>2. \A s \in Tokens \ {t, n} : Live(s)' => Live(s) /\ rows'[s].chain = rows[s].chain
        BY <1>5 DEF Replaces, Live
  <2> QED BY <2>1, <2>2 DEF OneLiveTokenPerChain
<1>6. ASSUME \A s \in Tokens : Live(s)' => Live(s) /\ rows'[s].chain = rows[s].chain
      PROVE  OneLiveTokenPerChain'
      BY <1>6 DEF OneLiveTokenPerChain
<1>7. ASSUME NEW S, Revokes(S) PROVE OneLiveTokenPerChain'
  <2>1. \A s \in Tokens : Live(s)' => Live(s) /\ rows'[s].chain = rows[s].chain
        BY <1>7 DEF Revokes, Live
  <2> QED BY <1>6, <2>1
<1>8. CASE Forgets
  <2>1. \A s \in Tokens : Live(s)' => Live(s) /\ rows'[s].chain = rows[s].chain
        BY <1>8 DEF Forgets, Live
  <2> QED BY <1>6, <2>1
<1> QED BY <1>3, <1>4, <1>5, <1>7, <1>8, RowSteps

\* However many requests present a token at once, a chain of rotations has one live token at most.
THEOREM OneLiveToken == Spec => []OneLiveTokenPerChain
<1>1. Init => OneLiveTokenPerChain
  <2> SUFFICES ASSUME Init, NEW s \in Tokens, rows[s] # Null PROVE rows[s].chain = s
      BY DEF OneLiveTokenPerChain, Live
  <2> QED BY DEF Init, NewToken
<1> QED BY <1>1, OneLiveStep, WellFormedInvariant, PTL DEF Spec

-----------------------------------------------------------------------------
(* The token table implements the ledger *)

Places == [t \in Tokens |-> PlaceOf(t)]

\* A row is a token of the ledger, live, exchanged or ended.
LEMMA PlaceType ==
    ASSUME WellFormed, NEW t \in Tokens
    PROVE  /\ PlaceOf(t) \in Place \cup {Null}
           /\ PlaceOf(t) = Null <=> rows[t] = Null
           /\ rows[t] # Null => PlaceOf(t).chain = rows[t].chain
           /\ Live(t) <=> PlaceOf(t) # Null /\ PlaceOf(t).state = "live"
<1>1. rows[t] # Null => rows[t].chain \in Tokens
      BY DEF WellFormed, TypeOK, Token
<1>2. Null \notin Place
      BY AccountsAssumption
<1> QED BY <1>1, <1>2 DEF PlaceOf, Place, Live

\* The seeded tokens are chains of one live token each.
LEMMA LedgerInit == Init => Ledger!Init
<1> SUFFICES ASSUME Init PROVE Ledger!Init
    OBVIOUS
<1>1. WellFormed
      BY WellFormedInit
<1>2. \A t \in Tokens : PlaceOf(t) \in Place \cup {Null}
      BY <1>1, PlaceType
<1>3. \A t \in Tokens : PlaceOf(t) = Null \/ PlaceOf(t) = [chain |-> t, state |-> "live"]
  <2> SUFFICES ASSUME NEW t \in Tokens, rows[t] # Null
               PROVE  rows[t].chain = t /\ rows[t].revokedAt = Null
      BY DEF PlaceOf, Live
  <2> QED BY DEF Init, NewToken
<1>4. [t \in Tokens |-> PlaceOf(t)] \in [Tokens -> Ledger!Entry \cup {Null}]
      BY <1>2 DEF Ledger!Entry, Place
<1> QED BY <1>3, <1>4 DEF Ledger!Init

\* Every step of a request is a step of the ledger, or leaves the ledger alone.
LEMMA LedgerStep == WellFormed /\ [Next]_vars => [Ledger!Next]_Places
<1> SUFFICES ASSUME WellFormed, [Next]_vars PROVE [Ledger!Next]_Places
    OBVIOUS
<1>1. WellFormed'
      BY WellFormedStep
<1>2. /\ \A t \in Tokens : PlaceOf(t) \in Place \cup {Null} /\ PlaceOf(t)' \in Place \cup {Null}
      /\ Places \in [Tokens -> Ledger!Entry \cup {Null}]
      /\ Places' \in [Tokens -> Ledger!Entry \cup {Null}]
  <2>1. \A t \in Tokens : PlaceOf(t) \in Place \cup {Null}
        BY PlaceType
  <2>2. \A t \in Tokens : PlaceOf(t)' \in Place \cup {Null}
    <3>1. TRUE /\ \A t \in Tokens : rows'[t] # Null => rows'[t].chain \in Tokens
          BY <1>1 DEF WellFormed, TypeOK, Token
    <3> QED BY <3>1 DEF PlaceOf, Place
  <2> QED BY <2>1, <2>2 DEF Places, Ledger!Entry, Place
<1>3. \A s \in Tokens : rows'[s] = rows[s] => PlaceOf(s)' = PlaceOf(s)
      BY DEF PlaceOf, Live, Rotated
<1>4. CASE UNCHANGED rows
      BY <1>3, <1>4 DEF Places
<1>5. ASSUME NEW n \in Tokens, StartsChain(n) PROVE Ledger!Next
  <2>1. PlaceOf(n) = Null /\ PlaceOf(n)' = [chain |-> n, state |-> "live"]
        BY <1>5 DEF StartsChain, PlaceOf, Live
  <2>2. \A s \in Tokens : PlaceOf(s) # Null => PlaceOf(s).chain # n
    <3>1. \A s \in Tokens : rows[s] # Null => rows[s].chain <= issued
          BY DEF WellFormed, RowsOK
    <3>2. issued \in Nat
          BY DEF WellFormed, TypeOK
    <3> QED BY <1>5, <3>1, <3>2, PlaceType DEF StartsChain
  <2>3. \A s \in Tokens \ {n} : PlaceOf(s)' = PlaceOf(s)
        BY <1>3, <1>5 DEF StartsChain
  <2>4. Places' = [Places EXCEPT ![n] = [chain |-> n, state |-> "live"]]
        BY <2>1, <2>3 DEF Places
  <2>5. Ledger!Start(n)
        BY <2>1, <2>2, <2>4 DEF Ledger!Start, Ledger!Known, Places
  <2> QED BY <1>2, <2>5 DEF Ledger!Next, Places
<1>6. ASSUME NEW t \in Tokens, NEW n \in Tokens, Replaces(t, n) PROVE Ledger!Next
  <2>1. /\ PlaceOf(n) = Null /\ PlaceOf(n)' = [chain |-> rows[t].chain, state |-> "live"]
        /\ PlaceOf(t) = [chain |-> rows[t].chain, state |-> "live"]
        /\ n # Null
        BY <1>6, TokensAssumption DEF Replaces, PlaceOf, Live, Tokens
  <2>2. PlaceOf(t)' = [chain |-> rows[t].chain, state |-> "exchanged"]
        BY <1>6, <2>1 DEF Replaces, PlaceOf, Live, Rotated
  <2>3. \A s \in Tokens \ {t, n} : PlaceOf(s)' = PlaceOf(s)
        BY <1>3, <1>6 DEF Replaces
  <2>4. Places' = [Places EXCEPT ![t] = [chain |-> Places[t].chain, state |-> "exchanged"],
                                 ![n] = [chain |-> Places[t].chain, state |-> "live"]]
    <3> DEFINE a == [chain |-> Places[t].chain, state |-> "exchanged"]
               b == [chain |-> Places[t].chain, state |-> "live"]
    <3>1. PlaceOf(t)' = a /\ PlaceOf(n)' = b
          BY <2>1, <2>2 DEF Places
    <3>2. t # n
          BY <1>6 DEF Replaces
    <3> HIDE DEF a, b
    <3>3. Places' = [Places EXCEPT ![t] = a, ![n] = b]
          BY <2>3, <3>1, <3>2 DEF Places
    <3> QED BY <3>3 DEF a, b
  <2>5. PlaceOf(t) # Null
        BY <1>6, PlaceType DEF Replaces
  <2>6. Ledger!Exchange(t, n)
        BY <2>1, <2>4, <2>5 DEF Ledger!Exchange, Ledger!Live, Ledger!Known, Ledger!Moved, Places
  <2> QED BY <1>2, <2>6 DEF Ledger!Next, Places
<1>7. ASSUME NEW S, Revokes(S) PROVE Ledger!Next
  <2>1. ASSUME NEW s \in Tokens
        PROVE  \/ PlaceOf(s)' = PlaceOf(s)
               \/ Live(s) /\ PlaceOf(s)' = [chain |-> PlaceOf(s).chain, state |-> "ended"]
    <3>1. CASE s \in S /\ Live(s)
      <4>1. rows[s] # Null /\ rows'[s] # Null /\ rows'[s].chain = rows[s].chain
            /\ rows'[s].revokedAt # Null /\ rows'[s].replacedBy = rows[s].replacedBy
            BY <1>7, <3>1 DEF Revokes, Live
      <4>2. rows[s].replacedBy = Null
            BY <3>1, <4>1 DEF WellFormed, RowsOK, Live
      <4> QED BY <3>1, <4>1, <4>2 DEF PlaceOf, Live, Rotated
    <3>2. CASE ~(s \in S /\ Live(s))
          BY <1>7, <3>2 DEF Revokes, PlaceOf, Live, Rotated
    <3> QED BY <3>1, <3>2
  <2>2. Ledger!End
        BY <2>1, PlaceType DEF Ledger!End, Ledger!Live, Ledger!Known, Ledger!Moved
  <2> QED BY <1>2, <2>2 DEF Ledger!Next, Places
<1>8. ASSUME Forgets PROVE Ledger!Next
  <2>1. \A s \in Tokens : PlaceOf(s)' \in {PlaceOf(s), Null}
        BY <1>3, <1>8 DEF Forgets, PlaceOf
  <2>2. Ledger!Forget
        BY <2>1 DEF Ledger!Forget
  <2> QED BY <1>2, <2>2 DEF Ledger!Next, Places
<1> QED BY <1>4, <1>5, <1>6, <1>7, <1>8, RowSteps

\* A rotation is one exchange, and what was exchanged, logged out or revoked is never live again.
THEOREM ImplementsTokenLedger == Spec => KeepsTokens
<1>1. [Ledger!Next]_Places => [Ledger!Next]_([t \in Tokens |-> PlaceOf(t)])
      BY DEF Places
<1> QED BY <1>1, LedgerInit, LedgerStep, WellFormedInvariant, PTL
        DEF Spec, KeepsTokens, Ledger!Spec

-----------------------------------------------------------------------------
(* Owners: a token belongs to an account, and a handler knows whose it has *)

OwnersOK ==
    /\ \A t \in Tokens : rows[t] # Null => Exists(rows[t].user)
    /\ \A c \in Calls :
         /\ pc[c] \in {"claim", "reread", "mint", "check", "revokeAll", "revoking", "issue"} =>
              Exists(tx[c].user)
         /\ pc[c] \in {"claim", "reread", "mint", "check"} /\ rows[tx[c].token] # Null =>
              rows[tx[c].token].user = tx[c].user

\* A row that has been written keeps its owner, and a token that is not live does not revive.
LEMMA OldRows ==
    ASSUME WellFormed, [Next]_vars, NEW s \in 1..issued, rows'[s] # Null
    PROVE  rows[s] # Null /\ rows'[s].user = rows[s].user /\ (Live(s)' => Live(s))
<1>1. s \in Tokens /\ s # issued + 1
      BY TokensAssumption DEF WellFormed, TypeOK, Tokens
<1>2. CASE UNCHANGED rows
      BY <1>2 DEF Live
<1>3. ASSUME NEW n \in Tokens, StartsChain(n)
      PROVE  rows[s] # Null /\ rows'[s].user = rows[s].user /\ (Live(s)' => Live(s))
      BY <1>1, <1>3 DEF StartsChain, Live
<1>4. ASSUME NEW t \in Tokens, NEW n \in Tokens, Replaces(t, n)
      PROVE  rows[s] # Null /\ rows'[s].user = rows[s].user /\ (Live(s)' => Live(s))
      BY <1>1, <1>4 DEF Replaces, Live
<1>5. ASSUME NEW S, Revokes(S)
      PROVE  rows[s] # Null /\ rows'[s].user = rows[s].user /\ (Live(s)' => Live(s))
      BY <1>1, <1>5 DEF Revokes, Live
<1>6. CASE Forgets
      BY <1>1, <1>6 DEF Forgets, Live
<1> QED BY <1>2, <1>3, <1>4, <1>5, <1>6, RowSteps

\* Accounts are not deleted.
LEMMA ExistsKept ==
    ASSUME WellFormed, [Next]_vars, NEW u \in Users, Exists(u)
    PROVE  Exists(u)'
<1>1. TypeOK /\ \A c \in Calls : HandlerOK(c)
      BY DEF WellFormed
<1>2. CASE UNCHANGED users
      BY <1>2 DEF Exists
<1>3. ASSUME NEW c \in Calls, RecordSuccessfulLogin(c) \/ RecordFailedLogin(c) PROVE Exists(u)'
  <2> DEFINE x == tx[c].user
  <2>1. x \in Users /\ Exists(x)
        BY <1>1, <1>3 DEF HandlerOK, RecordSuccessfulLogin, RecordFailedLogin
  <2>2. PICK f \in Nat, l \in Nat \cup {Null} : users' = [users EXCEPT ![x] = WithCounters(users[x], f, l)]
    <3>1. CASE RecordSuccessfulLogin(c)
          BY <3>1 DEF RecordSuccessfulLogin
    <3>2. CASE RecordFailedLogin(c)
      <4> DEFINE n == AfterFailure(tx[c].failed)
      <4>1. tx[c].failed \in Nat
            BY <1>1 DEF TypeOK, LocalType
      <4>2. n.failed \in Nat /\ n.lockedUntil \in Nat \cup {Null}
            BY <1>1, <4>1, AfterFailureType
      <4> HIDE DEF n
      <4>3. users' = [users EXCEPT ![x] = WithCounters(users[x], n.failed, n.lockedUntil)]
            BY <3>2 DEF RecordFailedLogin, n
      <4> QED BY <4>2, <4>3
    <3> QED BY <1>3, <3>1, <3>2
  <2> HIDE DEF x
  <2> QED BY <1>1, <2>1, <2>2, CounterType
<1>4. ASSUME NEW c \in Calls, CreateUser(c) PROVE Exists(u)'
  <2>1. \/ UNCHANGED users
        \/ ~Exists(tx[c].user) /\ \E row : users' = [users EXCEPT ![tx[c].user] = row]
        BY <1>4 DEF CreateUser
  <2> QED BY <1>1, <2>1 DEF Exists, TypeOK
<1>5. ASSUME NEW c \in Calls, WriteChange(c) PROVE Exists(u)'
  <2>1. NoUser \notin Account
        BY AccountsAssumption DEF NoUser, Account
  <2> QED BY <1>5, <2>1, WrittenChange DEF Exists
<1>6. ASSUME NEW c \in Calls, \/ Login(c) \/ Bootstrap(c) \/ Register(c) \/ FindEmail(c)
                              \/ ReadTarget(c) \/ CountOtherAdmins(c) \/ TokenSteps(c)
      PROVE  UNCHANGED users
      BY <1>6 DEF Login, Bootstrap, Register, FindEmail, ReadTarget, CountOtherAdmins, TokenSteps,
                  PresentToken, ClaimToken, RereadToken, MintToken, CheckAccount, RevokeAll,
                  RevokeTargets, Logout, RevokeOne, EstablishSession, GiveUp
<1>7. CASE Purge \/ Tick \/ UNCHANGED vars
      BY <1>2, <1>7 DEF Purge, Tick, vars
<1> QED BY <1>2, <1>3, <1>4, <1>5, <1>6, <1>7 DEF Next, AccountSteps

\* A request's step moves no other handler, and makes none bar an account.
LEMMA OthersStay ==
    ASSUME WellFormed, NEW c \in Calls, AccountSteps(c) \/ TokenSteps(c), NEW d \in Calls, d # c
    PROVE  /\ pc'[d] = pc[d] /\ tx'[d].user = tx[d].user /\ tx'[d].token = tx[d].token
           /\ tx'[d].targets = tx[d].targets /\ (tx'[d].bars => tx[d].bars)
<1>1. /\ pc \in [Calls -> {"idle", "claim", "reread", "mint", "check", "revokeAll", "revoking",
                    "revokeOne", "issue", "compare", "find", "create", "count", "write", "done"}]
      /\ tx \in [Calls -> LocalType] /\ tx[d] \in LocalType
      BY DEF WellFormed, TypeOK
<1>2. ASSUME NEW step, NEW local, Goto(c, step, local)
      PROVE  pc'[d] = pc[d] /\ tx'[d] = tx[d]
      BY <1>1, <1>2 DEF Goto
<1>3. CASE EstablishSession(c) \/ WriteChange(c)
  <2>1. pc' = [pc EXCEPT ![c] = "done"] /\ tx'[d] \in {tx[d], [tx[d] EXCEPT !.bars = FALSE]}
        BY <1>3 DEF EstablishSession, WriteChange
  <2> QED BY <1>1, <2>1 DEF LocalType
<1>4. ASSUME ~EstablishSession(c), ~WriteChange(c) PROVE \E step, local : Goto(c, step, local)
      BY <1>4 DEF AccountSteps, TokenSteps, PresentToken, ClaimToken, RereadToken, MintToken,
                  CheckAccount, RevokeAll, RevokeTargets, Logout, RevokeOne, GiveUp, Answer,
                  Login, RecordSuccessfulLogin, RecordFailedLogin, Bootstrap, Register, FindEmail,
                  CreateUser, ReadTarget, CountOtherAdmins
<1> QED BY <1>2, <1>3, <1>4

\* A new row belongs to the account whose request has issued it.
LEMMA NewRow ==
    ASSUME WellFormed, OwnersOK, [Next]_vars, NEW t \in Tokens, rows[t] = Null, rows'[t] # Null
    PROVE  \E c \in Calls : /\ MintToken(c) \/ EstablishSession(c)
                            /\ Exists(tx[c].user) /\ rows'[t].user = tx[c].user
                            /\ t = issued + 1
<1>1. ASSUME NEW c \in Calls, MintToken(c)
      PROVE  Exists(tx[c].user) /\ rows'[t].user = tx[c].user /\ t = issued + 1
  <2>1. pc[c] = "mint" /\ Exists(tx[c].user)
        BY <1>1 DEF MintToken, OwnersOK
  <2>2. CASE tx[c].owned
    <3>1. Replaces(tx[c].token, issued + 1)
          BY <1>1, <2>2, MintsToken
    <3>2. t = issued + 1 /\ rows[tx[c].token] # Null
          BY <3>1 DEF Replaces, Live
    <3>3. rows[tx[c].token].user = tx[c].user
          BY <2>1, <3>2 DEF OwnersOK
    <3> QED BY <2>1, <3>1, <3>2, <3>3 DEF Replaces
  <2>3. CASE ~tx[c].owned
        BY <1>1, <2>1, <2>3, MintsToken DEF StartsChain
  <2> QED BY <2>2, <2>3
<1>2. ASSUME NEW c \in Calls, EstablishSession(c)
      PROVE  Exists(tx[c].user) /\ rows'[t].user = tx[c].user /\ t = issued + 1
      BY <1>2, EstablishesSession DEF StartsChain, EstablishSession, OwnersOK
<1>3. ASSUME NEW c \in Calls, RevokeTargets(c) \/ RevokeOne(c) PROVE FALSE
      BY <1>3, RevokesTokens DEF Revokes
<1>4. CASE Purge
      BY <1>4 DEF Purge
<1>5. ASSUME NEW c \in Calls, AccountSteps(c) PROVE UNCHANGED rows
      BY <1>5 DEF AccountSteps, Login, RecordSuccessfulLogin, RecordFailedLogin, Bootstrap, Register,
                  FindEmail, CreateUser, ReadTarget, CountOtherAdmins, WriteChange, tokenVars
<1>6. ASSUME NEW c \in Calls, \/ PresentToken(c) \/ ClaimToken(c) \/ RereadToken(c)
                              \/ CheckAccount(c) \/ RevokeAll(c) \/ Logout(c) \/ GiveUp(c)
      PROVE  UNCHANGED rows
      BY <1>6 DEF PresentToken, ClaimToken, RereadToken, CheckAccount, RevokeAll, Logout, GiveUp, tokenVars
<1>7. CASE Tick \/ UNCHANGED vars
      BY <1>7 DEF Tick, vars, tokenVars
<1> QED BY <1>1, <1>2, <1>3, <1>4, <1>5, <1>6, <1>7 DEF Next, TokenSteps

\* What a handler knows after its own step.
LEMMA OwnStep ==
    ASSUME WellFormed, OwnersOK, [Next]_vars, NEW c \in Calls, AccountSteps(c) \/ TokenSteps(c)
    PROVE  /\ pc'[c] \in {"claim", "reread", "mint", "check", "revokeAll", "revoking", "issue"} =>
                users'[tx'[c].user] # NoUser
           /\ pc'[c] \in {"claim", "reread", "mint", "check"} /\ rows'[tx'[c].token] # Null =>
                rows'[tx'[c].token].user = tx'[c].user
<1>1. /\ pc \in [Calls -> {"idle", "claim", "reread", "mint", "check", "revokeAll", "revoking",
                    "revokeOne", "issue", "compare", "find", "create", "count", "write", "done"}]
      /\ tx \in [Calls -> LocalType] /\ HandlerOK(c) /\ TypeOK /\ RowsOK
      BY DEF WellFormed, TypeOK
<1>2. ASSUME NEW step, NEW local, Goto(c, step, local)
      PROVE  pc'[c] = step /\ tx'[c] = local
      BY <1>1, <1>2 DEF Goto
<1>3. CASE PresentToken(c)
  <2>1. PICK t \in held :
              /\ rows[t] # Null
              /\ Goto(c, "claim", [NoTx EXCEPT !.user = rows[t].user, !.token = t, !.at = now])
        BY <1>3 DEF PresentToken
  <2>2. tx'[c].user = rows[t].user /\ tx'[c].token = t /\ pc'[c] = "claim"
    <3> DEFINE local == [NoTx EXCEPT !.user = rows[t].user, !.token = t, !.at = now]
    <3>1. local.user = rows[t].user /\ local.token = t
          BY DEF NoTx
    <3> HIDE DEF local
    <3>2. Goto(c, "claim", local)
          BY <2>1 DEF local
    <3> QED BY <1>2, <3>1, <3>2
  <2>3. t \in Tokens /\ UNCHANGED <<rows, users>>
        BY <1>1, <1>3 DEF PresentToken, tokenVars, TypeOK
  <2> QED BY <2>1, <2>2, <2>3 DEF OwnersOK, Exists
<1>4. CASE ClaimToken(c) \/ RereadToken(c)
  <2>1. UNCHANGED <<rows, users>> /\ pc[c] \in {"claim", "reread"}
        BY <1>4 DEF ClaimToken, RereadToken, tokenVars
  <2>2. pc'[c] = "done" \/ (tx'[c].user = tx[c].user /\ tx'[c].token = tx[c].token)
        BY <1>1, <1>2, <1>4 DEF ClaimToken, RereadToken, Answer, LocalType
  <2> QED BY <2>1, <2>2 DEF OwnersOK, Exists
<1>5. CASE MintToken(c)
  <2> DEFINE n == issued + 1
  <2>1. pc'[c] = "check" /\ tx'[c].user = tx[c].user /\ tx'[c].token = n /\ UNCHANGED users
    <3> DEFINE local == [NoTx EXCEPT !.user = tx[c].user, !.token = n]
    <3>1. local.user = tx[c].user /\ local.token = n
          BY DEF NoTx
    <3> HIDE DEF local
    <3>2. Goto(c, "check", local) /\ UNCHANGED users
          BY <1>5 DEF MintToken, local
    <3> QED BY <1>2, <3>1, <3>2
  <2>2. n \in Tokens /\ rows[n] = Null
        BY <1>5, NextToken DEF MintToken
  <2>3. rows'[n] # Null
        BY <1>5, MintsToken DEF StartsChain, Replaces
  <2>4. rows'[n].user = tx[c].user
    <3>1. pc[c] = "mint"
          BY <1>5 DEF MintToken
    <3>2. CASE tx[c].owned
      <4>1. Replaces(tx[c].token, n)
            BY <1>5, <3>2, MintsToken
      <4>2. rows[tx[c].token] # Null
            BY <4>1 DEF Replaces, Live
      <4> QED BY <3>1, <4>1, <4>2 DEF OwnersOK, Replaces
    <3>3. CASE ~tx[c].owned
          BY <1>5, <3>3, MintsToken
    <3> QED BY <3>2, <3>3
  <2>5. Exists(tx[c].user)
        BY <1>5 DEF MintToken, OwnersOK
  <2> QED BY <2>1, <2>4, <2>5 DEF Exists
<1>6. CASE CheckAccount(c) \/ RevokeAll(c)
  <2>1. UNCHANGED users /\ pc[c] \in {"check", "revokeAll"}
        BY <1>6 DEF CheckAccount, RevokeAll
  <2>2. pc'[c] = "done" \/ (pc'[c] \in {"revokeAll", "revoking"} /\ tx'[c].user = tx[c].user)
        BY <1>1, <1>2, <1>6 DEF CheckAccount, RevokeAll, Answer, LocalType
  <2> QED BY <2>1, <2>2 DEF OwnersOK, Exists
<1>7. CASE \/ RevokeTargets(c) \/ Logout(c) \/ RevokeOne(c) \/ GiveUp(c)
           \/ Login(c) \/ RecordFailedLogin(c) \/ Bootstrap(c) \/ Register(c) \/ FindEmail(c)
           \/ ReadTarget(c) \/ CountOtherAdmins(c)
  <2>1. PICK step \in {"done", "revokeOne", "compare", "find", "create", "count", "write"} :
              \E local : Goto(c, step, local)
        BY <1>7 DEF RevokeTargets, Logout, RevokeOne, GiveUp, Login, RecordFailedLogin, Bootstrap,
                    Register, FindEmail, ReadTarget, CountOtherAdmins, Answer
  <2> QED BY <1>2, <2>1
<1>8. CASE EstablishSession(c) \/ WriteChange(c)
  <2>1. pc' = [pc EXCEPT ![c] = "done"]
        BY <1>8 DEF EstablishSession, WriteChange
  <2> QED BY <1>1, <2>1
<1>9. CASE RecordSuccessfulLogin(c)
  <2>1. tx'[c].user = tx[c].user /\ pc'[c] = "issue"
        BY <1>2, <1>9 DEF RecordSuccessfulLogin, NoTx
  <2>2. tx[c].user \in Users /\ Exists(tx[c].user)
        BY <1>1, <1>9 DEF RecordSuccessfulLogin, HandlerOK
  <2>3. users'[tx[c].user] # NoUser
    <3> DEFINE u == tx[c].user
    <3>1. u \in Users /\ Exists(u)
          BY <2>2
    <3> HIDE DEF u
    <3>2. users'[u] # NoUser
          BY <3>1, ExistsKept DEF Exists
    <3> QED BY <3>2 DEF u
  <2> QED BY <2>1, <2>3
<1>10. CASE CreateUser(c)
  <2>1. CASE Exists(tx[c].user)
        BY <1>2, <1>10, <2>1 DEF CreateUser, Answer
  <2>2. CASE ~Exists(tx[c].user)
    <3> DEFINE row == [NoUser EXCEPT !.role = tx[c].role, !.isActive = TRUE]
    <3>1. users' = [users EXCEPT ![tx[c].user] = row] /\ Goto(c, "issue", [NoTx EXCEPT !.user = tx[c].user])
          BY <1>10, <2>2 DEF CreateUser
    <3>2. row # NoUser
          BY DEF NoUser
    <3>3. tx[c].user \in Users
          BY <1>1, <1>10 DEF CreateUser, HandlerOK
    <3>4. tx'[c].user = tx[c].user /\ pc'[c] = "issue"
          BY <1>2, <3>1 DEF NoTx
    <3> HIDE DEF row
    <3> QED BY <1>1, <3>1, <3>2, <3>3, <3>4 DEF Exists, TypeOK
  <2> QED BY <2>1, <2>2
<1> QED BY <1>3, <1>4, <1>5, <1>6, <1>7, <1>8, <1>9, <1>10 DEF AccountSteps, TokenSteps

\* Rows and handlers keep referring to accounts that exist.
LEMMA OwnersStep == WellFormed /\ OwnersOK /\ [Next]_vars => OwnersOK'
<1> SUFFICES ASSUME WellFormed, OwnersOK, [Next]_vars PROVE OwnersOK'
    OBVIOUS
<1>1. TypeOK /\ RowsOK /\ \A c \in Calls : HandlerOK(c)
      BY DEF WellFormed
<1>2. 1..issued \subseteq Tokens
      BY <1>1, TokensAssumption DEF TypeOK, Tokens
<1>3. ASSUME NEW t \in Tokens, rows'[t] # Null PROVE users'[rows'[t].user] # NoUser
  <2> DEFINE u == rows'[t].user
  <2>1. WellFormed'
        BY WellFormedStep
  <2>2. u \in Users
        BY <1>3, <2>1 DEF WellFormed, TypeOK, Token
  <2>3. Exists(u)
    <3>1. CASE rows[t] # Null
      <4>1. t \in 1..issued
            BY <1>1, <3>1 DEF RowsOK, Tokens, TypeOK
      <4> QED BY <1>3, <3>1, <4>1, OldRows DEF OwnersOK
    <3>2. CASE rows[t] = Null
          BY <1>3, <3>2, NewRow
    <3> QED BY <3>1, <3>2
  <2> HIDE DEF u
  <2>4. users'[u] # NoUser
        BY <2>2, <2>3, ExistsKept DEF Exists
  <2> QED BY <2>4 DEF u
<1>4. ASSUME NEW d \in Calls, pc'[d] = pc[d], tx'[d].user = tx[d].user, tx'[d].token = tx[d].token
      PROVE  /\ pc'[d] \in {"claim", "reread", "mint", "check", "revokeAll", "revoking", "issue"} =>
                  users'[tx'[d].user] # NoUser
             /\ pc'[d] \in {"claim", "reread", "mint", "check"} /\ rows'[tx'[d].token] # Null =>
                  rows'[tx'[d].token].user = tx'[d].user
  <2>1. ASSUME pc[d] \in {"claim", "reread", "mint", "check", "revokeAll", "revoking", "issue"}
        PROVE  users'[tx[d].user] # NoUser
    <3> DEFINE u == tx[d].user
    <3>1. u \in Users /\ Exists(u)
          BY <1>1, <2>1 DEF HandlerOK, OwnersOK
    <3> HIDE DEF u
    <3>2. users'[u] # NoUser
          BY <3>1, ExistsKept DEF Exists
    <3> QED BY <3>2 DEF u
  <2>2. ASSUME pc[d] \in {"claim", "reread", "mint", "check"}, rows'[tx[d].token] # Null
        PROVE  rows'[tx[d].token].user = tx[d].user
    <3> DEFINE t == tx[d].token
    <3>1. t \in 1..issued /\ rows'[t] # Null
          BY <1>1, <2>2 DEF HandlerOK
    <3> HIDE DEF t
    <3>2. rows[t] # Null /\ rows'[t].user = rows[t].user
          BY <3>1, OldRows
    <3> QED BY <2>2, <3>2 DEF OwnersOK, t
  <2> QED BY <1>4, <2>1, <2>2
<1>5. ASSUME NEW d \in Calls
      PROVE  /\ pc'[d] \in {"claim", "reread", "mint", "check", "revokeAll", "revoking", "issue"} =>
                  users'[tx'[d].user] # NoUser
             /\ pc'[d] \in {"claim", "reread", "mint", "check"} /\ rows'[tx'[d].token] # Null =>
                  rows'[tx'[d].token].user = tx'[d].user
  <2>1. ASSUME NEW c \in Calls, AccountSteps(c) \/ TokenSteps(c), c # d
        PROVE  pc'[d] = pc[d] /\ tx'[d].user = tx[d].user /\ tx'[d].token = tx[d].token
        BY <2>1, OthersStay
  <2>2. CASE Purge \/ Tick \/ UNCHANGED vars
        BY <1>4, <2>2 DEF Purge, Tick, vars
  <2>3. CASE AccountSteps(d) \/ TokenSteps(d)
        BY <2>3, OwnStep
  <2> QED BY <1>4, <2>1, <2>2, <2>3 DEF Next
<1> QED BY <1>3, <1>5 DEF OwnersOK, Exists

\* Every token belongs to an account that exists, and so does every token a handler is working on
\* (RefreshToken.userId, and the user that refresh re-checks).
THEOREM OwnersInvariant == Spec => []OwnersOK
<1>1. Init => OwnersOK
  <2> SUFFICES ASSUME Init, NEW t \in Tokens, rows[t] # Null PROVE Exists(rows[t].user)
      BY DEF Init, OwnersOK
  <2>1. PICK i \in Initial :
              /\ users = i.users
              /\ issued = Len(i.sessions)
              /\ rows = [s \in Tokens |->
                            IF s > issued THEN Null
                            ELSE NewToken(i.sessions[s].user, s, i.sessions[s].expiresAt)]
        BY DEF Init
  <2> DEFINE S == [user: {u \in Users : i.users[u] # NoUser}, expiresAt: Nat]
             q == i.sessions
  <2>2. q \in Seq(S) /\ Len(q) \in Nat
        BY AccountsAssumption
  <2>3. t \in 1..Len(q)
        BY <2>1, <2>2 DEF Tokens
  <2>4. q[t] \in S
    <3> HIDE DEF S, q
    <3> QED BY <2>2, <2>3
  <2>5. rows[t] = NewToken(i.sessions[t].user, t, i.sessions[t].expiresAt)
        BY <2>1, <2>2, <2>3 DEF Tokens
  <2> QED BY <2>1, <2>4, <2>5 DEF NewToken, Exists
<1> QED BY <1>1, OwnersStep, WellFormedInvariant, PTL DEF Spec

-----------------------------------------------------------------------------
(* The sessions of an inactive account *)

\* While a refresh that has found the account inactive revokes its tokens, the account stays
\* inactive, so that nobody can be handed another token of it.
BarredOK ==
    /\ BarredUserHoldsNoLiveToken
    /\ \A u \in barred : Exists(u) /\ ~users[u].isActive
    /\ \A c \in Calls : tx[c].bars =>
         /\ pc[c] \in {"revokeAll", "revoking"}
         /\ Exists(tx[c].user) /\ ~users[tx[c].user].isActive
         /\ pc[c] = "revoking" =>
              \A t \in held : Live(t) /\ rows[t].user = tx[c].user => t \in tx[c].targets

\* No account becomes active, no token is handed out and nobody starts to bar.
Calm ==
    /\ UNCHANGED <<held, barred>>
    /\ \A u \in Users : Exists(u) /\ ~users[u].isActive => ~users'[u].isActive
    /\ \A d \in Calls : tx'[d].bars =>
         /\ tx[d].bars /\ pc'[d] = pc[d]
         /\ tx'[d].user = tx[d].user /\ tx'[d].targets = tx[d].targets

\* What calm handlers keep: no new bar, no token handed out for the account.
LEMMA CalmSteps ==
    ASSUME WellFormed, BarredOK, [Next]_vars, Calm
    PROVE  BarredOK'
<1>1. \A t \in held : t \in Tokens /\ (Live(t)' => Live(t) /\ rows'[t].user = rows[t].user)
  <2> SUFFICES ASSUME NEW t \in held, Live(t)' PROVE Live(t) /\ rows'[t].user = rows[t].user
      BY DEF WellFormed, TypeOK
  <2>1. t \in 1..issued /\ rows'[t] # Null
        BY DEF WellFormed, RowsOK, Live
  <2> QED BY <2>1, OldRows
<1>2. \A u \in Users : Exists(u) => users'[u] # NoUser
      BY ExistsKept DEF Exists
<1>3. barred \subseteq Users /\ \A c \in Calls : pc[c] \in {"revokeAll", "revoking"} => tx[c].user \in Users
      BY DEF WellFormed, TypeOK, HandlerOK
<1>4. BarredUserHoldsNoLiveToken'
      BY <1>1 DEF Calm, BarredOK, BarredUserHoldsNoLiveToken
<1>5. \A u \in barred' : users'[u] # NoUser /\ ~users'[u].isActive
      BY <1>2, <1>3 DEF Calm, BarredOK
<1>6. ASSUME NEW c \in Calls, tx'[c].bars
      PROVE  /\ pc'[c] \in {"revokeAll", "revoking"}
             /\ users'[tx'[c].user] # NoUser /\ ~users'[tx'[c].user].isActive
             /\ pc'[c] = "revoking" =>
                  \A t \in held' : Live(t)' /\ rows'[t].user = tx'[c].user => t \in tx'[c].targets
  <2>1. /\ tx[c].bars /\ pc'[c] = pc[c] /\ tx'[c].user = tx[c].user /\ tx'[c].targets = tx[c].targets
        /\ held' = held
        BY <1>6 DEF Calm
  <2>2. /\ pc[c] \in {"revokeAll", "revoking"} /\ Exists(tx[c].user) /\ ~users[tx[c].user].isActive
        /\ pc[c] = "revoking" =>
             \A t \in held : Live(t) /\ rows[t].user = tx[c].user => t \in tx[c].targets
        BY <2>1 DEF BarredOK
  <2>3. users'[tx[c].user] # NoUser /\ ~users'[tx[c].user].isActive
        BY <1>2, <1>3, <2>2 DEF Calm
  <2> QED BY <1>1, <2>1, <2>2, <2>3
<1> QED BY <1>4, <1>5, <1>6 DEF BarredOK, Exists

\* A handler that is not revoking does not bar, and none begins to but after its check.
LEMMA NoNewBars ==
    ASSUME WellFormed, BarredOK, NEW c \in Calls,
           \/ PresentToken(c) \/ ClaimToken(c) \/ RereadToken(c) \/ MintToken(c)
           \/ Logout(c) \/ RevokeOne(c) \/ RevokeTargets(c) \/ GiveUp(c)
           \/ Login(c) \/ RecordSuccessfulLogin(c) \/ RecordFailedLogin(c)
           \/ Bootstrap(c) \/ Register(c) \/ FindEmail(c) \/ CreateUser(c)
           \/ ReadTarget(c) \/ CountOtherAdmins(c)
    PROVE  ~tx'[c].bars
<1>1. tx \in [Calls -> LocalType] /\ tx[c] \in LocalType
      BY DEF WellFormed, TypeOK
<1>2. ASSUME NEW step, NEW local, Goto(c, step, local), ~local.bars
      PROVE  ~tx'[c].bars
      BY <1>1, <1>2 DEF Goto
<1>3. ~NoTx.bars
      BY DEF NoTx
<1>4. CASE \/ RevokeOne(c) \/ RevokeTargets(c) \/ GiveUp(c) \/ RecordFailedLogin(c)
      BY <1>2, <1>3, <1>4 DEF RevokeOne, RevokeTargets, GiveUp, RecordFailedLogin, Answer
<1>5. CASE ClaimToken(c) \/ RereadToken(c) \/ FindEmail(c) \/ CountOtherAdmins(c)
  <2>1. ~tx[c].bars
        BY <1>5 DEF BarredOK, ClaimToken, RereadToken, FindEmail, CountOtherAdmins
  <2>2. ~[tx[c] EXCEPT !.owned = TRUE].bars
        BY <1>1, <2>1 DEF LocalType
  <2> QED BY <1>2, <1>3, <1>5, <2>1, <2>2 DEF ClaimToken, RereadToken, FindEmail, CountOtherAdmins, Answer
<1>6. CASE PresentToken(c) \/ Logout(c)
  <2>1. \A u, t : ~[NoTx EXCEPT !.user = u, !.token = t, !.at = now].bars
                  /\ ~[NoTx EXCEPT !.token = t, !.at = now].bars
        BY DEF NoTx
  <2> QED BY <1>2, <1>6, <2>1 DEF PresentToken, Logout
<1>7. CASE MintToken(c)
  <2>1. \A u, t : ~[NoTx EXCEPT !.user = u, !.token = t].bars
        BY DEF NoTx
  <2> QED BY <1>2, <1>7, <2>1 DEF MintToken
<1>8. CASE Login(c)
  <2>1. \A u, r, f : ~[NoTx EXCEPT !.user = u, !.right = r, !.failed = f].bars
        BY DEF NoTx
  <2> QED BY <1>2, <1>8, <2>1 DEF Login
<1>9. CASE RecordSuccessfulLogin(c) \/ CreateUser(c)
  <2>1. \A u : ~[NoTx EXCEPT !.user = u].bars
        BY DEF NoTx
  <2> QED BY <1>2, <1>3, <1>9, <2>1 DEF RecordSuccessfulLogin, CreateUser, Answer
<1>10. CASE Bootstrap(c) \/ Register(c) \/ ReadTarget(c)
  <2>1. \A u, r : ~[NoTx EXCEPT !.user = u, !.role = r].bars
                  /\ ~[NoTx EXCEPT !.user = u, !.change = r].bars
        BY DEF NoTx
  <2> QED BY <1>2, <1>10, <2>1 DEF Bootstrap, Register, ReadTarget
<1> QED BY <1>4, <1>5, <1>6, <1>7, <1>8, <1>9, <1>10

\* The steps that keep calm.
LEMMA CalmCalls ==
    ASSUME WellFormed, BarredOK, NEW c \in Calls,
           \/ PresentToken(c) \/ ClaimToken(c) \/ RereadToken(c) \/ MintToken(c)
           \/ Logout(c) \/ RevokeOne(c) \/ GiveUp(c)
           \/ RevokeTargets(c) /\ ~tx[c].bars
           \/ Login(c) \/ RecordSuccessfulLogin(c) \/ RecordFailedLogin(c)
           \/ Bootstrap(c) \/ Register(c) \/ FindEmail(c) \/ CreateUser(c)
           \/ ReadTarget(c) \/ CountOtherAdmins(c)
    PROVE  Calm
<1>1. TypeOK /\ HandlerOK(c)
      BY DEF WellFormed
<1>2. AccountSteps(c) \/ TokenSteps(c)
      BY DEF AccountSteps, TokenSteps
<1>3. UNCHANGED <<held, barred>>
      BY DEF PresentToken, ClaimToken, RereadToken, MintToken, Logout, RevokeOne, RevokeTargets, GiveUp,
             Login, RecordSuccessfulLogin, RecordFailedLogin, Bootstrap, Register, FindEmail,
             CreateUser, ReadTarget, CountOtherAdmins, tokenVars
<1>4. \A d \in Calls : tx'[d].bars =>
        tx[d].bars /\ pc'[d] = pc[d] /\ tx'[d].user = tx[d].user /\ tx'[d].targets = tx[d].targets
      BY <1>2, OthersStay, NoNewBars
<1>5. ASSUME NEW u \in Users, Exists(u), ~users[u].isActive PROVE ~users'[u].isActive
  <2>1. CASE RecordSuccessfulLogin(c) \/ RecordFailedLogin(c)
    <3> DEFINE x == tx[c].user
    <3>1. x \in Users /\ Exists(x)
          BY <1>1, <2>1 DEF HandlerOK, RecordSuccessfulLogin, RecordFailedLogin
    <3>2. PICK f, l : users' = [users EXCEPT ![x] = WithCounters(users[x], f, l)]
          BY <2>1 DEF RecordSuccessfulLogin, RecordFailedLogin
    <3> HIDE DEF x
    <3>3. users[x] \in Account
          BY <1>1, <3>1 DEF TypeOK, Exists
    <3>4. WithCounters(users[x], f, l).isActive = users[x].isActive
          BY <3>3 DEF WithCounters, Account
    <3> QED BY <1>1, <1>5, <3>1, <3>2, <3>4 DEF TypeOK
  <2>2. CASE CreateUser(c)
    <3>1. \/ UNCHANGED users
          \/ ~Exists(tx[c].user) /\ \E row : users' = [users EXCEPT ![tx[c].user] = row]
          BY <2>2 DEF CreateUser
    <3> QED BY <1>1, <1>5, <3>1 DEF TypeOK
  <2>3. CASE \/ PresentToken(c) \/ ClaimToken(c) \/ RereadToken(c) \/ MintToken(c)
             \/ Logout(c) \/ RevokeOne(c) \/ RevokeTargets(c) \/ GiveUp(c) \/ Login(c)
             \/ Bootstrap(c) \/ Register(c) \/ FindEmail(c) \/ ReadTarget(c) \/ CountOtherAdmins(c)
    <3>1. UNCHANGED users
          BY <2>3 DEF PresentToken, ClaimToken, RereadToken, MintToken, Logout, RevokeOne, RevokeTargets,
                      GiveUp, Login, Bootstrap, Register, FindEmail, ReadTarget, CountOtherAdmins
    <3> QED BY <1>5, <3>1
  <2> QED BY <2>1, <2>2, <2>3
<1> QED BY <1>3, <1>4, <1>5 DEF Calm

\* The answer to a refresh: only an active account is handed its token.
LEMMA BarredCheck ==
    ASSUME WellFormed, OwnersOK, BarredOK, NEW c \in Calls, CheckAccount(c)
    PROVE  BarredOK'
<1> DEFINE u == tx[c].user
           n == tx[c].token
<1>1. /\ TypeOK /\ pc[c] = "check" /\ UNCHANGED <<users, rows, barred>> /\ Exists(u)
      /\ rows[n] # Null => rows[n].user = u
      BY DEF WellFormed, CheckAccount, OwnersOK
<1>2. tx \in [Calls -> LocalType] /\ tx[c] \in LocalType /\ ~tx[c].bars
      BY <1>1 DEF TypeOK, BarredOK
<1>3. CASE users[u].isActive
  <2>1. held' = held \cup {n} /\ Answer(c)
        BY <1>3 DEF CheckAccount
  <2>2. /\ pc'[c] = "done" /\ ~tx'[c].bars
        /\ \A d \in Calls : d # c => pc'[d] = pc[d] /\ tx'[d] = tx[d]
        BY <1>1, <1>2, <2>1 DEF Answer, Goto, NoTx, TypeOK
  <2>3. BarredUserHoldsNoLiveToken'
        BY <1>1, <1>3, <2>1 DEF BarredOK, BarredUserHoldsNoLiveToken, Live
  <2>4. ASSUME NEW d \in Calls, tx'[d].bars
        PROVE  /\ pc'[d] \in {"revokeAll", "revoking"}
               /\ users'[tx'[d].user] # NoUser /\ ~users'[tx'[d].user].isActive
               /\ pc'[d] = "revoking" =>
                    \A t \in held' : Live(t)' /\ rows'[t].user = tx'[d].user => t \in tx'[d].targets
    <3>1. d # c /\ pc'[d] = pc[d] /\ tx'[d] = tx[d] /\ tx[d].bars
          BY <2>2, <2>4
    <3>2. /\ pc[d] \in {"revokeAll", "revoking"}
          /\ Exists(tx[d].user) /\ ~users[tx[d].user].isActive
          /\ pc[d] = "revoking" =>
               \A t \in held : Live(t) /\ rows[t].user = tx[d].user => t \in tx[d].targets
          BY <3>1 DEF BarredOK
    <3>3. tx[d].user # u
          BY <1>3, <3>2
    <3> QED BY <1>1, <2>1, <3>1, <3>2, <3>3 DEF Live, Exists
  <2>5. \A v \in barred' : users'[v] # NoUser /\ ~users'[v].isActive
        BY <1>1 DEF BarredOK, Exists
  <2> QED BY <2>3, <2>4, <2>5 DEF BarredOK, Exists
<1>4. CASE ~users[u].isActive
  <2> DEFINE local == [tx[c] EXCEPT !.at = now, !.bars = TRUE]
  <2>1. local.user = u
        BY <1>2 DEF LocalType
  <2>2. held' = held /\ Goto(c, "revokeAll", local)
        BY <1>4 DEF CheckAccount
  <2> HIDE DEF local
  <2>3. /\ pc'[c] = "revokeAll" /\ tx'[c] = local
        /\ \A d \in Calls : d # c => pc'[d] = pc[d] /\ tx'[d] = tx[d]
        BY <1>1, <1>2, <2>2 DEF Goto, TypeOK
  <2>4. BarredUserHoldsNoLiveToken'
        BY <1>1, <2>2 DEF BarredOK, BarredUserHoldsNoLiveToken, Live
  <2>5. ASSUME NEW d \in Calls, tx'[d].bars
        PROVE  /\ pc'[d] \in {"revokeAll", "revoking"}
               /\ users'[tx'[d].user] # NoUser /\ ~users'[tx'[d].user].isActive
               /\ pc'[d] = "revoking" =>
                    \A t \in held' : Live(t)' /\ rows'[t].user = tx'[d].user => t \in tx'[d].targets
    <3>1. CASE d = c
          BY <1>1, <1>4, <2>1, <2>3, <3>1 DEF Exists
    <3>2. CASE d # c
          BY <1>1, <2>2, <2>3, <2>5, <3>2 DEF BarredOK, Live, Exists
    <3> QED BY <3>1, <3>2
  <2>6. \A v \in barred' : users'[v] # NoUser /\ ~users'[v].isActive
        BY <1>1 DEF BarredOK, Exists
  <2> QED BY <2>4, <2>5, <2>6 DEF BarredOK, Exists
<1> QED BY <1>3, <1>4

\* The statement that ends all sessions finds every token that clients hold.
LEMMA BarredRevoking ==
    ASSUME WellFormed, OwnersOK, BarredOK, [Next]_vars, NEW c \in Calls,
           RevokeAll(c) \/ (RevokeTargets(c) /\ tx[c].bars)
    PROVE  BarredOK'
<1> DEFINE u == tx[c].user
<1>1. /\ TypeOK /\ UNCHANGED <<users, held>> /\ held \subseteq Tokens
      /\ tx \in [Calls -> LocalType] /\ tx[c] \in LocalType
      BY DEF WellFormed, TypeOK, RevokeAll, RevokeTargets, tokenVars
<1>2. ASSUME NEW d \in Calls, d # c
      PROVE  /\ pc'[d] = pc[d] /\ tx'[d].user = tx[d].user /\ tx'[d].targets = tx[d].targets
             /\ tx'[d].bars => tx[d].bars
      BY <1>2, OthersStay DEF TokenSteps
<1>3. \A t \in held : Live(t)' => Live(t) /\ rows'[t].user = rows[t].user
  <2> SUFFICES ASSUME NEW t \in held, Live(t)' PROVE Live(t) /\ rows'[t].user = rows[t].user
      OBVIOUS
  <2>1. t \in 1..issued /\ rows'[t] # Null
        BY DEF WellFormed, RowsOK, Live
  <2> QED BY <2>1, OldRows
<1>4. ASSUME NEW d \in Calls, d # c, tx'[d].bars
      PROVE  /\ pc'[d] \in {"revokeAll", "revoking"}
             /\ users'[tx'[d].user] # NoUser /\ ~users'[tx'[d].user].isActive
             /\ pc'[d] = "revoking" =>
                  \A t \in held' : Live(t)' /\ rows'[t].user = tx'[d].user => t \in tx'[d].targets
  <2>1. /\ pc[d] \in {"revokeAll", "revoking"}
        /\ Exists(tx[d].user) /\ ~users[tx[d].user].isActive
        /\ pc[d] = "revoking" =>
             \A t \in held : Live(t) /\ rows[t].user = tx[d].user => t \in tx[d].targets
        BY <1>2, <1>4 DEF BarredOK
  <2> QED BY <1>1, <1>2, <1>3, <1>4, <2>1 DEF Exists
<1>5. CASE RevokeAll(c)
  <2> DEFINE found == {t \in Tokens : Live(t) /\ rows[t].user = u}
             local == [tx[c] EXCEPT !.targets = found]
  <2>1. local.user = u /\ local.targets = found /\ local.bars = tx[c].bars
        BY <1>1 DEF LocalType
  <2>2. pc[c] = "revokeAll" /\ UNCHANGED <<rows, barred>> /\ Goto(c, "revoking", local)
        BY <1>5 DEF RevokeAll, tokenVars
  <2> HIDE DEF local
  <2>3. pc'[c] = "revoking" /\ tx'[c] = local
        BY <1>1, <2>2 DEF Goto, TypeOK
  <2>4. ASSUME tx'[c].bars
        PROVE  /\ users'[tx'[c].user] # NoUser /\ ~users'[tx'[c].user].isActive
               /\ \A t \in held' : Live(t)' /\ rows'[t].user = tx'[c].user => t \in tx'[c].targets
    <3>1. Exists(u) /\ ~users[u].isActive
          BY <2>1, <2>3, <2>4 DEF BarredOK
    <3>2. \A t \in held' : Live(t)' /\ rows'[t].user = u => t \in found
          BY <1>1, <1>3, <2>2
    <3> QED BY <1>1, <2>1, <2>3, <3>1, <3>2 DEF Exists
  <2>5. BarredUserHoldsNoLiveToken' /\ \A v \in barred' : users'[v] # NoUser /\ ~users'[v].isActive
        BY <1>1, <1>3, <2>2 DEF BarredOK, BarredUserHoldsNoLiveToken, Exists
  <2> QED BY <1>4, <2>3, <2>4, <2>5 DEF BarredOK, Exists
<1>6. CASE RevokeTargets(c) /\ tx[c].bars
  <2>1. /\ pc[c] = "revoking" /\ barred' = barred \cup {u} /\ Answer(c)
        BY <1>6 DEF RevokeTargets
  <2>2. /\ Exists(u) /\ ~users[u].isActive
        /\ \A t \in held : Live(t) /\ rows[t].user = u => t \in tx[c].targets
        BY <1>6, <2>1 DEF BarredOK
  <2>3. pc'[c] = "done" /\ ~tx'[c].bars
        BY <1>1, <2>1 DEF Answer, Goto, NoTx, TypeOK
  <2>4. Revokes(tx[c].targets)
        BY <1>6, <2>1, RevokesTokens
  <2>5. \A t \in held : Live(t)' => rows'[t].user # u
    <3> SUFFICES ASSUME NEW t \in held, Live(t)', rows'[t].user = u PROVE FALSE
        OBVIOUS
    <3>1. Live(t) /\ t \in tx[c].targets
          BY <1>3, <2>2
    <3> QED BY <1>1, <2>4, <3>1 DEF Revokes, Live
  <2>6. BarredUserHoldsNoLiveToken'
        BY <1>1, <1>3, <2>1, <2>5 DEF BarredOK, BarredUserHoldsNoLiveToken
  <2>7. \A v \in barred' : users'[v] # NoUser /\ ~users'[v].isActive
        BY <1>1, <2>1, <2>2 DEF BarredOK, Exists
  <2> QED BY <1>4, <2>3, <2>6, <2>7 DEF BarredOK, Exists
<1> QED BY <1>5, <1>6

\* A new session, and a reactivation, which forget that the account was barred.
LEMMA BarredForgets ==
    ASSUME WellFormed, OwnersOK, BarredOK, [Next]_vars, NEW c \in Calls,
           EstablishSession(c) \/ WriteChange(c)
    PROVE  BarredOK'
<1> DEFINE u == tx[c].user
<1>1. /\ TypeOK /\ RowsOK /\ HandlerOK(c) /\ held \subseteq Tokens /\ u \in Users /\ Exists(u)
      /\ tx \in [Calls -> LocalType] /\ tx[c] \in LocalType /\ issued \in Nat
      BY DEF WellFormed, TypeOK, HandlerOK, OwnersOK, EstablishSession, WriteChange
<1>2. /\ pc' = [pc EXCEPT ![c] = "done"] /\ ~tx'[c].bars
      BY DEF EstablishSession, WriteChange, NoTx
<1>3. ASSUME NEW d \in Calls, tx'[d].bars
      PROVE  /\ d # c /\ pc'[d] = pc[d] /\ tx'[d].user = tx[d].user /\ tx'[d].targets = tx[d].targets
             /\ tx[d].bars
  <2>1. d # c
        BY <1>2, <1>3
  <2> QED BY <1>3, <2>1, OthersStay DEF AccountSteps, TokenSteps
<1>4. \A t \in held : Live(t)' => Live(t) /\ rows'[t].user = rows[t].user
  <2> SUFFICES ASSUME NEW t \in held, Live(t)' PROVE Live(t) /\ rows'[t].user = rows[t].user
      OBVIOUS
  <2>1. t \in 1..issued /\ rows'[t] # Null
        BY <1>1 DEF RowsOK, Live
  <2> QED BY <2>1, OldRows
<1>5. CASE EstablishSession(c)
  <2> DEFINE n == issued + 1
  <2>1. /\ UNCHANGED users /\ held' = held \cup {n} /\ barred' = barred \ {u}
        /\ rows'[n].user = u
        BY <1>5, EstablishesSession DEF EstablishSession
  <2>2. ASSUME NEW d \in Calls, tx'[d].bars PROVE tx'[d].user # u
    <3>1. d # c /\ tx[d] \in LocalType
          BY <1>1, <1>2, <2>2 DEF TypeOK
    <3>2. tx'[d] = IF tx[d].user = u THEN [tx[d] EXCEPT !.bars = FALSE] ELSE tx[d]
          BY <1>5, <3>1 DEF EstablishSession
    <3>3. ~[tx[d] EXCEPT !.bars = FALSE].bars
          BY <3>1 DEF LocalType
    <3> QED BY <2>2, <3>2, <3>3
  <2>3. BarredUserHoldsNoLiveToken'
        BY <1>4, <2>1 DEF BarredOK, BarredUserHoldsNoLiveToken
  <2>4. \A v \in barred' : users'[v] # NoUser /\ ~users'[v].isActive
        BY <2>1 DEF BarredOK, Exists
  <2>5. ASSUME NEW d \in Calls, tx'[d].bars
        PROVE  /\ pc'[d] \in {"revokeAll", "revoking"}
               /\ users'[tx'[d].user] # NoUser /\ ~users'[tx'[d].user].isActive
               /\ pc'[d] = "revoking" =>
                    \A t \in held' : Live(t)' /\ rows'[t].user = tx'[d].user => t \in tx'[d].targets
    <3>1. /\ pc'[d] = pc[d] /\ tx'[d].user = tx[d].user /\ tx'[d].targets = tx[d].targets /\ tx[d].bars
          BY <1>3, <2>5
    <3>2. /\ pc[d] \in {"revokeAll", "revoking"}
          /\ Exists(tx[d].user) /\ ~users[tx[d].user].isActive
          /\ pc[d] = "revoking" =>
               \A t \in held : Live(t) /\ rows[t].user = tx[d].user => t \in tx[d].targets
          BY <3>1 DEF BarredOK
    <3>3. tx[d].user # u
          BY <2>2, <2>5, <3>1
    <3> QED BY <1>4, <2>1, <3>1, <3>2, <3>3 DEF Exists
  <2> QED BY <2>3, <2>4, <2>5 DEF BarredOK, Exists
<1>6. CASE WriteChange(c)
  <2> DEFINE revived == tx[c].change = "reactivate"
  <2>1. /\ held' = held /\ barred' = IF revived THEN barred \ {u} ELSE barred
        BY <1>6 DEF WriteChange, tokenVars
  <2>2. /\ tx[c].change \in Changes /\ users[u] \in Account
        /\ users'[u] = Changed(users[u], tx[c].change) /\ users'[u] \in Account
        /\ \A v \in Users \ {u} : users'[v] = users[v]
        BY <1>6, WrittenChange
  <2>3. \A v \in Users : ~users[v].isActive /\ (revived => v # u) => ~users'[v].isActive
        BY <2>2, ChangedType
  <2>4. \A v \in Users : Exists(v) => users'[v] # NoUser
        BY ExistsKept DEF Exists
  <2>5. ASSUME NEW d \in Calls, tx'[d].bars PROVE revived => tx[d].user # u
    <3>1. d # c /\ tx[d] \in LocalType
          BY <1>1, <1>2, <2>5 DEF TypeOK
    <3>2. \/ tx'[d] = [tx[d] EXCEPT !.bars = FALSE]
          \/ ~(revived /\ tx[d].user = u)
          BY <1>6, <3>1, WrittenChange
    <3>3. ~[tx[d] EXCEPT !.bars = FALSE].bars
          BY <3>1 DEF LocalType
    <3> QED BY <2>5, <3>2, <3>3
  <2>6. BarredUserHoldsNoLiveToken'
        BY <1>4, <2>1 DEF BarredOK, BarredUserHoldsNoLiveToken
  <2>7. \A v \in barred' : users'[v] # NoUser /\ ~users'[v].isActive
        BY <1>1, <2>1, <2>3, <2>4 DEF BarredOK, TypeOK
  <2>8. ASSUME NEW d \in Calls, tx'[d].bars
        PROVE  /\ pc'[d] \in {"revokeAll", "revoking"}
               /\ users'[tx'[d].user] # NoUser /\ ~users'[tx'[d].user].isActive
               /\ pc'[d] = "revoking" =>
                    \A t \in held' : Live(t)' /\ rows'[t].user = tx'[d].user => t \in tx'[d].targets
    <3>1. /\ pc'[d] = pc[d] /\ tx'[d].user = tx[d].user /\ tx'[d].targets = tx[d].targets /\ tx[d].bars
          BY <1>3, <2>8
    <3>2. /\ pc[d] \in {"revokeAll", "revoking"}
          /\ Exists(tx[d].user) /\ ~users[tx[d].user].isActive
          /\ pc[d] = "revoking" =>
               \A t \in held : Live(t) /\ rows[t].user = tx[d].user => t \in tx[d].targets
          BY <3>1 DEF BarredOK
    <3>3. tx[d].user \in Users /\ (revived => tx[d].user # u)
          BY <2>5, <2>8, <3>2 DEF WellFormed, HandlerOK
    <3>4. users'[tx[d].user] # NoUser /\ ~users'[tx[d].user].isActive
          BY <2>3, <2>4, <3>2, <3>3
    <3> QED BY <1>4, <2>1, <3>1, <3>2, <3>4
  <2> QED BY <2>6, <2>7, <2>8 DEF BarredOK, Exists
<1> QED BY <1>5, <1>6

\* An account that a refresh has barred keeps no live token in anybody's hands.
LEMMA BarredStep == WellFormed /\ OwnersOK /\ BarredOK /\ [Next]_vars => BarredOK'
<1> SUFFICES ASSUME WellFormed, OwnersOK, BarredOK, [Next]_vars PROVE BarredOK'
    OBVIOUS
<1>1. ASSUME NEW c \in Calls, AccountSteps(c) \/ TokenSteps(c) PROVE BarredOK'
  <2>1. CASE CheckAccount(c)
        BY <2>1, BarredCheck
  <2>2. CASE RevokeAll(c) \/ (RevokeTargets(c) /\ tx[c].bars)
        BY <2>2, BarredRevoking
  <2>3. CASE EstablishSession(c) \/ WriteChange(c)
        BY <2>3, BarredForgets
  <2>4. CASE \/ PresentToken(c) \/ ClaimToken(c) \/ RereadToken(c) \/ MintToken(c)
             \/ Logout(c) \/ RevokeOne(c) \/ GiveUp(c)
             \/ RevokeTargets(c) /\ ~tx[c].bars
             \/ Login(c) \/ RecordSuccessfulLogin(c) \/ RecordFailedLogin(c)
             \/ Bootstrap(c) \/ Register(c) \/ FindEmail(c) \/ CreateUser(c)
             \/ ReadTarget(c) \/ CountOtherAdmins(c)
    <3>1. Calm
          BY <2>4, CalmCalls
    <3> QED BY <3>1, CalmSteps
  <2> QED BY <1>1, <2>1, <2>2, <2>3, <2>4 DEF AccountSteps, TokenSteps
<1>2. CASE Purge \/ Tick \/ UNCHANGED vars
  <2>1. UNCHANGED <<users, held, barred, pc, tx>>
        BY <1>2 DEF Purge, Tick, vars, tokenVars
  <2>2. Calm
        BY <2>1 DEF Calm
  <2> QED BY <2>2, CalmSteps
<1> QED BY <1>1, <1>2 DEF Next

\* Once a refresh has been refused because the account is inactive, no client holds a live token of
\* that account, whatever rotations, replays and purges run at the same time.
THEOREM BarredSafety == Spec => []BarredUserHoldsNoLiveToken
<1>1. Init => BarredOK
      BY DEF Init, NoTx, BarredOK, BarredUserHoldsNoLiveToken
<1>2. BarredOK => BarredUserHoldsNoLiveToken
      BY DEF BarredOK
<1> QED BY <1>1, <1>2, BarredStep, OwnersInvariant, WellFormedInvariant, PTL DEF Spec

=============================================================================
