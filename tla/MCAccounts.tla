----------------------------- MODULE MCAccounts -----------------------------
(***************************************************************************)
(* An administrator and a user with two sessions, another administrator or *)
(* a coach who has been deactivated, or a fresh installation; two requests *)
(* that start or use sessions and one that ends or forbids them.           *)
(***************************************************************************)
EXTENDS Accounts, TLC

CONSTANTS root, ann, r1, r2, r3

MCAsks ==
    LET refresh == [op |-> "refresh"]
        login == [op: {"login"}, user: {ann}, right: BOOLEAN]
        misremember == [op |-> "login", user |-> ann, right |-> FALSE]
    IN  r1 :> {refresh, [op |-> "bootstrap", user |-> root]} \cup login
        @@ r2 :> {refresh, misremember, [op |-> "register", user |-> root]}
        @@ r3 :> {[op |-> "logout"]}
                 \cup [op: {"change"}, user: {ann}, change: {"delete", "reactivate"}]
                 \cup [op: {"change"}, user: {root}, change: {"demote"}]

Admin == [role |-> "SUPER_ADMIN", isActive |-> TRUE, failed |-> 0, lockedUntil |-> Null]
Coach == [Admin EXCEPT !.role = "COACH"]

MCInitial ==
    {[users |-> root :> Admin @@ ann :> coach,
      sessions |-> <<[user |-> ann, expiresAt |-> 2], [user |-> ann, expiresAt |-> 1]>>] :
        coach \in {Admin, [Coach EXCEPT !.isActive = FALSE]}}
    \cup {[users |-> [u \in Users |-> NoUser], sessions |-> <<>>]}

=============================================================================
