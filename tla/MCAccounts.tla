----------------------------- MODULE MCAccounts -----------------------------
(***************************************************************************)
(* An instance of Accounts: two users, one request in progress, two        *)
(* refresh tokens, so that one is rotated once, one password reset, one    *)
(* API key.                                                                *)
(***************************************************************************)
EXTENDS Accounts, TLC

CONSTANTS u1, u2, q1, t1, t2, x1, k1, oidc

TwoUsers   == {u1, u2}
OneRequest == {q1}
TwoTokens  == {t1, t2}
OneReset   == {x1}
OneKey     == {k1}
OneConfig  == {oidc}

RowSymmetry == Permutations(Users) \cup Permutations(Tokens)
=============================================================================
