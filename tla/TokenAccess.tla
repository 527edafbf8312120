----------------------------- MODULE TokenAccess -----------------------------
(***************************************************************************)
(* Sessions and API tokens of a user.  A login opens a session of an       *)
(* access and a refresh token, signed with the key of the running process; *)
(* under it the user creates, revokes and rotates API tokens.  A rotation  *)
(* reads the token and commits its successor later, in a session of its    *)
(* own: other requests of the user come between.                           *)
(***************************************************************************)
EXTENDS Naturals, FiniteSets

CONSTANTS
    Account,         \* names of users
    Rotation,        \* rotations at work at a time
    AccessLife, RefreshLife, TokenLife,   \* lifetimes
    LastDay,         \* bound of the clock
    MaxTokens        \* bound: API tokens made

ASSUME TokenAssumption ==
    {AccessLife, RefreshLife, TokenLife, LastDay, MaxTokens} \subseteq Nat /\ LastDay # 0

VARIABLES
    day,         \* the clock
    accounts,    \* registered users
    login,       \* [Account -> until when the last access and refresh token are good]
    tokens,      \* [id -> the row of an API token]
    rotating,    \* [Rotation -> the token it read, 0: none]
    contested,   \* tokens' origins two rotations worked on at a time
    made         \* API tokens made

tokenVars == <<day, accounts, login, tokens, rotating, contested, made>>

TokenId == 1 .. MaxTokens
NoToken == [user |-> "", active |-> FALSE, until |-> 0, origin |-> 0]
SignedOut == [access |-> 0, refresh |-> 0]

TokenInit ==
    /\ day = 1 /\ accounts = {} /\ contested = {} /\ made = 0
    /\ login = [a \in Account |-> SignedOut]
    /\ tokens = [i \in TokenId |-> NoToken]
    /\ rotating = [r \in Rotation |-> 0]

DayPasses ==
    /\ day < LastDay /\ day' = day + 1
    /\ UNCHANGED <<accounts, login, tokens, rotating, contested, made>>

NewAccount(a) == a \notin accounts /\ accounts' = accounts \union {a}

\* The name is new and the password strong, or the request is answered 400.
RegisterUser(a) ==
    /\ NewAccount(a)
    /\ UNCHANGED <<day, login, tokens, rotating, contested, made>>

NewLogin(a) == login' = [login EXCEPT ![a] = [access |-> day + AccessLife, refresh |-> day + RefreshLife]]

\* The password is the one of the account.
Authenticated(a) == a \in accounts

Login(a) ==
    /\ Authenticated(a) /\ NewLogin(a)
    /\ UNCHANGED <<day, accounts, tokens, rotating, contested, made>>

RefreshLogin(a) ==
    /\ day < login[a].refresh /\ NewLogin(a)
    /\ UNCHANGED <<day, accounts, tokens, rotating, contested, made>>

\* Without CI_ENGINE_JWT_SECRET_KEY every start makes a key of its own, and
\* all logins are over; requests under way end without their commit.
RestartAuth ==
    /\ login' \in {login, [a \in Account |-> SignedOut]}
    /\ rotating' = [r \in Rotation |-> 0]
    /\ UNCHANGED <<day, accounts, tokens, contested, made>>

\* verify_token: the access token has not ended and is of the running process.
SignedIn(a) == day < login[a].access

\* get_current_user: the user the token names, who is in the table.
CurrentUser(a) == SignedIn(a) /\ a \in accounts

NewToken(user, until, origin) ==
    [user |-> user, active |-> TRUE, until |-> until, origin |-> origin]

CreateToken(a) ==
    /\ CurrentUser(a) /\ made < MaxTokens /\ made' = made + 1
    /\ tokens' = [tokens EXCEPT ![made + 1] = NewToken(a, day + TokenLife, made + 1)]
    /\ UNCHANGED <<day, accounts, login, rotating, contested>>

Revoked(i) == [tokens EXCEPT ![i].active = FALSE]

RevokeToken(a, i) ==
    /\ CurrentUser(a) /\ i <= made /\ tokens[i].user = a
    /\ tokens' = Revoked(i)
    /\ UNCHANGED <<day, accounts, login, rotating, contested, made>>

\* rotate_refresh_token takes tokens that are active, expired or not.
RotatesAnyToken(i) == i <= made
RotatesToken(i) == i <= made /\ tokens[i].active

RotateReads(r, a, i) ==
    /\ CurrentUser(a) /\ rotating[r] = 0 /\ RotatesToken(i) /\ tokens[i].user = a
    /\ rotating' = [rotating EXCEPT ![r] = i]
    /\ contested' = IF \E q \in Rotation : rotating[q] = i THEN contested \union {tokens[i].origin}
                    ELSE contested
    /\ UNCHANGED <<day, accounts, login, tokens, made>>

\* The successor has the end of the old token, and is active even if that was
\* revoked in between.
RotateCommits(r) ==
    LET old == rotating[r] IN
    /\ old # 0 /\ made < MaxTokens /\ made' = made + 1
    /\ tokens' = [tokens EXCEPT ![old].active = FALSE,
                                ![made + 1] = NewToken(tokens[old].user, tokens[old].until, tokens[old].origin)]
    /\ rotating' = [rotating EXCEPT ![r] = 0]
    /\ UNCHANGED <<day, accounts, login, contested>>

TokenNext ==
    \/ DayPasses \/ RestartAuth
    \/ \E a \in Account : RegisterUser(a) \/ Login(a) \/ RefreshLogin(a) \/ CreateToken(a)
    \/ \E a \in Account, i \in TokenId : RevokeToken(a, i) \/ \E r \in Rotation : RotateReads(r, a, i)
    \/ \E r \in Rotation : RotateCommits(r)

TokenSpec == TokenInit /\ [][TokenNext]_tokenVars

-----------------------------------------------------------------------------
(* Properties. *)

TokenTypeOK ==
    /\ day \in 1 .. LastDay /\ accounts \subseteq Account
    /\ login \in [Account -> [access : 0 .. LastDay + AccessLife, refresh : 0 .. LastDay + RefreshLife]]
    /\ tokens \in [TokenId -> [user : Account \union {""}, active : BOOLEAN,
                               until : 0 .. LastDay + TokenLife, origin : 0 .. MaxTokens]]
    /\ rotating \in [Rotation -> 0 .. MaxTokens] /\ contested \subseteq TokenId
    /\ made \in 0 .. MaxTokens

\* Of a token and all that it was rotated into at most one is active, unless
\* two rotations read the same token before either committed; and no rotation
\* outlives the end, or leaves the hands, of the token it began with.
OneTokenPerOrigin ==
    \A i, j \in 1 .. made :
        tokens[i].origin = tokens[j].origin =>
            /\ tokens[i].user = tokens[j].user /\ tokens[i].until = tokens[j].until
            /\ tokens[i].active /\ tokens[j].active => i = j \/ tokens[i].origin \in contested
=============================================================================
