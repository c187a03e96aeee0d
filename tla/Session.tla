------------------------------- MODULE Session -------------------------------
(***************************************************************************)
(* The session of one browser: AuthContext.tsx with the token of api.ts,   *)
(* and the tokens the API accepts.  Tokens are numbered as they are        *)
(* issued, 0 is none.  An answer may come long after the session that sent *)
(* its request: stray holds the tokens of such requests.                   *)
(***************************************************************************)
EXTENDS Naturals

CONSTANT MaxLogin           \* bound: logins of the browser

VARIABLES
    browser,      \* the token stored, the token sent, the user, loading of AuthProvider
    alive,        \* tokens the API accepts: not expired, of a user that exists
    issued,       \* number of tokens issued
    stray         \* tokens of requests whose page is gone or has given up

session == <<browser, alive, issued, stray>>

Token == 0..MaxLogin

SessionTypeOK ==
    /\ browser \in [stored : Token, token : Token, user : BOOLEAN, loading : BOOLEAN]
    /\ alive \in SUBSET (1..issued)
    /\ issued \in Token
    /\ stray \in SUBSET (1..issued)

SignedOut == [stored |-> 0, token |-> 0, user |-> FALSE, loading |-> FALSE]
SignedIn(t) == [stored |-> t, token |-> t, user |-> TRUE, loading |-> FALSE]

SessionInit == browser = SignedOut /\ alive = {} /\ issued = 0 /\ stray = {}

----------------------------------------------------------------------------
\* LoginPage and authApi.login, answered; a refusal changes nothing.
Login ==
    /\ ~browser.user /\ ~browser.loading
    /\ issued < MaxLogin
    /\ issued' = issued + 1
    /\ alive' = alive \cup {issued'}
    /\ browser' = SignedIn(issued')
    /\ UNCHANGED stray

Logout ==
    /\ browser.user
    /\ browser' = SignedOut
    /\ UNCHANGED <<alive, issued>>

\* The tab is loaded again: memory is gone, and what was in flight with it.
Restart ==
    /\ browser' = [stored |-> browser.stored, token |-> browser.stored, user |-> FALSE,
                   loading |-> browser.stored # 0]
    /\ stray' = {}
    /\ UNCHANGED <<alive, issued>>

\* The answer of authApi.me() to that start.
MeAccepted ==
    /\ browser.loading /\ browser.token \in alive
    /\ browser' = SignedIn(browser.token)
    /\ UNCHANGED <<alive, issued, stray>>

\* Refused, or not answered at all: both forget the token.
MeFails ==
    /\ browser.loading
    /\ browser' = SignedOut
    /\ UNCHANGED <<alive, issued, stray>>

\* JwtStrategy.validate finds no user any more, or the token expires.
TokenDies(t) ==
    /\ t \in alive
    /\ alive' = alive \ {t}
    /\ UNCHANGED <<browser, issued, stray>>

\* (mutant: every answer that is not ok signs out)
UnauthorizedAlways(t) == TRUE

\* What request() does with an answer that is not ok: a 401 signs out
\* whoever is signed in, whatever token the request was sent with.
Unauthorized(t) == t \notin alive

\* One of the requests left over is answered, perhaps not the last of its token.
StrayAnswered(t) ==
    /\ t \in stray
    /\ browser' = IF Unauthorized(t) THEN SignedOut ELSE browser
    /\ UNCHANGED <<alive, issued>>
=============================================================================
