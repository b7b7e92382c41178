------------------------------ MODULE Identity ------------------------------
(***************************************************************************)
(* Who may do what (src/identity): logins pending at the identity          *)
(* provider, the in-memory session store, the directory of role            *)
(* assignments with its frozen matrix, and the audit of privileged         *)
(* decisions.                                                              *)
(*                                                                         *)
(* One browser is modelled, with its two cookies.  A session is named by   *)
(* the login that created it.  An expired entry of the store is absent     *)
(* here: every reader of the store tests the expiry first.                 *)
(***************************************************************************)
EXTENDS Integers, FiniteSets, Sequences

CONSTANTS
    MaxLogins,    \* model bound on login attempts
    Assignments,  \* the roles the configuration assigns to the principal
    MaxTroubles   \* model bound on faults, revocations and extra requests

ASSUME IdentityAssumption ==
    /\ MaxLogins \in Nat /\ MaxTroubles \in Nat
    /\ Assignments \subseteq {"reader", "operator", "incomplete"}

Logins == 1..MaxLogins  \* each has its random state
None == 0               \* no cookie

VARIABLES
    started,      \* logins begun, in number
    pending,      \* login states awaiting their callback
    loginCookie,  \* the login state the browser holds
    exchanging,   \* callbacks that took their pending login
    made,         \* history: sessions created for each login
    sessions,     \* the session store
    cookie,       \* the session cookie of the browser
    rows,         \* the directory's roles of the principal
    troubles

loginVars == <<started, pending, loginCookie, exchanging, made>>
identityVars == <<loginVars, sessions, cookie, rows>>

Trouble == troubles < MaxTroubles /\ troubles' = troubles + 1

Roles == {"reader", "operator", "incomplete"}

IdentityInit ==
    /\ started = 0 /\ pending = {} /\ loginCookie = None
    /\ exchanging = [l \in Logins |-> 0] /\ made = [l \in Logins |-> 0]
    /\ sessions = {} /\ cookie = None
    /\ rows = Assignments
    /\ troubles = 0

-----------------------------------------------------------------------------
(* The policy.                                                             *)

\* The rows of the tenant; MX-010 is of the runtime scope, which no console asks.
Matrix ==
    {<<"reader", "inventory">>, <<"reader", "ops">>, <<"operator", "ops">>,
     <<"operator", "release">>, <<"operator", "replay">>,
     <<"operator", "rebuild">>, <<"operator", "audit">>,
     <<"reader", "features">>, <<"reader", "predictions">>}

\* One incomplete row denies everything.
Allow(action) ==
    /\ "incomplete" \notin rows
    /\ \E role \in rows : <<role, action>> \in Matrix

\* A request carries the session cookie it was sent with.
Session(id) == id \in sessions

-----------------------------------------------------------------------------
(* Login.                                                                  *)

HandleLogin(l) ==
    /\ l = started + 1
    /\ IF started = 0 THEN UNCHANGED troubles ELSE Trouble
    /\ started' = l
    /\ pending' = pending \union {l}
    /\ loginCookie' = l
    /\ UNCHANGED <<exchanging, made, sessions, cookie, rows>>

\* Mutant: a pending login can be taken more than once.
HandleCallbackTwice(l) ==
    /\ loginCookie = l
    /\ exchanging[l] < 2
    /\ l \in pending
    /\ exchanging' = [exchanging EXCEPT ![l] = @ + 1]
    /\ UNCHANGED <<started, pending, loginCookie, made, sessions, cookie, rows, troubles>>

\* A callback whose state is not the browser's login cookie is refused.
HandleCallback(l) ==
    /\ loginCookie = l
    /\ IF l \in pending
       THEN /\ pending' = pending \ {l}
            /\ exchanging' = [exchanging EXCEPT ![l] = @ + 1]
            /\ UNCHANGED loginCookie
       ELSE /\ loginCookie' = None
            /\ UNCHANGED <<pending, exchanging>>
    /\ UNCHANGED <<started, made, sessions, cookie, rows, troubles>>

\* The exchange, the verification and the nonce succeed, or one of them fails.
\* Either answer deletes the login cookie, whichever login set it.
FinishCallback(l) ==
    /\ exchanging[l] > 0
    /\ exchanging' = [exchanging EXCEPT ![l] = @ - 1]
    /\ loginCookie' = None
    /\ \/ /\ made' = [made EXCEPT ![l] = @ + 1]
          /\ sessions' = sessions \union {l}
          /\ cookie' = l
          /\ UNCHANGED troubles
       \/ Trouble /\ UNCHANGED <<made, sessions, cookie>>
    /\ UNCHANGED <<started, pending, rows>>

PendingExpires(l) ==
    /\ l \in pending /\ Trouble
    /\ pending' = pending \ {l}
    /\ UNCHANGED <<started, loginCookie, exchanging, made, sessions, cookie, rows>>

-----------------------------------------------------------------------------
(* The end of a session, and of a grant.                                   *)

SessionExpires(l) ==
    /\ l \in sessions /\ Trouble
    /\ sessions' = sessions \ {l}
    /\ UNCHANGED <<loginVars, cookie, rows>>

HandleLogout ==
    /\ cookie # None /\ Trouble
    /\ sessions' = sessions \ {cookie}
    /\ cookie' = None
    /\ UNCHANGED <<loginVars, rows>>

Assign(role) ==
    /\ role \notin rows /\ Trouble
    /\ rows' = rows \union {role}
    /\ UNCHANGED <<loginVars, sessions, cookie>>

Clear ==
    /\ rows # {} /\ Trouble
    /\ rows' = {}
    /\ UNCHANGED <<loginVars, sessions, cookie>>

\* The stores live in the process; the directory is rebuilt from configuration.
IdentityRestart ==
    /\ pending' = {} /\ sessions' = {}
    /\ exchanging' = [l \in Logins |-> 0]
    /\ rows' = Assignments
    /\ UNCHANGED <<started, loginCookie, made, cookie>>

IdentityTypeOK ==
    /\ started \in 0..MaxLogins /\ pending \subseteq Logins
    /\ loginCookie \in Logins \union {None} /\ cookie \in Logins \union {None}
    /\ exchanging \in [Logins -> Nat] /\ made \in [Logins -> Nat]
    /\ sessions \subseteq Logins
    /\ rows \subseteq Roles
    /\ troubles \in Nat

\* A login yields at most one session: a callback delivered twice, a second
\* login in another tab, or a restart between the two halves of the callback
\* never lets one pending state be redeemed twice (Store.takePending).
OneSessionPerLogin ==
    \A l \in Logins : made[l] + exchanging[l] <= 1
=============================================================================
