---------------------------- MODULE RelayBackoff ----------------------------
(***************************************************************************)
(* The backoff of one outbox row during a broker outage.  The delay is     *)
(* computed twice in src/relay/claim.go: by BackoffAfterAttempts in Go and *)
(* inside the UPDATE of ReleaseTransient in SQL, where 2^(attempts - 1) is *)
(* a double cast to bigint before it is capped.  A failing cast fails the  *)
(* statement, and the row keeps its lease.                                 *)
(***************************************************************************)
EXTENDS Integers

CONSTANT MaxAttempts  \* model bound on publish_attempts

VARIABLES
    status,    \* of the row
    attempts,  \* publish_attempts
    delay,     \* seconds until the row is due again
    step       \* of the drain: "due", "failed" (broker error), "handled"

vars == <<status, attempts, delay, step>>

Smaller(a, b) == IF a <= b THEN a ELSE b
Larger(a, b) == IF a <= b THEN b ELSE a

LeaseSeconds == 30  \* DefaultLeaseTTL
CapSeconds == 60
BigintBits == 63    \* a bigint is below 2^63

\* Seconds after n attempts, as the Go function has it.
BackoffAfterAttempts(n) == Smaller(2 ^ Smaller(Larger(n, 1) - 1, 6), CapSeconds)

\* The expression in ReleaseTransient: whether the cast succeeds, and its value
\* (a power of two above the cap is not computed).
CastSucceeds(n) == Larger(n, 1) - 1 < BigintBits

SqlBackoff(n) ==
    IF Larger(n, 1) - 1 > 6 THEN CapSeconds ELSE Smaller(2 ^ (Larger(n, 1) - 1), CapSeconds)

Init == status = "pending" /\ attempts = 0 /\ delay = 0 /\ step = "due"

\* ClaimDue, then a broker that does not answer.
ClaimAndFail ==
    /\ step = "due" /\ attempts < MaxAttempts
    /\ status' = "publishing"
    /\ attempts' = attempts + 1
    /\ delay' = LeaseSeconds
    /\ step' = "failed"

ReleaseTransient ==
    /\ step = "failed"
    /\ step' = "handled"
    /\ IF CastSucceeds(attempts)
       THEN status' = "pending" /\ delay' = SqlBackoff(attempts)
       ELSE UNCHANGED <<status, delay>>
    /\ UNCHANGED attempts

TimePasses ==
    /\ step = "handled"
    /\ delay' = 0
    /\ step' = "due"
    /\ UNCHANGED <<status, attempts>>

Next == ClaimAndFail \/ ReleaseTransient \/ TimePasses

Spec == Init /\ [][Next]_vars

\* After every failed publication the row is pending again and waits exactly
\* the exponential backoff, capped at 60 seconds.
BackoffRecorded ==
    step = "handled" => status = "pending" /\ delay = BackoffAfterAttempts(attempts)

=============================================================================
