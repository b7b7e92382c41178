---------------------------- MODULE InboxRules -----------------------------
(***************************************************************************)
(* The decisions of the Event Spine consumer on one inventory event, as    *)
(* operators on the rows it reads (src/platform/process.go).  They are     *)
(* shared by the modules that differ in how transactions interleave.       *)
(*                                                                         *)
(* A message is what event.Parse accepts: an event id, its item and        *)
(* version, and the quantity before and after.  Parse already rejected     *)
(* before - decrement # after, so the decrement is not kept.  The content  *)
(* hash of a message stands for the whole message.                         *)
(***************************************************************************)
EXTENDS Integers

CONSTANTS
    Msgs,   \* every message that can arrive
    NoMsg   \* a NULL column

Ids == {m.id : m \in Msgs}
Items == {m.item : m \in Msgs}

ASSUME MsgsAssumption ==
    /\ \A m \in Msgs : m.ver \in Nat \ {0} /\ m.before \in Nat /\ m.after \in Nat
    /\ NoMsg \notin Msgs

Applied == "applied"
DuplicateNoop == "duplicate_noop"
Conflict == "quarantined_conflict"
Gap == "quarantined_gap"
Stale == "quarantined_stale"
Mismatch == "quarantined_mismatch"
Transition == "quarantined_transition"

Dispositions ==
    {Applied, DuplicateNoop, Conflict, Gap, Stale, Mismatch, Transition}

\* An inbox row; disposition "none" stands for no row.
Rows == [disp : Dispositions \cup {"none"},
         hash : Msgs \cup {NoMsg}, bytes : Msgs \cup {NoMsg}]
NoRow == [disp |-> "none", hash |-> NoMsg, bytes |-> NoMsg]

\* A projection row; version 0 stands for no row (rows are inserted at 1).
View == [ver : Nat, qty : Nat]
NoView == [ver |-> 0, qty |-> 0]

\* Mutant: a later version is applied over the missing ones.
ApplyProjectionSkips(v, m) ==
    CASE v.ver # 0 /\ m.ver <= v.ver                        -> Stale
      [] v.ver # 0 /\ m.ver = v.ver + 1 /\ m.before # v.qty -> Transition
      [] OTHER                                              -> Applied

\* Mutant: the quantity before is not compared.
ApplyProjectionAnyQuantity(v, m) ==
    CASE v.ver = 0 /\ m.ver = 1         -> Applied
      [] v.ver = 0 /\ m.ver # 1         -> Gap
      [] v.ver # 0 /\ m.ver <= v.ver    -> Stale
      [] v.ver # 0 /\ m.ver > v.ver + 1 -> Gap
      [] OTHER                          -> Applied

\* applyProjection: the disposition of a new or re-driven message m when the
\* item's projection row is v.
ApplyProjection(v, m) ==
    CASE v.ver = 0 /\ m.ver = 1                             -> Applied
      [] v.ver = 0 /\ m.ver # 1                             -> Gap
      [] v.ver # 0 /\ m.ver <= v.ver                        -> Stale
      [] v.ver # 0 /\ m.ver > v.ver + 1                     -> Gap
      [] v.ver # 0 /\ m.ver = v.ver + 1 /\ m.before # v.qty -> Transition
      [] OTHER                                              -> Applied

\* upsertInbox: a conflict keeps the stored hash, and only a gap keeps bytes.
UpsertInbox(r, m, d) ==
    [disp  |-> d,
     hash  |-> IF d = Conflict /\ r.disp # "none" THEN r.hash ELSE m,
     bytes |-> IF d = Gap THEN m ELSE NoMsg]

\* processValidated, by the inbox row r it finds for m's id.
Conflicts(r, m) == r.disp # "none" /\ r.hash # m
Duplicates(r, m) == r.disp \in {Applied, DuplicateNoop} /\ r.hash = m

\* Mutant: the inbox row is not consulted.
FreshAlways(r, m) == TRUE

Fresh(r, m) == r.disp = "none" \/ (r.disp = Gap /\ r.hash = m)

\* Its disposition; a terminal quarantine keeps its own.
ProcessValidated(r, v, m) ==
    CASE Conflicts(r, m)  -> Conflict
      [] Duplicates(r, m) -> DuplicateNoop
      [] Fresh(r, m)      -> ApplyProjection(v, m)
      [] OTHER            -> r.disp

\* Mutant: every new message is recorded as applied.
InboxAfterAllApplied(r, v, m) ==
    IF Conflicts(r, m) THEN UpsertInbox(r, m, Conflict)
    ELSE IF Duplicates(r, m) \/ Fresh(r, m) THEN UpsertInbox(r, m, Applied)
    ELSE r

\* The inbox row it leaves; a terminal quarantine is not written.
InboxAfter(r, v, m) ==
    IF Conflicts(r, m) \/ Duplicates(r, m) \/ Fresh(r, m)
    THEN UpsertInbox(r, m, ProcessValidated(r, v, m))
    ELSE r

\* Whether it changes the projection.
TakesEffect(r, v, m) == Fresh(r, m) /\ ApplyProjection(v, m) = Applied

\* The projection row once m has been applied.
Projected(m) == [ver |-> m.ver, qty |-> m.after]

=============================================================================
