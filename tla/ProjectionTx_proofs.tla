------------------------ MODULE ProjectionTx_proofs ------------------------
(***************************************************************************)
(* The consumer beside an operator control, statement by statement, for    *)
(* every history, any number of records and any number of failures: the    *)
(* projection advances by one version, an applied row is backed by the     *)
(* projection and a control that reports complete has seen the whole       *)
(* history, the last two unless a reset runs beside a live consumer.       *)
(***************************************************************************)
EXTENDS ProjectionTx, TLAPS

Pcs == {"idle", "lockInbox", "lockProjection", "insertProjection",
        "upsertInbox", "commit", "redrive"}

Txs == [pc : Pcs, msg : Msgs \cup {NoMsg}, redriving : BOOLEAN,
        disp : Dispositions \cup {"none"}, new : Rows,
        res : Dispositions \cup {"none", "failed"}]

Resetting == {"deleteInbox", "deleteProjection", "commitReset"}

Controls == [stage : Resetting \cup {"start", "replay", "checksum", "done"},
             rebuild : BOOLEAN, quiesced : BOOLEAN, idx : 0 .. Len(History),
             status : {"complete", "incomplete"}, sum : View]

TypeOK ==
    /\ inbox \in [Ids -> Rows]
    /\ proj \in View
    /\ rowLock \in [Ids -> Procs \cup {NoProc}]
    /\ viewLock \in Procs \cup {NoProc}
    /\ tx \in [Procs -> Txs]
    /\ control \in Controls
    /\ doomed \subseteq Ids

\* No event of some version below m's exists, so that m stays a gap.
Missing(m) == \E v \in 1 .. m.ver - 1 : \A n \in Msgs : n.ver # v

\* The transaction t has decided and will write its inbox row, or has.
Decided(t) ==
    \/ t.pc \in {"insertProjection", "upsertInbox"}
    \/ t.pc = "commit" /\ t.new # NoRow

\* What a transaction knows of itself at each of its statements.
TxFits(t) ==
    /\ t.pc \notin {"idle", "redrive"} => t.msg \in Msgs
    /\ t.pc \in {"idle", "redrive", "lockInbox", "lockProjection"} =>
          t.new = NoRow /\ t.disp = "none"
    /\ t.pc \in {"insertProjection", "upsertInbox"} => t.new = NoRow
    /\ t.pc = "insertProjection" => t.disp = Applied /\ t.msg.ver = 1
    /\ t.pc = "commit" =>
          IF t.new = NoRow THEN t.disp \in Terminal
          ELSE t.new.disp = t.disp /\ t.new.hash = t.msg
    /\ Decided(t) => t.disp \in {Applied, DuplicateNoop, Gap, Stale, Transition}
    /\ Decided(t) /\ t.disp # Gap => ~Missing(t.msg)
    /\ t.redriving \/ t.pc = "redrive" => t.res # "none"
    /\ t.pc \in {"idle", "redrive"} => ~t.redriving

\* A transaction about to apply its message holds the projection row, which the
\* message follows.
HoldsView(t, p, v, holder) ==
    t.pc \in {"upsertInbox", "commit"} /\ t.disp = Applied =>
        holder = p /\ t.msg.ver = v.ver + 1

\* The row of m says what became of it.
RowFits(r, m) ==
    /\ r.disp = "none" => r = NoRow
    /\ r.disp # "none" => r.hash = m
    /\ r.disp \notin {"none", Gap} => ~Missing(m)

\* The projection is that of an event, and every version up to it exists.
ViewFits(v) ==
    /\ v = NoView \/ \E m \in Msgs : v = Projected(m)
    /\ \A w \in 1 .. v.ver : \E m \in Msgs : m.ver = w

TxInv ==
    /\ \A p \in Procs : TxFits(tx[p]) /\ HoldsView(tx[p], p, proj, viewLock)
    /\ \A m \in Msgs : RowFits(inbox[m.id], m)
    /\ ViewFits(proj)

\* Where the two processes are while the control runs.
ControlInv ==
    /\ control.quiesced /\ ControlRuns => tx[Consumer].pc = "idle"
    /\ control.stage # "replay" => tx[Operator].pc = "idle"
    /\ control.stage \in Resetting \cup {"start"} =>
          control.idx = 0 /\ tx[Operator].res = "none"
    /\ control.stage \in Resetting => control.rebuild
    /\ control.stage = "start" => ~control.rebuild

\* With the consumer stopped, the reset takes every row.
ResetInv ==
    control.quiesced =>
        /\ control.stage = "deleteInbox" =>
              \A i \in Ids : inbox[i] # NoRow => i \in doomed \/ rowLock[i] = Operator
        /\ control.stage \in {"deleteProjection", "commitReset"} =>
              \A i \in Ids : inbox[i] # NoRow => rowLock[i] = Operator
        /\ control.stage = "commitReset" => proj = NoView \/ viewLock = Operator

\* A duplicate has been applied, and stays so until it is answered.
DuplicateInv ==
    \A p \in Procs : Decided(tx[p]) /\ tx[p].disp = DuplicateNoop =>
        proj.ver >= tx[p].msg.ver

\* The record m is in the projection, or is a gap for ever.
Settled(m, v, r) == v.ver >= m.ver \/ (r.disp = Gap /\ Missing(m))

SettledAt(i) == Settled(History[i], proj, inbox[History[i].id])

\* What the operator's transaction t has done of its record.
RecordFits(t, k) ==
    /\ t.res \in {Applied, DuplicateNoop, Gap} => k > 0 /\ SettledAt(k)
    /\ t.pc = "idle" /\ k > 0 => t.res # "none"
    /\ t.pc \notin {"idle", "redrive"} /\ ~t.redriving =>
          k > 0 /\ t.msg = History[k] /\ t.res = "none"
    /\ Decided(t) /\ ~t.redriving /\ t.disp = Gap => Missing(t.msg)

\* The operator's records so far, while none has failed the control.
ReplayInv ==
    control.stage = "replay" /\ control.status = "complete" =>
        /\ \A i \in 1 .. control.idx - 1 : SettledAt(i)
        /\ RecordFits(tx[Operator], control.idx)

ChecksumInv ==
    control.stage = "checksum" /\ control.status = "complete" =>
        History # <<>> /\ proj = Projected(History[Len(History)])

\* What holds unless a reset runs beside the consumer.
QuietInv ==
    NoLiveReset => /\ ResetInv
                   /\ AppliedIsProjected
                   /\ DuplicateInv
                   /\ ReplayInv
                   /\ ChecksumInv
                   /\ CompleteIsProof

Inv == TypeOK /\ TxInv /\ ControlInv /\ QuietInv

-----------------------------------------------------------------------------
\* The provers to try on a leaf that names none, in this order.
USE Zenon, SMT, Z3

USE DEF Applied, DuplicateNoop, Conflict, Gap, Stale, Mismatch, Transition

\* applyProjection compares the version with the one after the row's.
LEMMA Decision ==
    ASSUME NEW v \in View, NEW m \in Msgs
    PROVE  /\ ApplyProjection(v, m) \in {Applied, Gap, Stale, Transition}
           /\ ApplyProjection(v, m) \in {Applied, Transition} => m.ver = v.ver + 1
           /\ ApplyProjection(v, m) = Stale => m.ver <= v.ver
           /\ ApplyProjection(v, m) = Gap => m.ver > v.ver + 1
  <1>1. m.ver \in Nat \ {0} /\ v.ver \in Nat
    BY MsgsAssumption DEF View
  <1> QED BY <1>1 DEF ApplyProjection

\* What processValidated does of a message whose row fits.
LEMMA Validation ==
    ASSUME NEW r \in Rows, NEW m \in Msgs, RowFits(r, m)
    PROVE  /\ ~Conflicts(r, m)
           /\ Duplicates(r, m) <=> r.disp \in {Applied, DuplicateNoop}
           /\ Fresh(r, m) <=> r.disp \in {"none", Gap}
           /\ ~Fresh(r, m) /\ Duplicates(r, m) =>
                 ProcessValidated(r, NoView, m) = DuplicateNoop
           /\ ~Fresh(r, m) /\ ~Duplicates(r, m) =>
                 /\ ProcessValidated(r, NoView, m) = r.disp
                 /\ r.disp \in Terminal
  <1>1. r.disp \in Dispositions \cup {"none"}
    BY DEF Rows
  <1> QED BY <1>1 DEF RowFits, Conflicts, Duplicates, Fresh, ProcessValidated,
                      Terminal, Dispositions

\* No version is missing below an event that the projection has, or that follows it.
LEMMA NotMissing ==
    ASSUME NEW v \in View, NEW m \in Msgs, ViewFits(v), m.ver <= v.ver + 1
    PROVE  ~Missing(m)
  <1>1. m.ver \in Nat \ {0} /\ v.ver \in Nat
    BY MsgsAssumption DEF View
  <1> QED BY SMT, <1>1 DEF Missing, ViewFits

\* The row that upsertInbox leaves.
LEMMA Upserted ==
    ASSUME NEW r \in Rows, NEW m \in Msgs, NEW d \in Dispositions
    PROVE  /\ UpsertInbox(r, m, d) \in Rows
           /\ UpsertInbox(r, m, d) # NoRow
           /\ UpsertInbox(r, m, d).disp = d
           /\ d # Conflict => UpsertInbox(r, m, d).hash = m
  BY DEF UpsertInbox, Rows, NoRow, Dispositions

LEMMA ProjectedView ==
    ASSUME NEW m \in Msgs
    PROVE  Projected(m) \in View /\ Projected(m).ver = m.ver /\ m.ver \in Nat \ {0}
  BY MsgsAssumption DEF Projected, View

-----------------------------------------------------------------------------
(* Steps of one transaction that commit nothing.                           *)

\* p may take and release locks that are its own or nobody's.
LocksKept(p) ==
    /\ rowLock' \in [Ids -> Procs \cup {NoProc}]
    /\ viewLock' \in Procs \cup {NoProc}
    /\ \A i \in Ids : rowLock[i] \notin {p, NoProc} => rowLock'[i] = rowLock[i]
    /\ viewLock \notin {p, NoProc} => viewLock' = viewLock

\* Statement by statement a transaction keeps the invariant, if what it knows
\* of itself afterwards is so.
LEMMA StatementKeeps ==
    ASSUME Inv, NEW p \in Procs, NEW t \in Txs,
           tx' = [tx EXCEPT ![p] = t],
           UNCHANGED <<inbox, proj, control, doomed>>,
           LocksKept(p),
           TxFits(t), HoldsView(t, p, proj, viewLock'),
           \/ tx[p].pc # "idle"
           \/ p = Consumer /\ ~(control.quiesced /\ ControlRuns),
           NoLiveReset /\ Decided(t) /\ t.disp = DuplicateNoop => proj.ver >= t.msg.ver,
           p = Operator /\ NoLiveReset /\ control.status = "complete" =>
               RecordFits(t, control.idx)
    PROVE  Inv'
  <1> USE DEF Inv
  <1>0. /\ tx'[p] = t
        /\ \A q \in Procs \ {p} : tx'[q] = tx[q]
        /\ Procs = {Consumer, Operator} /\ Consumer # Operator
        /\ NoProc \notin Procs
    BY HistoryAssumption DEF TypeOK, Procs
  <1>1. TypeOK'
    BY DEF TypeOK, LocksKept
  <1>2. TxInv'
    <2>1. ASSUME NEW q \in Procs
          PROVE  TxFits(tx'[q]) /\ HoldsView(tx'[q], q, proj, viewLock')
      <3>1. CASE q = p
        BY <3>1, <1>0
      <3>2. CASE q # p
        <4>1. TxFits(tx[q]) /\ HoldsView(tx[q], q, proj, viewLock)
          BY DEF TxInv
        <4>2. viewLock = q => viewLock' = q
          BY <3>2, <1>0 DEF LocksKept
        <4> QED BY <4>1, <4>2, <3>2, <1>0 DEF HoldsView
      <3> QED BY <3>1, <3>2
    <2>2. (\A m \in Msgs : RowFits(inbox[m.id], m)) /\ ViewFits(proj)
      BY DEF TxInv
    <2> QED BY <2>1, <2>2 DEF TxInv
  <1>3. ControlInv'
    <2>1. tx[Operator].pc # "idle" => control.stage = "replay"
      BY DEF ControlInv
    <2>2. p = Operator => control.stage = "replay"
      BY <2>1, <1>0
    <2>3. CASE p = Operator
      BY <2>2, <2>3, <1>0 DEF ControlInv, ControlRuns, Resetting
    <2>4. CASE p = Consumer
      BY <2>4, <1>0 DEF ControlInv, ControlRuns, Resetting
    <2> QED BY <2>3, <2>4, <1>0
  <1>4. ASSUME NoLiveReset
        PROVE  /\ ResetInv' /\ DuplicateInv' /\ ReplayInv'
               /\ AppliedIsProjected' /\ ChecksumInv' /\ CompleteIsProof'
    <2>0. ResetInv /\ DuplicateInv /\ ReplayInv /\ AppliedIsProjected /\ ChecksumInv /\ CompleteIsProof
      BY <1>4 DEF QuietInv
    <2>1. ResetInv'
      <3>1. CASE p = Operator
        <4>1. control.stage = "replay"
          BY <3>1, <1>0 DEF ControlInv
        <4> QED BY <4>1 DEF ResetInv
      <3>2. CASE p = Consumer
        <4>1. viewLock = Operator => viewLock' = Operator
          BY <3>2, <1>0 DEF LocksKept
        <4>2. \A i \in Ids : rowLock[i] = Operator => rowLock'[i] = Operator
          BY <3>2, <1>0 DEF LocksKept
        <4> QED BY <4>1, <4>2, <2>0 DEF ResetInv
      <3> QED BY <3>1, <3>2, <1>0
    <2>2. DuplicateInv'
      <3>1. \A q \in Procs : Decided(tx'[q]) /\ tx'[q].disp = DuplicateNoop => proj.ver >= tx'[q].msg.ver
        BY SMT, <2>0, <1>0, <1>4 DEF DuplicateInv
      <3> QED BY <3>1 DEF DuplicateInv
    <2>3. ReplayInv'
      <3>1. control.stage = "replay" /\ control.status = "complete" =>
               /\ \A i \in 1 .. control.idx - 1 : SettledAt(i)
               /\ RecordFits(tx'[Operator], control.idx)
        BY <2>0, <1>0, <1>4 DEF ReplayInv
      <3> QED BY <3>1 DEF ReplayInv, RecordFits, SettledAt
    <2>4. AppliedIsProjected' /\ ChecksumInv' /\ CompleteIsProof'
      BY <2>0 DEF AppliedIsProjected, ChecksumInv, CompleteIsProof, NoLiveReset
    <2> QED BY <2>1, <2>2, <2>3, <2>4
  <1>5. QuietInv'
    BY <1>4 DEF QuietInv, NoLiveReset
  <1> QED BY <1>1, <1>2, <1>3, <1>5

\* What the invariant says of one transaction.
LEMMA OneTx ==
    ASSUME Inv, NEW p \in Procs
    PROVE  /\ tx[p] \in Txs /\ TxFits(tx[p]) /\ HoldsView(tx[p], p, proj, viewLock)
           /\ tx[p].pc \notin {"idle", "redrive"} =>
                 /\ tx[p].msg \in Msgs /\ tx[p].msg.id \in Ids
                 /\ inbox[tx[p].msg.id] \in Rows
                 /\ RowFits(inbox[tx[p].msg.id], tx[p].msg)
           /\ proj \in View /\ ViewFits(proj)
           /\ p = Operator /\ tx[p].pc # "idle" => control.stage = "replay"
           /\ NoLiveReset /\ control.status = "complete" /\ p = Operator /\ tx[p].pc # "idle" =>
                 RecordFits(tx[p], control.idx)
  BY DEF Inv, TypeOK, TxInv, TxFits, ControlInv, QuietInv, ReplayInv, Ids

\* SELECT ... FROM platform.inbox FOR UPDATE.
LEMMA LockInboxKeeps ==
    ASSUME Inv, NEW p \in Procs, LockInbox(p)
    PROVE  Inv'
  <1> DEFINE m == tx[p].msg
             r == inbox[m.id]
             t == tx'[p]
  <1>1. /\ tx[p] \in Txs /\ TxFits(tx[p]) /\ tx[p].pc = "lockInbox" /\ m \in Msgs
        /\ r \in Rows /\ RowFits(r, m) /\ m.id \in Ids
    BY OneTx DEF LockInbox
  <1>2. t = [tx[p] EXCEPT !.pc = IF Fresh(r, m) THEN "lockProjection"
                                 ELSE IF Duplicates(r, m) THEN "upsertInbox" ELSE "commit",
                          !.disp = IF Fresh(r, m) THEN "none" ELSE ProcessValidated(r, NoView, m)]
    BY <1>1, Validation DEF LockInbox, Inv, TypeOK
  <1>3. tx' = [tx EXCEPT ![p] = t]
    BY DEF LockInbox, Inv, TypeOK
  <1>4. /\ t.msg = m /\ t.new = NoRow /\ t.redriving = tx[p].redriving /\ t.res = tx[p].res
        /\ \/ Fresh(r, m) /\ t.pc = "lockProjection" /\ t.disp = "none"
           \/ /\ r.disp \in {Applied, DuplicateNoop}
              /\ t.pc = "upsertInbox" /\ t.disp = DuplicateNoop
           \/ t.pc = "commit" /\ t.disp \in Terminal
    BY SMT, <1>1, <1>2, Validation DEF Txs, TxFits
  <1>5. t \in Txs
    BY <1>1, <1>2, <1>4 DEF Txs, Pcs, Terminal, Dispositions
  <1>6. r.disp \in {Applied, DuplicateNoop} => ~Missing(m)
    BY <1>1 DEF RowFits
  <1>7. TxFits(t)
    BY <1>1, <1>4, <1>6 DEF TxFits, Decided
  <1>8. HoldsView(t, p, proj, viewLock')
    BY <1>4 DEF HoldsView, Terminal
  <1>9. LocksKept(p)
    BY <1>1 DEF LockInbox, LocksKept, FreeFor, Inv, TypeOK
  <1>10. NoLiveReset /\ Decided(t) /\ t.disp = DuplicateNoop => proj.ver >= t.msg.ver
    <2>1. NoLiveReset => AppliedIsProjected
      BY DEF Inv, QuietInv
    <2> QED BY <2>1, <1>1, <1>4 DEF AppliedIsProjected, Decided, Terminal
  <1>11. p = Operator /\ NoLiveReset /\ control.status = "complete" => RecordFits(t, control.idx)
    BY <1>1, <1>4, OneTx DEF RecordFits, Decided, Terminal
  <1>12. UNCHANGED <<inbox, proj, control, doomed>>
    BY DEF LockInbox, dataVars
  <1> HIDE DEF m, r, t
  <1> QED BY <1>1, <1>3, <1>5, <1>7, <1>8, <1>9, <1>10, <1>11, <1>12, StatementKeeps

\* What the history holds.
LEMMA HistoryFacts ==
    /\ Len(History) \in Nat /\ DOMAIN History = 1 .. Len(History)
    /\ \A i \in 1 .. Len(History) :
          History[i] \in Msgs /\ History[i].ver \in Nat \ {0} /\ History[i].id \in Ids
    /\ \A m \in Msgs : \E i \in 1 .. Len(History) : m = History[i]
    /\ \A i, j \in 1 .. Len(History) : i < j => History[i].ver < History[j].ver
  <1>1. Len(History) \in Nat /\ DOMAIN History = 1 .. Len(History)
    BY SMT, HistoryAssumption
  <1>2. \A i \in 1 .. Len(History) : History[i] \in Msgs
    BY SMT, <1>1, HistoryAssumption
  <1>3. \A m \in Msgs : \E i \in 1 .. Len(History) : m = History[i]
    BY <1>1, HistoryAssumption DEF Retained
  <1>4. \A i, j \in 1 .. Len(History) : i < j => History[i].ver < History[j].ver
    BY <1>1, HistoryAssumption
  <1>5. \A m \in Msgs : m.ver \in Nat \ {0} /\ m.id \in Ids
    BY MsgsAssumption DEF Ids
  <1> QED BY <1>1, <1>2, <1>3, <1>4, <1>5

\* A gap that the operator meets, when every earlier record is settled, is one
\* for ever: the replay is in the order of the versions.
LEMMA GapIsMissing ==
    ASSUME Inv, NoLiveReset, control.status = "complete",
           tx[Operator].pc = "lockProjection", ~tx[Operator].redriving,
           tx[Operator].msg.ver > proj.ver + 1
    PROVE  Missing(tx[Operator].msg)
  <1> DEFINE m == tx[Operator].msg
             k == control.idx
             v == proj.ver + 1
  <1>1. /\ k \in 0 .. Len(History) /\ k > 0 /\ m = History[k]
        /\ \A i \in 1 .. k - 1 : SettledAt(i)
    BY DEF Inv, TypeOK, Controls, ControlInv, QuietInv, ReplayInv, RecordFits
  <1>2. v \in Nat \ {0} /\ m.ver \in Nat /\ k \in 1 .. Len(History)
    BY SMT, <1>1, HistoryFacts DEF Inv, TypeOK, View
  <1>3. v \in 1 .. m.ver - 1
    BY <1>2
  <1>4. SUFFICES ASSUME NEW n \in Msgs, n.ver = v
                 PROVE  Missing(m)
    BY <1>3 DEF Missing
  <1>5. PICK j \in 1 .. Len(History) : n = History[j]
    BY HistoryFacts
  <1>6. History[j].ver < History[k].ver
    BY <1>1, <1>2, <1>3, <1>4, <1>5
  <1>7. j < k
    <2>1. j = k \/ j < k \/ k < j
      BY <1>2
    <2>2. ~(k < j)
      BY SMT, Z3, <1>2, <1>6, HistoryFacts
    <2> QED BY SMT, <2>1, <2>2, <1>6, <1>2, HistoryFacts
  <1>8. SettledAt(j)
    BY <1>1, <1>2, <1>7
  <1>9. Missing(n)
    BY SMT, <1>2, <1>4, <1>5, <1>8 DEF SettledAt, Settled, Inv, TypeOK, View
  <1>10. n.ver \in Nat /\ n.ver < m.ver
    BY <1>1, <1>2, <1>5, <1>6, HistoryFacts
  <1> HIDE DEF m
  <1> QED BY SMT, <1>2, <1>9, <1>10 DEF Missing

\* applyProjection: SELECT ... FROM platform.inventory_projection FOR UPDATE.
LEMMA LockProjectionKeeps ==
    ASSUME Inv, NEW p \in Procs, LockProjection(p)
    PROVE  Inv'
  <1> DEFINE m == tx[p].msg
             d == ApplyProjection(proj, m)
             t == tx'[p]
  <1>1. /\ tx[p] \in Txs /\ TxFits(tx[p]) /\ tx[p].pc = "lockProjection" /\ m \in Msgs
        /\ proj \in View /\ ViewFits(proj)
    BY OneTx DEF LockProjection
  <1>2. t = [tx[p] EXCEPT !.pc = IF proj = NoView /\ d = Applied THEN "insertProjection"
                                 ELSE "upsertInbox",
                          !.disp = d]
    BY <1>1 DEF LockProjection, Inv, TypeOK
  <1>3. tx' = [tx EXCEPT ![p] = t]
    BY DEF LockProjection, Inv, TypeOK
  <1>4. /\ t.msg = m /\ t.new = NoRow /\ t.redriving = tx[p].redriving /\ t.res = tx[p].res
        /\ t.disp = d
        /\ t.pc = IF proj = NoView /\ d = Applied THEN "insertProjection" ELSE "upsertInbox"
    BY <1>1, <1>2 DEF Txs, TxFits
  <1>5. /\ d \in {Applied, Gap, Stale, Transition}
        /\ d \in {Applied, Transition} => m.ver = proj.ver + 1
        /\ d = Stale => m.ver <= proj.ver
        /\ d = Gap => m.ver > proj.ver + 1
    BY <1>1, Decision
  <1> HIDE DEF d, t
  <1>6. t \in Txs
    BY ZenonT(60), <1>1, <1>2, <1>4, <1>5 DEF Txs, Pcs, Dispositions
  <1>7. d # Gap => ~Missing(m)
    <2>1. d # Gap => m.ver <= proj.ver + 1
      BY SMT, <1>1, <1>5, MsgsAssumption DEF View
    <2> QED BY <1>1, <2>1, NotMissing
  <1>8. proj = NoView /\ d = Applied => m.ver = 1
    BY <1>5 DEF NoView
  <1>9. TxFits(t)
    BY <1>1, <1>4, <1>5, <1>7, <1>8 DEF TxFits, Decided
  <1>10. HoldsView(t, p, proj, viewLock')
    BY <1>4, <1>5 DEF HoldsView, LockProjection
  <1>11. LocksKept(p)
    BY <1>1 DEF LockProjection, LocksKept, FreeFor, Inv, TypeOK
  <1>12. t.disp # DuplicateNoop
    BY <1>4, <1>5
  <1>13. p = Operator /\ NoLiveReset /\ control.status = "complete" => RecordFits(t, control.idx)
    <2>1. SUFFICES ASSUME p = Operator, NoLiveReset, control.status = "complete"
                   PROVE  RecordFits(t, control.idx)
      OBVIOUS
    <2>2. RecordFits(tx[p], control.idx)
      BY <2>1, <1>1, OneTx
    <2>3. ~tx[p].redriving /\ d = Gap => Missing(m)
      BY <2>1, <1>1, <1>5, GapIsMissing
    <2> QED BY <2>2, <2>3, <1>1, <1>4 DEF RecordFits, Decided
  <1>14. UNCHANGED <<inbox, proj, control, doomed>>
    BY DEF LockProjection, dataVars
  <1> HIDE DEF m
  <1> QED BY <1>1, <1>3, <1>6, <1>9, <1>10, <1>11, <1>12, <1>13, <1>14, StatementKeeps

\* A transaction that ends releases its own locks only.
LEMMA ReleaseKeepsLocks ==
    ASSUME TypeOK, NEW p \in Procs, ReleaseLocks(p)
    PROVE  LocksKept(p)
  BY DEF ReleaseLocks, Released, LocksKept, TypeOK

\* A transaction that fails leaves no trace but the error.
LEMMA AbortKeeps ==
    ASSUME Inv, NEW p \in Procs, tx[p].pc # "idle", Abort(p)
    PROVE  Inv'
  <1> DEFINE t == [NoTx EXCEPT !.res = "failed"]
  <1>1. /\ t.pc = "idle" /\ t.msg = NoMsg /\ t.redriving = FALSE /\ t.disp = "none"
        /\ t.new = NoRow /\ t.res = "failed"
    BY DEF NoTx
  <1>2. t \in Txs
    BY DEF NoTx, Txs, Pcs, Rows, NoRow
  <1>3. tx' = [tx EXCEPT ![p] = t] /\ UNCHANGED <<inbox, proj, control, doomed>>
    BY DEF Abort, dataVars
  <1> HIDE DEF t
  <1>4. TxFits(t) /\ HoldsView(t, p, proj, viewLock') /\ ~Decided(t)
    BY <1>1 DEF TxFits, HoldsView, Decided
  <1>5. RecordFits(t, control.idx)
    BY <1>1, <1>4 DEF RecordFits
  <1>6. LocksKept(p)
    BY ReleaseKeepsLocks DEF Abort, Inv
  <1> QED BY <1>2, <1>3, <1>4, <1>5, <1>6, StatementKeeps

\* INSERT INTO platform.inventory_projection.
LEMMA InsertProjectionKeeps ==
    ASSUME Inv, NEW p \in Procs, InsertProjection(p)
    PROVE  Inv'
  <1> DEFINE t == [tx[p] EXCEPT !.pc = "upsertInbox"]
  <1>1. /\ tx[p] \in Txs /\ TxFits(tx[p]) /\ tx[p].pc = "insertProjection"
        /\ proj = NoView /\ viewLock' = p
    BY OneTx DEF InsertProjection
  <1>2. /\ t.pc = "upsertInbox" /\ t.msg = tx[p].msg /\ t.redriving = tx[p].redriving
        /\ t.disp = tx[p].disp /\ t.new = tx[p].new /\ t.res = tx[p].res /\ t \in Txs
    BY <1>1 DEF Txs, Pcs
  <1>3. tx' = [tx EXCEPT ![p] = t] /\ UNCHANGED <<inbox, proj, control, doomed>>
    BY DEF InsertProjection, dataVars, Inv, TypeOK
  <1> HIDE DEF t
  <1>4. TxFits(t) /\ t.disp = Applied /\ t.msg.ver = 1
    BY <1>1, <1>2 DEF TxFits, Decided
  <1>5. HoldsView(t, p, proj, viewLock')
    BY <1>1, <1>4 DEF HoldsView, NoView
  <1>6. p = Operator /\ NoLiveReset /\ control.status = "complete" => RecordFits(t, control.idx)
    BY <1>1, <1>2, <1>4, OneTx DEF RecordFits, Decided
  <1>7. LocksKept(p)
    BY DEF InsertProjection, LocksKept, FreeFor, Inv, TypeOK
  <1> QED BY <1>1, <1>2, <1>3, <1>4, <1>5, <1>6, <1>7, StatementKeeps

\* upsertInbox, which waits for the row.
LEMMA WriteInboxKeeps ==
    ASSUME Inv, NEW p \in Procs, WriteInbox(p)
    PROVE  Inv'
  <1> DEFINE m == tx[p].msg
             r == UpsertInbox(inbox[m.id], m, tx[p].disp)
             t == [tx[p] EXCEPT !.pc = "commit", !.new = r]
  <1>1. /\ tx[p] \in Txs /\ TxFits(tx[p]) /\ tx[p].pc = "upsertInbox"
        /\ m \in Msgs /\ m.id \in Ids /\ inbox[m.id] \in Rows
        /\ HoldsView(tx[p], p, proj, viewLock)
    BY OneTx DEF WriteInbox
  <1>2. Decided(tx[p]) /\ tx[p].disp \in {Applied, DuplicateNoop, Gap, Stale, Transition}
    BY <1>1 DEF TxFits, Decided
  <1>3. r \in Rows /\ r # NoRow /\ r.disp = tx[p].disp /\ r.hash = m
    <2>1. tx[p].disp \in Dispositions /\ tx[p].disp # Conflict
      BY <1>2 DEF Dispositions
    <2> QED BY SMT, <1>1, <2>1, Upserted
  <1> HIDE DEF r
  <1>4. /\ t.pc = "commit" /\ t.msg = m /\ t.redriving = tx[p].redriving
        /\ t.disp = tx[p].disp /\ t.new = r /\ t.res = tx[p].res /\ t \in Txs
    BY <1>1, <1>3 DEF Txs, Pcs
  <1>5. tx' = [tx EXCEPT ![p] = t] /\ UNCHANGED <<inbox, proj, control, doomed>>
    BY DEF WriteInbox, dataVars, Inv, TypeOK, r
  <1> HIDE DEF t
  <1>6. TxFits(t) /\ Decided(t)
    BY <1>1, <1>2, <1>3, <1>4 DEF TxFits, Decided
  <1>7. HoldsView(t, p, proj, viewLock')
    BY <1>1, <1>4 DEF HoldsView, WriteInbox
  <1>8. NoLiveReset /\ t.disp = DuplicateNoop => proj.ver >= t.msg.ver
    BY <1>2, <1>4 DEF Inv, QuietInv, DuplicateInv
  <1>9. p = Operator /\ NoLiveReset /\ control.status = "complete" => RecordFits(t, control.idx)
    BY <1>1, <1>2, <1>4, OneTx DEF RecordFits
  <1>10. LocksKept(p)
    BY <1>1 DEF WriteInbox, LocksKept, FreeFor, Inv, TypeOK
  <1> HIDE DEF m
  <1> QED BY <1>1, <1>4, <1>5, <1>6, <1>7, <1>8, <1>9, <1>10, StatementKeeps

\* The transaction with which ProcessRecord, or a round of redriveGaps, begins.
LEMMA Begun ==
    ASSUME Inv, NEW p \in Procs, NEW m \in Msgs, NEW redriving \in BOOLEAN,
           redriving => tx[p].res # "none", tx' = Begin(p, m, redriving)
    PROVE  /\ tx' = [tx EXCEPT ![p] = tx'[p]]
           /\ tx'[p] \in Txs /\ TxFits(tx'[p]) /\ ~Decided(tx'[p])
           /\ \A v, h : HoldsView(tx'[p], p, v, h)
           /\ tx'[p].pc = "lockInbox" /\ tx'[p].msg = m
           /\ tx'[p].redriving = redriving
           /\ tx'[p].res = IF redriving THEN tx[p].res ELSE "none"
  <1> DEFINE x == IF redriving THEN tx[p].res ELSE "none"
             t == [NoTx EXCEPT !.pc = "lockInbox", !.msg = m, !.redriving = redriving,
                               !.res = x]
  <1>1. tx' = [tx EXCEPT ![p] = t] /\ tx'[p] = t
    BY DEF Begin, Inv, TypeOK
  <1>2. /\ t.pc = "lockInbox" /\ t.msg = m /\ t.redriving = redriving
        /\ t.disp = "none" /\ t.new = NoRow
        /\ t.res = x
    BY DEF NoTx
  <1>3. x \in Dispositions \cup {"none", "failed"} /\ (redriving => x # "none")
    BY OneTx DEF Txs
  <1> HIDE DEF x
  <1>4. t \in Txs
    BY <1>3 DEF NoTx, Txs, Pcs, Rows, NoRow
  <1> HIDE DEF t
  <1>5. TxFits(t) /\ ~Decided(t) /\ \A v, h : HoldsView(t, p, v, h)
    BY <1>2, <1>3 DEF TxFits, Decided, HoldsView
  <1> USE DEF x
  <1> QED BY <1>1, <1>2, <1>4, <1>5

\* redriveGaps.
LEMMA RedriveGapsKeeps ==
    ASSUME Inv, NEW p \in Procs, RedriveGaps(p)
    PROVE  Inv'
  <1>1. /\ tx[p] \in Txs /\ TxFits(tx[p]) /\ tx[p].pc = "redrive"
        /\ UNCHANGED <<inbox, proj, control, doomed>> /\ UNCHANGED <<rowLock, viewLock>>
    BY OneTx DEF RedriveGaps, dataVars, lockVars
  <1>2. LocksKept(p) /\ tx[p].res # "none" /\ tx[p].redriving = FALSE
    BY <1>1 DEF LocksKept, Inv, TypeOK, TxFits, Txs
  <1>3. p = Operator /\ NoLiveReset /\ control.status = "complete" => RecordFits(tx[p], control.idx)
    BY <1>1, OneTx
  <1>4. CASE \E m \in Msgs : tx' = Begin(p, m, TRUE)
    <2>1. PICK m \in Msgs : tx' = Begin(p, m, TRUE)
      BY <1>4
    <2>2. /\ tx' = [tx EXCEPT ![p] = tx'[p]]
          /\ tx'[p] \in Txs /\ TxFits(tx'[p]) /\ ~Decided(tx'[p])
          /\ HoldsView(tx'[p], p, proj, viewLock')
          /\ tx'[p].pc = "lockInbox" /\ tx'[p].redriving = TRUE /\ tx'[p].res = tx[p].res
      BY <2>1, <1>2, Begun
    <2>3. p = Operator /\ NoLiveReset /\ control.status = "complete" => RecordFits(tx'[p], control.idx)
      BY <2>2, <1>3 DEF RecordFits
    <2> QED BY <2>2, <2>3, <1>1, <1>2, StatementKeeps
  <1>5. CASE tx' = [tx EXCEPT ![p].pc = "idle"]
    <2> DEFINE t == [tx[p] EXCEPT !.pc = "idle"]
    <2>1. /\ t.pc = "idle" /\ t.msg = tx[p].msg /\ t.redriving = tx[p].redriving
          /\ t.disp = tx[p].disp /\ t.new = tx[p].new /\ t.res = tx[p].res /\ t \in Txs
      BY <1>1 DEF Txs, Pcs
    <2>2. tx' = [tx EXCEPT ![p] = t]
      BY <1>5 DEF Inv, TypeOK
    <2> HIDE DEF t
    <2>3. TxFits(t) /\ ~Decided(t) /\ HoldsView(t, p, proj, viewLock')
      BY <2>1, <1>1, <1>2 DEF TxFits, Decided, HoldsView
    <2>4. p = Operator /\ NoLiveReset /\ control.status = "complete" => RecordFits(t, control.idx)
      BY <2>1, <2>3, <1>2, <1>3 DEF RecordFits
    <2> QED BY <2>1, <2>2, <2>3, <2>4, <1>1, <1>2, StatementKeeps
  <1> QED BY <1>4, <1>5 DEF RedriveGaps

\* The consumer receives a record.
LEMMA DeliverKeeps ==
    ASSUME Inv, NEW m \in Msgs, Deliver(m)
    PROVE  Inv'
  <1>1. /\ Consumer \in Procs /\ Consumer # Operator
        /\ ~(control.quiesced /\ ControlRuns)
        /\ UNCHANGED <<inbox, proj, control, doomed>> /\ UNCHANGED <<rowLock, viewLock>>
        /\ tx' = Begin(Consumer, m, FALSE)
    BY HistoryAssumption DEF Deliver, dataVars, lockVars, Procs
  <1>2. LocksKept(Consumer)
    BY <1>1 DEF LocksKept, Inv, TypeOK
  <1>3. /\ tx' = [tx EXCEPT ![Consumer] = tx'[Consumer]]
        /\ tx'[Consumer] \in Txs /\ TxFits(tx'[Consumer]) /\ ~Decided(tx'[Consumer])
        /\ HoldsView(tx'[Consumer], Consumer, proj, viewLock')
    BY <1>1, Begun
  <1> QED BY <1>1, <1>2, <1>3, StatementKeeps

-----------------------------------------------------------------------------
(* The commit.                                                             *)

\* No event is later than the last of the history.
LEMMA LastIsLatest ==
    ASSUME NEW m \in Msgs
    PROVE  /\ Len(History) \in 1 .. Len(History)
           /\ m.ver <= History[Len(History)].ver
           /\ m.ver = History[Len(History)].ver => m = History[Len(History)]
  <1>1. PICK i \in 1 .. Len(History) : m = History[i]
    BY HistoryFacts
  <1>2. Len(History) \in 1 .. Len(History)
    BY SMT, HistoryFacts
  <1>3. i < Len(History) => History[i].ver < History[Len(History)].ver
    BY <1>2, HistoryFacts
  <1>4. m.ver \in Nat /\ History[Len(History)].ver \in Nat
    BY <1>1, <1>2, HistoryFacts
  <1>5. i < Len(History) \/ i = Len(History)
    BY <1>2
  <1> QED BY <1>1, <1>2, <1>3, <1>4, <1>5

\* What a commit does to the rows.
LEMMA CommitData ==
    ASSUME Inv, NEW p \in Procs, CommitEffects(p)
    PROVE  LET m == tx[p].msg
               d == tx[p].disp
           IN  /\ m \in Msgs /\ inbox' \in [Ids -> Rows] /\ proj' \in View
               /\ IF d = Applied
                  THEN viewLock = p /\ proj' = Projected(m) /\ proj'.ver = proj.ver + 1
                  ELSE proj' = proj
               /\ inbox'[m.id] = IF tx[p].new = NoRow THEN inbox[m.id] ELSE tx[p].new
               /\ \A x \in Msgs : x # m => inbox'[x.id] = inbox[x.id]
  <1> DEFINE m == tx[p].msg
             d == tx[p].disp
  <1>1. /\ tx[p] \in Txs /\ TxFits(tx[p]) /\ tx[p].pc = "commit" /\ m \in Msgs /\ m.id \in Ids
        /\ HoldsView(tx[p], p, proj, viewLock) /\ proj \in View
    BY OneTx DEF CommitEffects
  <1>2. inbox \in [Ids -> Rows] /\ tx[p].new \in Rows
    BY <1>1 DEF Inv, TypeOK, Txs
  <1>3. \A x \in Msgs : x # m => x.id # m.id /\ x.id \in Ids
    BY <1>1, HistoryAssumption DEF Ids
  <1>4. inbox' = IF tx[p].new = NoRow THEN inbox ELSE [inbox EXCEPT ![m.id] = tx[p].new]
    BY DEF CommitEffects
  <1>5. d = Applied => viewLock = p /\ m.ver = proj.ver + 1
    BY <1>1 DEF HoldsView
  <1>6. proj' = IF d = Applied THEN Projected(m) ELSE proj
    BY DEF CommitEffects
  <1>7. Projected(m) \in View /\ Projected(m).ver = m.ver
    BY <1>1, ProjectedView
  <1>8. /\ proj' \in View
        /\ IF d = Applied
           THEN viewLock = p /\ proj' = Projected(m) /\ proj'.ver = proj.ver + 1
           ELSE proj' = proj
    BY <1>1, <1>5, <1>6, <1>7
  <1>9. /\ inbox' \in [Ids -> Rows]
        /\ inbox'[m.id] = IF tx[p].new = NoRow THEN inbox[m.id] ELSE tx[p].new
        /\ \A x \in Msgs : x # m => inbox'[x.id] = inbox[x.id]
    BY <1>1, <1>2, <1>3, <1>4
  <1> QED BY <1>1, <1>8, <1>9

\* The projection only advances, and what is settled stays so.
LEMMA CommitAdvances ==
    ASSUME Inv, NEW p \in Procs, CommitEffects(p)
    PROVE  /\ proj.ver \in Nat /\ proj'.ver \in Nat /\ proj'.ver >= proj.ver
           /\ \A x \in Msgs : Settled(x, proj, inbox[x.id]) => Settled(x, proj', inbox'[x.id])
           /\ ViewFits(proj')
           /\ \A x \in Msgs : RowFits(inbox'[x.id], x)
  <1> DEFINE m == tx[p].msg
             d == tx[p].disp
             n == tx[p].new
  <1>1. /\ m \in Msgs /\ proj' \in View /\ proj \in View
        /\ d = Applied => proj' = Projected(m) /\ proj'.ver = proj.ver + 1
        /\ d # Applied => proj' = proj
        /\ inbox'[m.id] = IF n = NoRow THEN inbox[m.id] ELSE n
        /\ \A x \in Msgs : x # m => inbox'[x.id] = inbox[x.id]
    BY CommitData DEF Inv, TypeOK
  <1>2. TxFits(tx[p]) /\ tx[p].pc = "commit" /\ tx[p] \in Txs
    BY OneTx DEF CommitEffects
  <1>3. n # NoRow => /\ n.disp = d /\ n.hash = m
                     /\ d \in {Applied, DuplicateNoop, Gap, Stale, Transition}
                     /\ d # Gap => ~Missing(m)
    BY <1>2 DEF TxFits, Decided
  <1>4. ViewFits(proj) /\ \A x \in Msgs : RowFits(inbox[x.id], x)
    BY DEF Inv, TxInv
  <1> HIDE DEF m, d, n
  <1>5. proj.ver \in Nat /\ proj'.ver \in Nat /\ proj'.ver >= proj.ver
    BY SMT, <1>1 DEF View
  <1>6. \A x \in Msgs : Settled(x, proj, inbox[x.id]) => Settled(x, proj', inbox'[x.id])
    <2>1. SUFFICES ASSUME NEW x \in Msgs, Settled(x, proj, inbox[x.id])
                   PROVE  Settled(x, proj', inbox'[x.id])
      OBVIOUS
    <2>2. x.ver \in Nat
      BY MsgsAssumption
    <2>3. CASE proj.ver >= x.ver
      BY <2>2, <2>3, <1>5 DEF Settled
    <2>4. CASE inbox[x.id].disp = Gap /\ Missing(x)
      <3>1. inbox'[x.id].disp = Gap
        BY <2>4, <1>1, <1>3
      <3> QED BY <3>1, <2>4 DEF Settled
    <2> QED BY <2>1, <2>3, <2>4 DEF Settled
  <1>7. ViewFits(proj')
    <2>1. CASE d = Applied
      <3>1. proj'.ver = m.ver
        BY <2>1, <1>1, ProjectedView
      <3>2. \A w \in 1 .. proj'.ver : w \in 1 .. proj.ver \/ w = m.ver
        BY <2>1, <3>1, <1>1, <1>5
      <3> QED BY <2>1, <3>2, <1>1, <1>4 DEF ViewFits
    <2>2. CASE d # Applied
      BY <2>2, <1>1, <1>4
    <2> QED BY <2>1, <2>2
  <1>8. \A x \in Msgs : RowFits(inbox'[x.id], x)
    <2>1. n # NoRow => RowFits(n, m)
      BY <1>3 DEF RowFits
    <2> QED BY <2>1, <1>1, <1>4
  <1> QED BY <1>5, <1>6, <1>7, <1>8

\* A commit keeps the invariant, whatever ProcessRecord then does.
LEMMA CommitKeeps ==
    ASSUME Inv, NEW p \in Procs, NEW t \in Txs, CommitEffects(p),
           tx' = [tx EXCEPT ![p] = t], UNCHANGED <<control, doomed>>,
           TxFits(t), t.pc \in {"idle", "redrive"}, t.res # "none",
           t.res \in {Applied, DuplicateNoop, Gap} =>
               \/ tx[p].redriving /\ t.res = tx[p].res
               \/ ~tx[p].redriving /\ t.res = tx[p].disp
    PROVE  Inv'
  <1> DEFINE m == tx[p].msg
             d == tx[p].disp
             n == tx[p].new
  <1>1. /\ m \in Msgs /\ inbox' \in [Ids -> Rows] /\ proj' \in View
        /\ d = Applied => viewLock = p /\ proj' = Projected(m) /\ proj'.ver = proj.ver + 1
        /\ d # Applied => proj' = proj
        /\ inbox'[m.id] = IF n = NoRow THEN inbox[m.id] ELSE n
        /\ \A x \in Msgs : x # m => inbox'[x.id] = inbox[x.id]
    BY CommitData
  <1>2. /\ proj.ver \in Nat /\ proj'.ver \in Nat /\ proj'.ver >= proj.ver
        /\ \A x \in Msgs : Settled(x, proj, inbox[x.id]) => Settled(x, proj', inbox'[x.id])
        /\ ViewFits(proj')
        /\ \A x \in Msgs : RowFits(inbox'[x.id], x)
    BY CommitAdvances
  <1>3. /\ TxFits(tx[p]) /\ tx[p].pc = "commit" /\ tx[p] \in Txs /\ LocksKept(p)
    BY OneTx, ReleaseKeepsLocks DEF CommitEffects, Inv
  <1>4. /\ tx'[p] = t /\ tx' \in [Procs -> Txs]
        /\ \A q \in Procs \ {p} : tx'[q] = tx[q]
        /\ Procs = {Consumer, Operator} /\ Consumer # Operator
        /\ NoProc \notin Procs
    BY HistoryAssumption DEF Inv, TypeOK, Procs
  <1>5. n # NoRow => Decided(tx[p]) /\ n.disp = d
    BY <1>3 DEF TxFits, Decided
  <1>6. n = NoRow => d \in Terminal
    BY <1>3 DEF TxFits
  <1> HIDE DEF m, d, n
  <1>7. TypeOK'
    BY <1>1, <1>3, <1>4 DEF Inv, TypeOK, LocksKept
  <1>8. TxInv'
    <2>1. ASSUME NEW q \in Procs
          PROVE  TxFits(tx'[q]) /\ HoldsView(tx'[q], q, proj', viewLock')
      <3>1. CASE q = p
        BY <3>1, <1>4 DEF HoldsView
      <3>2. CASE q # p
        <4>1. TxFits(tx[q]) /\ HoldsView(tx[q], q, proj, viewLock) /\ tx'[q] = tx[q]
          BY <3>2, <1>4 DEF Inv, TxInv
        <4>2. viewLock = q => viewLock' = q /\ proj' = proj
          BY ZenonT(60), <3>2, <1>1, <1>3, <1>4 DEF LocksKept
        <4> QED BY <4>1, <4>2 DEF HoldsView
      <3> QED BY <3>1, <3>2
    <2> QED BY <2>1, <1>2 DEF TxInv
  <1>9. p = Operator => control.stage = "replay"
    BY <1>3 DEF Inv, ControlInv
  <1>10. p = Consumer => ~(control.quiesced /\ ControlRuns)
    BY <1>3 DEF Inv, ControlInv
  <1>11. ControlInv'
    <2>1. CASE p = Operator
      BY <2>1, <1>9, <1>4 DEF Inv, ControlInv, ControlRuns, Resetting
    <2>2. CASE p = Consumer
      BY <2>2, <1>10, <1>4 DEF Inv, ControlInv, ControlRuns, Resetting
    <2> QED BY <2>1, <2>2, <1>4
  <1>12. ASSUME NoLiveReset
         PROVE  /\ ResetInv' /\ DuplicateInv' /\ ReplayInv'
                /\ AppliedIsProjected' /\ ChecksumInv' /\ CompleteIsProof'
    <2>0. /\ ResetInv /\ DuplicateInv /\ ReplayInv
          /\ AppliedIsProjected /\ ChecksumInv /\ CompleteIsProof
      BY <1>12 DEF Inv, QuietInv
    <2>1. ResetInv'
      BY <1>4, <1>9, <1>10 DEF ResetInv, ControlRuns
    <2>2. DuplicateInv'
      <3>1. SUFFICES ASSUME NEW q \in Procs, Decided(tx'[q]), tx'[q].disp = DuplicateNoop
                     PROVE  proj'.ver >= tx'[q].msg.ver
        BY DEF DuplicateInv
      <3>2. q # p
        BY <3>1, <1>4 DEF Decided
      <3>3. proj.ver >= tx[q].msg.ver /\ tx'[q] = tx[q] /\ tx[q].msg \in Msgs
        BY <3>1, <3>2, <2>0, <1>4, OneTx DEF DuplicateInv, Decided
      <3> QED BY <3>3, <1>2, MsgsAssumption
    <2>3. AppliedIsProjected'
      <3>1. SUFFICES ASSUME NEW x \in Msgs, inbox'[x.id].disp \in {Applied, DuplicateNoop}
                     PROVE  proj'.ver >= x.ver
        BY DEF AppliedIsProjected
      <3>2. x.ver \in Nat
        BY MsgsAssumption
      <3>3. CASE inbox'[x.id] = inbox[x.id]
        BY SMT, <3>1, <3>2, <3>3, <2>0, <1>2, <1>12 DEF AppliedIsProjected
      <3>4. CASE x = m /\ n # NoRow
        <4>1. d \in {Applied, DuplicateNoop}
          BY <3>1, <3>4, <1>1, <1>5
        <4>2. d = DuplicateNoop => proj.ver >= m.ver
          BY <3>4, <2>0, <1>5 DEF DuplicateInv, m, d
        <4>3. d = Applied => proj'.ver = m.ver
          BY <1>1, ProjectedView
        <4> QED BY SMT, <4>1, <4>2, <4>3, <3>2, <3>4, <1>2
      <3> QED BY <3>3, <3>4, <1>1
    <2>4. ChecksumInv'
      <3>1. SUFFICES ASSUME control.stage = "checksum", control.status = "complete"
                     PROVE  History # <<>> /\ proj' = Projected(History[Len(History)])
        BY DEF ChecksumInv
      <3>2. History # <<>> /\ proj = Projected(History[Len(History)])
        BY <3>1, <2>0 DEF ChecksumInv
      <3>3. proj.ver = History[Len(History)].ver /\ m.ver <= History[Len(History)].ver
        BY <3>2, <1>1, LastIsLatest, HistoryFacts, ProjectedView
      <3>4. d = Applied => m.ver = proj.ver + 1
        BY <1>1, ProjectedView
      <3> QED BY <3>2, <3>3, <3>4, <1>1, <1>2
    <2>5. CompleteIsProof'
      BY <2>0 DEF CompleteIsProof
    <2>6. ReplayInv'
      <3>1. SUFFICES ASSUME control.stage = "replay", control.status = "complete"
                     PROVE  /\ \A i \in 1 .. control.idx - 1 : SettledAt(i)'
                            /\ RecordFits(tx[Operator], control.idx)'
        BY DEF ReplayInv
      <3>2. /\ control.idx \in 0 .. Len(History)
            /\ \A i \in 1 .. control.idx - 1 : SettledAt(i)
            /\ RecordFits(tx[Operator], control.idx)
        BY <3>1, <2>0 DEF ReplayInv, Inv, TypeOK, Controls
      <3>3. \A i \in 1 .. Len(History) : SettledAt(i) => SettledAt(i)'
        BY <1>2, HistoryFacts DEF SettledAt
      <3>4. \A i \in 1 .. control.idx - 1 : SettledAt(i)'
        BY SMT, <3>2, <3>3, HistoryFacts
      <3>5. control.idx > 0 /\ SettledAt(control.idx) => SettledAt(control.idx)'
        BY SMT, <3>2, <3>3, HistoryFacts
      <3>6. CASE p = Consumer
        BY <3>2, <3>4, <3>5, <3>6, <1>4 DEF RecordFits, SettledAt
      <3>7. CASE p = Operator
        <4>1. t.res \in {Applied, DuplicateNoop, Gap} => control.idx > 0 /\ SettledAt(control.idx)'
          <5>1. CASE tx[p].redriving
            BY <5>1, <3>2, <3>5, <3>7 DEF RecordFits
          <5>2. CASE ~tx[p].redriving
            <6>1. control.idx > 0 /\ m = History[control.idx]
              BY <5>2, <3>2, <3>7, <1>3 DEF RecordFits, m
            <6>2. SUFFICES ASSUME d \in {Applied, DuplicateNoop, Gap}
                           PROVE  Settled(m, proj', inbox'[m.id])
              BY <6>1, <5>2 DEF d, SettledAt
            <6>3. n # NoRow /\ Decided(tx[p])
              BY <6>2, <1>5, <1>6 DEF Terminal
            <6>4. d = Gap => Missing(m) /\ inbox'[m.id].disp = Gap
              BY <6>3, <5>2, <3>2, <3>7, <1>1, <1>5 DEF RecordFits, m, d
            <6>5. d = DuplicateNoop => proj.ver >= m.ver
              BY <6>3, <2>0 DEF DuplicateInv, m, d
            <6>6. d = Applied => proj'.ver = m.ver
              BY <1>1, ProjectedView
            <6>7. m.ver \in Nat
              BY <1>1, MsgsAssumption
            <6> QED BY <6>2, <6>4, <6>5, <6>6, <6>7, <1>2 DEF Settled
          <5> QED BY <5>1, <5>2
        <4>2. ~Decided(t) /\ tx'[Operator] = t
          BY <3>7, <1>4 DEF Decided
        <4> QED BY <4>1, <4>2, <3>4 DEF RecordFits, SettledAt
      <3> QED BY <3>6, <3>7, <1>4
    <2> QED BY <2>1, <2>2, <2>3, <2>4, <2>5, <2>6
  <1>13. QuietInv'
    BY <1>12 DEF QuietInv, NoLiveReset
  <1> QED BY <1>7, <1>8, <1>11, <1>13 DEF Inv

\* A transaction that has ended, and the answer x so far.
LEMMA Ended ==
    ASSUME NEW c \in {"idle", "redrive"}, NEW x \in Dispositions \cup {"failed"}, NEW t,
           \/ t = [NoTx EXCEPT !.pc = c, !.res = x]
           \/ c = "idle" /\ t = [NoTx EXCEPT !.res = x]
    PROVE  t \in Txs /\ TxFits(t) /\ t.pc = c /\ t.res = x /\ x # "none"
  <1>1. /\ t.pc = c /\ t.msg = NoMsg /\ t.redriving = FALSE /\ t.disp = "none"
        /\ t.new = NoRow /\ t.res = x
    BY DEF NoTx
  <1>2. t \in Txs
    <2>1. NoRow \in Rows
      BY DEF NoRow, Rows
    <2>2. NoTx \in Txs
      BY <2>1 DEF NoTx, Txs, Pcs
    <2>3. CASE t = [NoTx EXCEPT !.pc = c, !.res = x]
      BY <2>2, <2>3 DEF Txs, Pcs
    <2>4. CASE t = [NoTx EXCEPT !.res = x]
      BY <2>2, <2>4 DEF Txs
    <2> QED BY <2>3, <2>4
  <1>3. x # "none"
    BY DEF Dispositions
  <1>4. TxFits(t)
    BY <1>1, <1>3 DEF TxFits, Decided
  <1> QED BY <1>1, <1>2, <1>3, <1>4

\* ProcessRecord after a commit whose answer arrived, or was lost.
LEMMA CommitsKeep ==
    ASSUME Inv, NEW p \in Procs, Commit(p) \/ CommitAnswerLost(p)
    PROVE  Inv'
  <1>1. /\ CommitEffects(p) /\ tx[p] \in Txs /\ TxFits(tx[p]) /\ tx[p].pc = "commit"
        /\ UNCHANGED <<control, doomed>>
    BY OneTx DEF Commit, CommitAnswerLost, CommitEffects
  <1>2. tx[p].disp \in Dispositions
    BY <1>1 DEF TxFits, Decided, Terminal, Dispositions
  <1>3. CASE Commit(p)
    <2> DEFINE x == IF ~tx[p].redriving THEN tx[p].disp ELSE tx[p].res
               t == tx'[p]
    <2>1. x \in Dispositions \cup {"failed"}
      BY <1>1, <1>2 DEF TxFits, Txs
    <2>2. \E c \in {"idle", "redrive"} : tx' = [tx EXCEPT ![p] = [NoTx EXCEPT !.pc = c, !.res = x]]
      BY <1>3 DEF Commit
    <2>3. /\ tx' = [tx EXCEPT ![p] = t]
          /\ \E c \in {"idle", "redrive"} : t = [NoTx EXCEPT !.pc = c, !.res = x]
      BY <2>2 DEF Inv, TypeOK
    <2>4. \/ tx[p].redriving /\ x = tx[p].res
          \/ ~tx[p].redriving /\ x = tx[p].disp
      OBVIOUS
    <2> HIDE DEF x, t
    <2>5. t \in Txs /\ TxFits(t) /\ t.pc \in {"idle", "redrive"} /\ t.res = x /\ x # "none"
      BY ZenonT(60), <2>1, <2>3, Ended
    <2> QED BY <2>3, <2>4, <2>5, <1>1, CommitKeeps
  <1>4. CASE CommitAnswerLost(p)
    <2> DEFINE t == [NoTx EXCEPT !.res = "failed"]
    <2>1. tx' = [tx EXCEPT ![p] = t]
      BY <1>4 DEF CommitAnswerLost
    <2>2. t \in Txs /\ TxFits(t) /\ t.pc = "idle" /\ t.res = "failed"
      BY ZenonT(60), Ended
    <2> HIDE DEF t
    <2> QED BY <2>1, <2>2, <1>1, CommitKeeps
  <1> QED BY <1>3, <1>4

\* Any step of a transaction.
LEMMA ProcessRecordKeeps ==
    ASSUME Inv, NEW p \in Procs, ProcessRecord(p)
    PROVE  Inv'
  <1>1. CASE InsertProjectionFails(p) \/ StatementFails(p) \/ DeadlockVictim(p)
    BY <1>1, AbortKeeps DEF InsertProjectionFails, StatementFails, DeadlockVictim
  <1> QED BY <1>1, LockInboxKeeps, LockProjectionKeeps, InsertProjectionKeeps,
             WriteInboxKeeps, CommitsKeep, RedriveGapsKeeps DEF ProcessRecord

-----------------------------------------------------------------------------
(* The operator.                                                           *)

\* A step of the control that touches neither the rows nor a transaction keeps
\* what the transactions know, if it takes only locks that are free.
LEMMA ControlKeepsTx ==
    ASSUME Inv, UNCHANGED <<inbox, proj, tx>>,
           viewLock = Consumer => viewLock' = Consumer,
           viewLock = Operator /\ tx[Operator].pc # "idle" => viewLock' = Operator
    PROVE  TxInv'
  <1>1. ASSUME NEW q \in Procs
        PROVE  TxFits(tx[q]) /\ HoldsView(tx[q], q, proj, viewLock')
    BY HistoryAssumption DEF Inv, TxInv, HoldsView, Procs
  <1> QED BY <1>1 DEF Inv, TxInv

\* The invariant under a step of the control that only moves it on.
LEMMA ControlMoves ==
    ASSUME Inv, UNCHANGED <<inbox, proj, rowLock, viewLock, tx>>,
           control' \in Controls, doomed' \subseteq Ids,
           ControlInv', QuietInv'
    PROVE  Inv'
  <1>1. TypeOK'
    BY DEF Inv, TypeOK
  <1> QED BY <1>1, ControlKeepsTx DEF Inv

\* ReplayTenantHistory or RebuildTenantFromHistory begins.
LEMMA StartControlKeeps ==
    ASSUME Inv, NEW rebuild \in BOOLEAN, NEW quiesced \in BOOLEAN, StartControl(rebuild, quiesced)
    PROVE  Inv'
  <1> DEFINE s == IF rebuild THEN "deleteInbox" ELSE "replay"
  <1>1. /\ control.stage = "start" /\ control \in Controls
        /\ UNCHANGED <<inbox, proj, rowLock, viewLock, tx>>
        /\ control' = [control EXCEPT !.stage = s, !.rebuild = rebuild, !.quiesced = quiesced]
        /\ quiesced => tx[Consumer].pc = "idle"
    BY DEF StartControl, dataVars, lockVars, Inv, TypeOK
  <1>2. /\ control' \in Controls /\ control'.stage = s /\ control'.rebuild = rebuild
        /\ control'.quiesced = quiesced /\ control'.idx = control.idx
        /\ control'.status = control.status /\ control'.sum = control.sum
    BY <1>1 DEF Controls, Resetting
  <1>3. doomed' = IF rebuild THEN {i \in Ids : inbox[i] # NoRow} ELSE {}
    BY DEF StartControl
  <1>4. tx[Operator].pc = "idle" /\ control.idx = 0 /\ tx[Operator].res = "none" /\ ~control.rebuild
    BY <1>1 DEF Inv, ControlInv, Resetting
  <1>5. ControlInv'
    BY SMT, <1>1, <1>2, <1>4 DEF ControlInv, Resetting
  <1>6. AppliedIsProjected /\ DuplicateInv
    BY <1>4 DEF Inv, QuietInv, NoLiveReset
  <1>7. QuietInv'
    <2>1. ResetInv'
      BY SMT, <1>1, <1>2, <1>3 DEF ResetInv
    <2>2. AppliedIsProjected' /\ DuplicateInv'
      BY <1>1, <1>4, <1>6 DEF AppliedIsProjected, DuplicateInv, NoLiveReset
    <2>3. ReplayInv'
      BY SMT, <1>1, <1>2, <1>4 DEF ReplayInv, RecordFits, Decided
    <2>4. ChecksumInv' /\ CompleteIsProof'
      BY <1>2 DEF ChecksumInv, CompleteIsProof
    <2> QED BY <2>1, <2>2, <2>3, <2>4 DEF QuietInv
  <1> QED BY <1>1, <1>2, <1>3, <1>5, <1>7, ControlMoves

\* DELETE FROM platform.inbox takes one of its rows.
LEMMA DeleteInboxRowKeeps ==
    ASSUME Inv, NEW i \in Ids, DeleteInboxRow(i)
    PROVE  Inv'
  <1>1. /\ control.stage = "deleteInbox" /\ UNCHANGED <<inbox, proj, viewLock, tx, control>>
        /\ rowLock' = [rowLock EXCEPT ![i] = Operator] /\ doomed' = doomed \ {i}
        /\ Operator \in Procs
    BY DEF DeleteInboxRow, dataVars, Procs
  <1>2. TypeOK'
    BY <1>1 DEF Inv, TypeOK
  <1>3. TxInv'
    BY <1>1, ControlKeepsTx
  <1>4. ControlInv'
    BY <1>1 DEF Inv, ControlInv, ControlRuns
  <1>5. ASSUME NoLiveReset
        PROVE  /\ ResetInv' /\ DuplicateInv' /\ ReplayInv'
               /\ AppliedIsProjected' /\ ChecksumInv' /\ CompleteIsProof'
    <2>1. /\ ResetInv /\ DuplicateInv /\ AppliedIsProjected
      BY <1>5 DEF Inv, QuietInv
    <2>2. ResetInv'
      BY <2>1, <1>1 DEF ResetInv, Inv, TypeOK
    <2>3. DuplicateInv' /\ AppliedIsProjected'
      BY <2>1, <1>1, <1>5 DEF DuplicateInv, AppliedIsProjected, NoLiveReset
    <2>4. ReplayInv' /\ ChecksumInv' /\ CompleteIsProof'
      BY <1>1 DEF ReplayInv, ChecksumInv, CompleteIsProof
    <2> QED BY <2>2, <2>3, <2>4
  <1>6. QuietInv'
    BY <1>1, <1>5 DEF QuietInv, NoLiveReset
  <1> QED BY <1>2, <1>3, <1>4, <1>6 DEF Inv

\* A stage that follows another.
LEMMA Entered ==
    ASSUME control \in Controls, NEW s \in Resetting \cup {"replay"}, Enter(s)
    PROVE  /\ control' \in Controls /\ control'.stage = s /\ control'.rebuild = control.rebuild
           /\ control'.quiesced = control.quiesced /\ control'.idx = control.idx
           /\ control'.status = control.status /\ control'.sum = control.sum
  BY DEF Enter, Controls

\* The DELETEs on the inbox and on the projection end.
LEMMA DeletesKeep ==
    ASSUME Inv, InboxDeleted \/ DeleteProjection
    PROVE  Inv'
  <1>0. control \in Controls /\ Operator \in Procs /\ Consumer # Operator /\ NoProc # Consumer
    BY HistoryAssumption DEF Inv, TypeOK, Procs
  <1>1. /\ UNCHANGED <<inbox, proj, rowLock, tx, doomed>>
        /\ control.stage \in {"deleteInbox", "deleteProjection"}
        /\ control'.stage \in {"deleteProjection", "commitReset"}
        /\ control' \in Controls /\ control'.rebuild = control.rebuild
        /\ control'.quiesced = control.quiesced /\ control'.idx = control.idx
    BY <1>0, Entered DEF InboxDeleted, DeleteProjection, dataVars, lockVars, Resetting
  <1>2. /\ viewLock' \in Procs \cup {NoProc}
        /\ viewLock = Consumer => viewLock' = Consumer
        /\ viewLock = Operator => viewLock' = Operator
    BY <1>0 DEF InboxDeleted, DeleteProjection, lockVars, FreeFor, Inv, TypeOK
  <1>3. TypeOK'
    BY <1>1, <1>2 DEF Inv, TypeOK
  <1>4. TxInv'
    BY <1>1, <1>2, ControlKeepsTx
  <1>5. ControlInv'
    BY <1>1 DEF Inv, ControlInv, ControlRuns, Resetting
  <1>6. ASSUME NoLiveReset
        PROVE  /\ ResetInv' /\ DuplicateInv' /\ ReplayInv'
               /\ AppliedIsProjected' /\ ChecksumInv' /\ CompleteIsProof'
    <2>1. /\ ResetInv /\ DuplicateInv /\ AppliedIsProjected
      BY <1>6 DEF Inv, QuietInv
    <2>2. ResetInv'
      <3>1. CASE InboxDeleted
        <4>1. control'.stage = "deleteProjection" /\ control.stage = "deleteInbox" /\ doomed = {}
          BY <3>1, <1>0, Entered DEF InboxDeleted, Resetting
        <4> QED BY <4>1, <2>1, <1>1 DEF ResetInv
      <3>2. CASE DeleteProjection
        <4>1. control.stage = "deleteProjection" /\ (proj = NoView \/ viewLock' = Operator)
          BY <3>2 DEF DeleteProjection
        <4> QED BY <4>1, <2>1, <1>1 DEF ResetInv
      <3> QED BY <3>1, <3>2
    <2>3. DuplicateInv' /\ AppliedIsProjected'
      BY <2>1, <1>1, <1>6 DEF DuplicateInv, AppliedIsProjected, NoLiveReset
    <2>4. ReplayInv' /\ ChecksumInv' /\ CompleteIsProof'
      BY <1>1 DEF ReplayInv, ChecksumInv, CompleteIsProof
    <2> QED BY <2>2, <2>3, <2>4
  <1>7. QuietInv'
    BY <1>1, <1>6 DEF QuietInv, NoLiveReset
  <1> QED BY <1>3, <1>4, <1>5, <1>7 DEF Inv

\* The reset commits: with the consumer stopped, nothing is left.
LEMMA CommitResetKeeps ==
    ASSUME Inv, CommitReset
    PROVE  Inv'
  <1>0. /\ control \in Controls /\ Operator \in Procs /\ Consumer # Operator
        /\ Procs = {Consumer, Operator} /\ control.stage = "commitReset" /\ TypeOK
    BY HistoryAssumption DEF Inv, TypeOK, Procs, CommitReset
  <1>1. /\ UNCHANGED <<tx, doomed>> /\ LocksKept(Operator)
        /\ control' \in Controls /\ control'.stage = "replay" /\ control'.rebuild = control.rebuild
        /\ control'.quiesced = control.quiesced /\ control'.idx = control.idx
    BY <1>0, Entered, ReleaseKeepsLocks DEF CommitReset, Resetting
  <1>2. tx[Operator].pc = "idle" /\ tx[Operator].res = "none" /\ control.idx = 0 /\ control.rebuild
    BY <1>0 DEF Inv, ControlInv, Resetting
  <1>3. /\ inbox' = [i \in Ids |-> IF rowLock[i] = Operator THEN NoRow ELSE inbox[i]]
        /\ proj' = IF viewLock = Operator THEN NoView ELSE proj
    BY DEF CommitReset
  <1>4. TypeOK'
    <2>1. NoRow \in Rows /\ NoView \in View
      BY DEF NoRow, Rows, NoView, View
    <2> QED BY <2>1, <1>0, <1>1, <1>3 DEF TypeOK, LocksKept
  <1>5. TxInv'
    <2>1. TxFits(tx[Consumer]) /\ HoldsView(tx[Consumer], Consumer, proj', viewLock')
      <3>1. TxFits(tx[Consumer]) /\ HoldsView(tx[Consumer], Consumer, proj, viewLock)
        BY <1>0 DEF Inv, TxInv
      <3>2. viewLock = Consumer => viewLock' = Consumer /\ proj' = proj
        BY <1>0, <1>3, HistoryAssumption DEF CommitReset, ReleaseLocks
      <3> QED BY <3>1, <3>2 DEF HoldsView
    <2>2. TxFits(tx[Operator]) /\ HoldsView(tx[Operator], Operator, proj', viewLock')
      BY <1>0, <1>2 DEF Inv, TxInv, HoldsView
    <2>3. \A m \in Msgs : RowFits(inbox'[m.id], m)
      <3>1. ASSUME NEW m \in Msgs
            PROVE  RowFits(inbox'[m.id], m)
        <4>1. m.id \in Ids /\ RowFits(inbox[m.id], m)
          BY DEF Ids, Inv, TxInv
        <4>2. inbox'[m.id] = NoRow \/ inbox'[m.id] = inbox[m.id]
          BY <4>1, <1>3
        <4>3. RowFits(NoRow, m)
          BY DEF RowFits, NoRow
        <4> QED BY <4>1, <4>2, <4>3
      <3> QED BY <3>1
    <2>4. ViewFits(proj')
      <3>1. ViewFits(proj)
        BY DEF Inv, TxInv
      <3>2. ViewFits(NoView)
        BY DEF ViewFits, NoView
      <3> QED BY <3>1, <3>2, <1>3
    <2> QED BY <2>1, <2>2, <2>3, <2>4, <1>0, <1>1 DEF TxInv
  <1>6. ControlInv'
    BY <1>0, <1>1, <1>2 DEF Inv, ControlInv, ControlRuns, Resetting
  <1>7. ASSUME NoLiveReset
        PROVE  /\ ResetInv' /\ DuplicateInv' /\ ReplayInv'
               /\ AppliedIsProjected' /\ ChecksumInv' /\ CompleteIsProof'
    <2>1. ResetInv /\ control.quiesced
      BY <1>2, <1>7 DEF Inv, QuietInv, NoLiveReset
    <2>2. tx[Consumer].pc = "idle"
      BY <2>1, <1>0 DEF Inv, ControlInv, ControlRuns
    <2>3. \A i \in Ids : inbox'[i] = NoRow
      BY <2>1, <1>0, <1>3 DEF ResetInv
    <2>4. AppliedIsProjected'
      BY <2>3 DEF AppliedIsProjected, Ids, NoRow
    <2>5. DuplicateInv'
      BY <2>2, <1>0, <1>1, <1>2 DEF DuplicateInv, Decided
    <2>6. ResetInv' /\ ChecksumInv' /\ CompleteIsProof'
      BY <1>1 DEF ResetInv, ChecksumInv, CompleteIsProof
    <2>7. ReplayInv'
      BY <1>1, <1>2 DEF ReplayInv, RecordFits, Decided
    <2> QED BY <2>4, <2>5, <2>6, <2>7
  <1>8. QuietInv'
    BY <1>1, <1>7 DEF QuietInv, NoLiveReset
  <1> QED BY <1>4, <1>5, <1>6, <1>8 DEF Inv

\* A control that has ended without a proof.
LEMMA StopsKeep ==
    ASSUME Inv, UNCHANGED <<inbox, proj, tx>>, LocksKept(Operator),
           tx[Operator].pc = "idle", doomed' \subseteq Ids,
           control' = [control EXCEPT !.stage = "done", !.status = "incomplete"]
    PROVE  Inv'
  <1>0. Consumer # Operator /\ NoProc # Consumer
    BY HistoryAssumption DEF Procs
  <1>1. /\ control' \in Controls /\ control'.stage = "done" /\ control'.status = "incomplete"
        /\ control'.rebuild = control.rebuild /\ control'.quiesced = control.quiesced
    BY DEF Inv, TypeOK, Controls
  <1>2. TypeOK'
    BY <1>1 DEF Inv, TypeOK, LocksKept
  <1>3. TxInv'
    BY <1>0, ControlKeepsTx DEF LocksKept
  <1>4. ControlInv'
    BY <1>1 DEF ControlInv, ControlRuns, Resetting
  <1>5. ASSUME NoLiveReset
        PROVE  /\ ResetInv' /\ DuplicateInv' /\ ReplayInv'
               /\ AppliedIsProjected' /\ ChecksumInv' /\ CompleteIsProof'
    <2>1. DuplicateInv /\ AppliedIsProjected
      BY <1>5 DEF Inv, QuietInv
    <2>2. DuplicateInv' /\ AppliedIsProjected'
      BY <2>1, <1>5 DEF DuplicateInv, AppliedIsProjected
    <2>3. ResetInv' /\ ReplayInv' /\ ChecksumInv' /\ CompleteIsProof'
      BY <1>1 DEF ResetInv, ReplayInv, ChecksumInv, CompleteIsProof
    <2> QED BY <2>2, <2>3
  <1>6. QuietInv'
    BY <1>1, <1>5 DEF QuietInv, NoLiveReset
  <1> QED BY <1>2, <1>3, <1>4, <1>6 DEF Inv

\* The reset fails, or the replay meets an error.
LEMMA FailuresKeep ==
    ASSUME Inv, ResetFails \/ ReplayStops
    PROVE  Inv'
  <1>1. CASE ResetFails
    <2>1. LocksKept(Operator)
      BY <1>1, ReleaseKeepsLocks DEF ResetFails, Inv, Procs
    <2>2. tx[Operator].pc = "idle"
      BY <1>1 DEF ResetFails, Inv, ControlInv
    <2> QED BY <1>1, <2>1, <2>2, StopsKeep DEF ResetFails, dataVars
  <1>2. CASE ReplayStops
    <2>1. LocksKept(Operator)
      BY <1>2 DEF ReplayStops, lockVars, LocksKept, Inv, TypeOK
    <2> QED BY <1>2, <2>1, StopsKeep DEF ReplayStops, dataVars, lockVars, Inv, TypeOK
  <1> QED BY <1>1, <1>2

\* The records behind the operator are settled when none has failed the control.
LEMMA RecordsSettled ==
    ASSUME Inv, NoLiveReset, control.stage = "replay", tx[Operator].pc = "idle",
           tx[Operator].res # "failed", StatusSoFar = "complete"
    PROVE  \A i \in 1 .. control.idx : SettledAt(i)
  <1>1. /\ control.status = "complete" /\ tx[Operator].res \notin Terminal
        /\ control.idx \in 0 .. Len(History) /\ Operator \in Procs
    BY DEF StatusSoFar, Inv, TypeOK, Controls, Procs
  <1>2. /\ \A i \in 1 .. control.idx - 1 : SettledAt(i)
        /\ RecordFits(tx[Operator], control.idx)
    BY <1>1 DEF Inv, QuietInv, ReplayInv
  <1>3. tx[Operator].res \in Dispositions \cup {"none", "failed"} /\ tx[Operator].res # Mismatch
    BY <1>1 DEF Inv, TypeOK, Txs, Terminal
  <1>4. control.idx > 0 => tx[Operator].res \in {Applied, DuplicateNoop, Gap}
    BY <1>1, <1>2, <1>3 DEF RecordFits, Terminal, Dispositions
  <1>5. control.idx > 0 => SettledAt(control.idx)
    BY <1>2, <1>4 DEF RecordFits
  <1> QED BY SMT, <1>1, <1>2, <1>5, HistoryFacts

\* replayTenantRecords goes on to the next record.
LEMMA ReplayRecordKeeps ==
    ASSUME Inv, ReplayRecord
    PROVE  Inv'
  <1> DEFINE k == control.idx + 1
             m == History[k]
             t == tx'[Operator]
  <1>0. /\ Operator \in Procs /\ Consumer \in Procs /\ Consumer # Operator
        /\ Procs = {Consumer, Operator}
    BY HistoryAssumption DEF Procs
  <1>1. /\ control.stage = "replay" /\ tx[Operator].pc = "idle" /\ tx[Operator].res # "failed"
        /\ control.idx \in 0 .. Len(History) /\ control.idx < Len(History)
        /\ tx' = Begin(Operator, m, FALSE)
        /\ UNCHANGED <<inbox, proj, rowLock, viewLock, doomed>>
        /\ control' = [control EXCEPT !.idx = k, !.status = StatusSoFar]
    BY DEF ReplayRecord, dataVars, lockVars, Inv, TypeOK, Controls
  <1>2. k \in 1 .. Len(History) /\ m \in Msgs
    BY SMT, <1>1, HistoryFacts
  <1>3. /\ control' \in Controls /\ control'.stage = "replay" /\ control'.rebuild = control.rebuild
        /\ control'.quiesced = control.quiesced /\ control'.idx = k
        /\ control'.status = StatusSoFar
    <2>1. control \in Controls /\ StatusSoFar \in {"complete", "incomplete"}
      BY DEF Inv, TypeOK, Controls, StatusSoFar
    <2>2. k \in 0 .. Len(History)
      BY <1>2
    <2> HIDE DEF k
    <2> QED BY <2>1, <2>2, <1>1 DEF Controls
  <1>4. /\ tx' = [tx EXCEPT ![Operator] = t]
        /\ t \in Txs /\ TxFits(t) /\ ~Decided(t)
        /\ \A v, h : HoldsView(t, Operator, v, h)
        /\ t.pc = "lockInbox" /\ t.msg = m /\ t.res = "none"
    BY <1>0, <1>1, <1>2, Begun
  <1>5. tx'[Consumer] = tx[Consumer] /\ tx' \in [Procs -> Txs]
    BY <1>0, <1>4 DEF Inv, TypeOK
  <1> HIDE DEF m, t, k
  <1>6. TypeOK'
    BY <1>1, <1>3, <1>5 DEF Inv, TypeOK
  <1>7. TxInv'
    <2>1. TxFits(tx[Consumer]) /\ HoldsView(tx[Consumer], Consumer, proj, viewLock)
      BY <1>0 DEF Inv, TxInv
    <2>2. \A q \in Procs : TxFits(tx'[q]) /\ HoldsView(tx'[q], q, proj, viewLock)
      BY SMT, <2>1, <1>0, <1>4, <1>5 DEF t
    <2> QED BY <2>2, <1>1 DEF Inv, TxInv
  <1>8. ControlInv'
    BY <1>1, <1>3, <1>5 DEF Inv, ControlInv, ControlRuns, Resetting
  <1>9. ASSUME NoLiveReset
        PROVE  /\ ResetInv' /\ DuplicateInv' /\ ReplayInv'
               /\ AppliedIsProjected' /\ ChecksumInv' /\ CompleteIsProof'
    <2>1. DuplicateInv /\ AppliedIsProjected
      BY <1>9 DEF Inv, QuietInv
    <2>2. DuplicateInv'
      <3>1. \A q \in Procs : Decided(tx'[q]) /\ tx'[q].disp = DuplicateNoop => proj.ver >= tx'[q].msg.ver
        BY <2>1, <1>0, <1>4, <1>5 DEF DuplicateInv, t
      <3> QED BY <3>1, <1>1 DEF DuplicateInv
    <2>3. AppliedIsProjected'
      BY <2>1, <1>1, <1>9 DEF AppliedIsProjected
    <2>4. ResetInv' /\ ChecksumInv' /\ CompleteIsProof'
      BY <1>3 DEF ResetInv, ChecksumInv, CompleteIsProof
    <2>5. ReplayInv'
      <3>1. SUFFICES ASSUME StatusSoFar = "complete"
                     PROVE  /\ \A i \in 1 .. k - 1 : SettledAt(i)'
                            /\ RecordFits(tx[Operator], control.idx)'
        BY <1>3 DEF ReplayInv
      <3>2. \A i \in 1 .. control.idx : SettledAt(i)
        BY <3>1, <1>1, <1>9, RecordsSettled
      <3>3. \A i \in 1 .. k - 1 : SettledAt(i)'
        BY <3>2, <1>1 DEF k, SettledAt
      <3>4. k > 0
        BY <1>2
      <3>5. RecordFits(tx[Operator], control.idx)'
        BY <3>4, <1>3, <1>4 DEF RecordFits, m, t
      <3> QED BY <3>3, <3>5
    <2> QED BY <2>2, <2>3, <2>4, <2>5
  <1>10. QuietInv'
    BY <1>3, <1>9 DEF QuietInv, NoLiveReset
  <1> QED BY <1>6, <1>7, <1>8, <1>10 DEF Inv

\* When every record is settled and no gap is left, the projection is that of
\* the last.
LEMMA NoGapIsWhole ==
    ASSUME Inv, History # <<>>, \A i \in Ids : inbox[i].disp # Gap,
           \A i \in 1 .. Len(History) : SettledAt(i)
    PROVE  proj = Projected(History[Len(History)])
  <1> DEFINE last == History[Len(History)]
  <1>1. Len(History) \in 1 .. Len(History) /\ last \in Msgs /\ last.ver \in Nat \ {0} /\ last.id \in Ids
    BY SMT, HistoryFacts
  <1>2. proj.ver >= last.ver
    BY <1>1 DEF SettledAt, Settled
  <1>3. proj # NoView
    BY <1>1, <1>2 DEF NoView
  <1>4. PICK m \in Msgs : proj = Projected(m)
    BY <1>3 DEF Inv, TxInv, ViewFits
  <1>5. proj.ver = m.ver /\ m.ver \in Nat
    BY <1>4, ProjectedView
  <1>6. m.ver <= last.ver /\ (m.ver = last.ver => m = last)
    BY LastIsLatest
  <1> QED BY <1>1, <1>2, <1>4, <1>5, <1>6

\* countResidualGaps.
LEMMA CountGapsKeeps ==
    ASSUME Inv, CountGaps
    PROVE  Inv'
  <1> DEFINE bad == History = <<>> \/ \E i \in Ids : inbox[i].disp = Gap
             st == IF bad THEN "incomplete" ELSE StatusSoFar
  <1>1. /\ control.stage = "replay" /\ tx[Operator].pc = "idle" /\ tx[Operator].res # "failed"
        /\ control.idx = Len(History) /\ control \in Controls
        /\ UNCHANGED <<inbox, proj, rowLock, viewLock, tx, doomed>>
        /\ control' = [control EXCEPT !.stage = "checksum", !.status = st]
    BY DEF CountGaps, dataVars, lockVars, Inv, TypeOK
  <1>2. st \in {"complete", "incomplete"} /\ (st = "complete" => ~bad /\ StatusSoFar = "complete")
    BY <1>1 DEF StatusSoFar, Controls
  <1> HIDE DEF st, bad
  <1>3. /\ control' \in Controls /\ control'.stage = "checksum" /\ control'.rebuild = control.rebuild
        /\ control'.quiesced = control.quiesced /\ control'.status = st
    BY <1>1, <1>2 DEF Controls
  <1>4. ControlInv'
    BY <1>1, <1>3 DEF Inv, ControlInv, ControlRuns, Resetting
  <1>5. ASSUME NoLiveReset
        PROVE  /\ ResetInv' /\ DuplicateInv' /\ ReplayInv'
               /\ AppliedIsProjected' /\ ChecksumInv' /\ CompleteIsProof'
    <2>1. DuplicateInv /\ AppliedIsProjected
      BY <1>5 DEF Inv, QuietInv
    <2>2. DuplicateInv' /\ AppliedIsProjected'
      BY <2>1, <1>1, <1>5 DEF DuplicateInv, AppliedIsProjected
    <2>3. ResetInv' /\ ReplayInv' /\ CompleteIsProof'
      BY <1>3 DEF ResetInv, ReplayInv, CompleteIsProof
    <2>4. ChecksumInv'
      <3>1. SUFFICES ASSUME st = "complete"
                     PROVE  History # <<>> /\ proj = Projected(History[Len(History)])
        BY <1>1, <1>3 DEF ChecksumInv
      <3>2. History # <<>> /\ \A i \in Ids : inbox[i].disp # Gap
        BY <3>1, <1>2 DEF bad
      <3>3. \A i \in 1 .. Len(History) : SettledAt(i)
        BY <3>1, <1>1, <1>2, <1>5, RecordsSettled
      <3> QED BY <3>2, <3>3, NoGapIsWhole
    <2> QED BY <2>2, <2>3, <2>4
  <1>6. QuietInv'
    BY <1>3, <1>5 DEF QuietInv, NoLiveReset
  <1> QED BY <1>1, <1>3, <1>4, <1>6, ControlMoves DEF Inv, TypeOK

\* ChecksumTenant.
LEMMA ChecksumTenantKeeps ==
    ASSUME Inv, ChecksumTenant
    PROVE  Inv'
  <1>1. /\ control.stage = "checksum" /\ control \in Controls /\ proj \in View
        /\ UNCHANGED <<inbox, proj, rowLock, viewLock, tx, doomed>>
        /\ control' = [control EXCEPT !.stage = "done", !.sum = proj]
    BY DEF ChecksumTenant, dataVars, lockVars, Inv, TypeOK
  <1>2. /\ control' \in Controls /\ control'.stage = "done" /\ control'.rebuild = control.rebuild
        /\ control'.quiesced = control.quiesced /\ control'.status = control.status
        /\ control'.sum = proj
    BY <1>1 DEF Controls
  <1>3. ControlInv'
    BY <1>1, <1>2 DEF Inv, ControlInv, ControlRuns, Resetting
  <1>4. ASSUME NoLiveReset
        PROVE  /\ ResetInv' /\ DuplicateInv' /\ ReplayInv'
               /\ AppliedIsProjected' /\ ChecksumInv' /\ CompleteIsProof'
    <2>1. DuplicateInv /\ AppliedIsProjected /\ ChecksumInv
      BY <1>4 DEF Inv, QuietInv
    <2>2. DuplicateInv' /\ AppliedIsProjected'
      BY <2>1, <1>1, <1>4 DEF DuplicateInv, AppliedIsProjected
    <2>3. ResetInv' /\ ReplayInv' /\ ChecksumInv'
      BY <1>2 DEF ResetInv, ReplayInv, ChecksumInv
    <2>4. CompleteIsProof'
      BY <2>1, <1>1, <1>2 DEF ChecksumInv, CompleteIsProof
    <2> QED BY <2>2, <2>3, <2>4
  <1>5. QuietInv'
    BY <1>2, <1>4 DEF QuietInv, NoLiveReset
  <1> QED BY <1>1, <1>2, <1>3, <1>5, ControlMoves DEF Inv, TypeOK

-----------------------------------------------------------------------------
(* Results.                                                                *)

\* No record has been delivered and no control started.
LEMMA InvInit == Init => Inv
  <1> SUFFICES ASSUME Init PROVE Inv
    OBVIOUS
  <1>1. /\ NoRow \in Rows /\ NoView \in View /\ NoTx \in Txs
        /\ NoTx.pc = "idle" /\ NoTx.disp = "none" /\ NoTx.new = NoRow
        /\ NoTx.res = "none" /\ NoTx.redriving = FALSE
    <2>1. NoRow \in Rows /\ NoView \in View
      BY DEF NoRow, Rows, NoView, View
    <2>2. NoTx \in Txs
      BY <2>1 DEF NoTx, Txs, Pcs
    <2> QED BY <2>1, <2>2 DEF NoTx
  <1>2. /\ control \in Controls /\ control.stage = "start" /\ control.idx = 0
        /\ control.rebuild = FALSE /\ control.quiesced = FALSE
    BY SMT, <1>1, HistoryFacts DEF Init, Controls
  <1>3. TypeOK
    BY <1>1, <1>2 DEF Init, TypeOK
  <1>4. TxFits(NoTx) /\ ~Decided(NoTx) /\ \A p, v, h : HoldsView(NoTx, p, v, h)
    BY <1>1 DEF TxFits, Decided, HoldsView
  <1>5. ViewFits(NoView) /\ \A m \in Msgs : RowFits(NoRow, m)
    BY DEF ViewFits, NoView, RowFits, NoRow
  <1>6. \A p \in Procs : tx[p] = NoTx
    BY DEF Init
  <1>7. \A m \in Msgs : inbox[m.id] = NoRow
    BY DEF Init, Ids
  <1>8. TxInv
    BY <1>4, <1>5, <1>6, <1>7 DEF TxInv, Init
  <1>9. ControlInv
    BY <1>1, <1>2, <1>6 DEF ControlInv, ControlRuns, Procs, Resetting
  <1>10. QuietInv
    <2>1. ResetInv /\ ReplayInv /\ ChecksumInv /\ CompleteIsProof
      BY <1>2 DEF ResetInv, ReplayInv, ChecksumInv, CompleteIsProof
    <2>2. DuplicateInv
      BY <1>4, <1>6 DEF DuplicateInv
    <2>3. AppliedIsProjected
      BY <1>7 DEF AppliedIsProjected, NoRow
    <2> QED BY <2>1, <2>2, <2>3 DEF QuietInv
  <1> QED BY <1>3, <1>8, <1>9, <1>10 DEF Inv

\* One case for each statement of the consumer and of the control.
LEMMA InvNext == Inv /\ [Next]_vars => Inv'
  <1> SUFFICES ASSUME Inv, [Next]_vars PROVE Inv'
    OBVIOUS
  <1>1. CASE \E p \in Procs : ProcessRecord(p)
    BY <1>1, ProcessRecordKeeps
  <1>2. CASE \E m \in Msgs : Deliver(m)
    BY <1>2, DeliverKeeps
  <1>3. CASE Control
    BY <1>3, StartControlKeeps, DeleteInboxRowKeeps, DeletesKeep, CommitResetKeeps, FailuresKeep,
       ReplayRecordKeeps, CountGapsKeeps, ChecksumTenantKeeps DEF Control
  <1>4. CASE UNCHANGED vars
    <2>1. UNCHANGED <<inbox, proj, rowLock, viewLock, tx, control, doomed>>
      BY <1>4 DEF vars, dataVars, lockVars
    <2>2. TypeOK' /\ TxInv' /\ ControlInv'
      BY <2>1 DEF Inv, TypeOK, TxInv, ControlInv, ControlRuns
    <2>3. QuietInv'
      BY <2>1 DEF Inv, QuietInv, NoLiveReset, ResetInv, AppliedIsProjected, DuplicateInv,
         ReplayInv, RecordFits, SettledAt, ChecksumInv, CompleteIsProof
    <2> QED BY <2>2, <2>3 DEF Inv
  <1> QED BY <1>1, <1>2, <1>3, <1>4 DEF Next

\* The invariant on which the results below rest.
THEOREM InvHolds == Spec => []Inv
  BY InvInit, InvNext, PTL DEF Spec

\* An inbox row that says applied is backed by the projection, whatever
\* statements fail, unless a reset runs beside the consumer: answering
\* duplicate_noop (processValidated) loses nothing.
THEOREM AppliedIsProjectedHolds == Spec => []AppliedIsProjected
  <1>1. Inv => AppliedIsProjected
    BY DEF Inv, QuietInv, AppliedIsProjected
  <1> QED BY <1>1, InvHolds, PTL

\* A replay, or a rebuild for which the consumer was stopped, that reports
\* complete has read the checksum of the whole history (replayTenantRecords,
\* countResidualGaps, ChecksumTenant).
THEOREM CompleteIsProofHolds == Spec => []CompleteIsProofUnlessLive
  <1>1. Inv => CompleteIsProofUnlessLive
    BY DEF Inv, QuietInv, CompleteIsProofUnlessLive
  <1> QED BY <1>1, InvHolds, PTL

\* The committed projection advances by one version or is reset, even beside a
\* live rebuild: FOR UPDATE and the primary key keep two transactions from
\* deciding on the same row (applyProjection).
THEOREM OneVersionAtATimeHolds == Spec => OneVersionAtATime
  <1>1. Inv /\ [Next]_vars => [proj' # proj => proj' = NoView \/ proj'.ver = proj.ver + 1]_proj
    <2> SUFFICES ASSUME Inv, [Next]_vars, proj' # proj
                 PROVE  proj' = NoView \/ proj'.ver = proj.ver + 1
      OBVIOUS
    <2>1. CASE \E p \in Procs : ProcessRecord(p)
      <3>1. PICK p \in Procs : ProcessRecord(p)
        BY <2>1
      <3>2. CommitEffects(p)
        BY <3>1 DEF ProcessRecord, LockInbox, LockProjection, InsertProjection, InsertProjectionFails,
           WriteInbox, Commit, CommitAnswerLost, RedriveGaps, StatementFails, DeadlockVictim,
           Abort, dataVars
      <3> QED BY <3>2, CommitData
    <2>2. CASE \E m \in Msgs : Deliver(m)
      BY <2>2 DEF Deliver, dataVars
    <2>3. CASE Control
      BY <2>3 DEF Control, StartControl, DeleteInboxRow, InboxDeleted, DeleteProjection, CommitReset,
         ResetFails, ReplayRecord, ReplayStops, CountGaps, ChecksumTenant, dataVars
    <2>4. CASE UNCHANGED vars
      BY <2>4 DEF vars, dataVars
    <2> QED BY <2>1, <2>2, <2>3, <2>4 DEF Next
  <1> QED BY <1>1, InvHolds, PTL DEF Spec, OneVersionAtATime

=============================================================================
