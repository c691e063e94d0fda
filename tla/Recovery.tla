------------------------------ MODULE Recovery ------------------------------
(***************************************************************************)
(* A full recovery of one account: the changes of its status and the       *)
(* evidence they leave, a backup, a disaster, and the replay of the         *)
(* evidence over the restored row (core/store.go's ReplayStatus and         *)
(* ReplayLogout, core/evidence.go, iam/module.go's Replays), with Casdoor   *)
(* outside the recovery: its user stays as it is.                           *)
(*                                                                         *)
(* Covered: intents that could not be sealed, or not be cancelled, handlers *)
(* that died between an intent and its conclusion, conclusions committed    *)
(* and lost with the database, a backup from before the account was bound,  *)
(* a comparison too soon after the replay to judge the status.  Sessions    *)
(* are module Sessions', the handlers' calls to Casdoor AccountOperations'. *)
(*                                                                         *)
(* External, as src/ uses it: the evidence store keeps every sealed intent  *)
(* and a prefix (in commit position) of what the database concluded; the    *)
(* recovery tool replays that prefix in order, then the intents without a   *)
(* conclusion in it; a record the restored database holds is reflected.     *)
(***************************************************************************)
EXTENDS AccountRow, Sequences

CONSTANTS
    Asked,       \* the security marks requested with a disablement
    MaxVersion   \* bound of the behaviours before the disaster

ASSUME RecoveryInputAssumption == Asked \subseteq Marks /\ None \notin Writers
ASSUME RecoveryBoundAssumption == MaxVersion \in Nat

VARIABLES
    phase,    \* running, replaying, or open again
    bound,    \* this member has an account of the user
    row,      \* its row of iam_account
    record,   \* the status record that went out last
    user,     \* Casdoor's user
    hand,     \* the changes that write evidence, by the record's identity
    log,      \* the evidence concluded, in commit position
    backup,   \* the database as it was backed up, and the evidence it has
    since,    \* history: what happened since the backup that no replay makes again
    rest,     \* the conclusions still to replay
    todo,     \* the intents to replay after them
    lost,     \* history: the row the disaster destroyed, and what of it was recorded
    fresh,    \* local_change_at is within InFlight of a comparison made now
    refused   \* history: since the disaster Casdoor refused the user, and a
              \* comparison that judged the status has seen it

vars == <<phase, bound, row, record, user, hand, log, backup, since, rest, todo, lost, fresh, refused>>
recovering == <<rest, todo, lost, fresh, refused>>

Kinds == {"adapter", "console", "logout", "general"}
Change == [kind : Kinds, status : Statuses, mark : Marks]
Hand == [pc : {"new", "sealed", "over"}, seen : Nat, change : Change]
Entry == [id : Writers, phase : {"effective", "general", "cancelled"}, change : Change]
Intents == [id : Writers, change : Change]
Backup == [bound : BOOLEAN, row : Row, record : StatusRecord, position : Nat]
Since == [unsealed : BOOLEAN, silent : BOOLEAN, remarked : BOOLEAN]
Lost == [record : StatusRecord, recorded : BOOLEAN, complete : BOOLEAN, remarked : BOOLEAN]

\* A re-enable: what a general record of a status says.
Active == [kind |-> "general", status |-> "active", mark |-> "none"]
NoHands == [w \in Writers |-> [pc |-> "new", seen |-> 0, change |-> Active]]
NoBackup == [bound |-> FALSE, row |-> NewRow, record |-> RecordOf(NewRow), position |-> 0]
NothingSince == [unsealed |-> FALSE, silent |-> FALSE, remarked |-> FALSE]

Init ==
    /\ phase = "running" /\ bound = FALSE
    /\ row = NewRow /\ record = RecordOf(NewRow)
    /\ user = [forbidden |-> FALSE, deleted |-> FALSE, password |-> 1, factors |-> NoFactors]
    /\ hand = NoHands /\ log = <<>> /\ backup = NoBackup /\ since = NothingSince
    /\ rest = <<>> /\ todo = {}
    /\ lost = [record |-> RecordOf(NewRow), recorded |-> FALSE, complete |-> FALSE,
                remarked |-> FALSE]
    /\ fresh = FALSE
    /\ refused = [now |-> FALSE, compared |-> FALSE]
-----------------------------------------------------------------------------
(* Before the disaster.  A comparison that judges the status may come at any *)
(* time; one within InFlight leaves the row alone, but for what              *)
(* ChangeCredential does.                                                    *)

Write(r) == row' = r /\ record' = RecordOf(r)

\* A request's change with the confirmation it was allowed on, if with any.
Confirmed(r, status, mark, evidence) ==
    \E k \in Confirmations \union {None} :
        Write(Changed(WithStatus(r, status, mark), k, evidence))

Working == phase = "running" /\ bound /\ row.version < MaxVersion

\* The account has the status (and a disabled one the mark) that is asked for.
Already(status, mark) == row.status = status /\ (status = "disabled" => row.mark = mark)

\* The first sign-in, which Casdoor let through.
Bind ==
    /\ phase \in {"running", "open"} /\ ~bound /\ ~Off(user)
    /\ bound' = TRUE /\ Write(NewRow) /\ fresh' = FALSE
    /\ UNCHANGED <<phase, user, hand, log, backup, since, rest, todo, lost, refused>>

\* What a request asks for, or a comparison found in Casdoor, is possible now.
Wanted(c) ==
    CASE c.kind = "adapter" -> /\ c.status # "active" /\ ~Already(c.status, c.mark)
                               /\ c.status = "disabled" \/ c.mark = "none"
                               /\ c.mark \in Asked \union {"none"}
      [] c.kind = "console" -> /\ TakesDisablement(row, user, FALSE)
                               /\ c.status = "disabled" /\ c.mark = "none"
      [] c.kind = "logout"  -> c.status = "active" /\ c.mark = "none"
      [] OTHER -> FALSE

\* The intent of a tightening is sealed in the evidence store.
Intend(w) ==
    /\ Working /\ hand[w].pc = "new"
    /\ \E c \in Change :
         /\ Wanted(c)
         /\ LET seen == IF c.kind = "adapter" THEN row.version ELSE 0
            IN  hand' = [hand EXCEPT ![w] = [pc |-> "sealed", seen |-> seen, change |-> c]]
    /\ UNCHANGED <<phase, bound, row, record, user, log, backup, since, recovering>>

\* The change w concludes, in the row's transaction.
Conclude(w, ph, c) ==
    /\ hand' = [hand EXCEPT ![w] = [pc |-> "over", seen |-> 0, change |-> @.change]]
    /\ log' = Append(log, [id |-> w, phase |-> ph, change |-> c])

\* A disablement or a freeze, on the version it was asked on.
SetStatus(w) ==
    LET c == hand[w].change
    IN  /\ Working /\ hand[w].pc = "sealed" /\ c.kind = "adapter"
        /\ row.version = hand[w].seen
        /\ Confirmed(row, c.status, c.mark, w)
        /\ Conclude(w, "effective", c)
        /\ since' = [since EXCEPT !.remarked = @ \/ row.status = c.status]
        /\ UNCHANGED <<phase, bound, user, backup, recovering>>

\* A comparison takes in a console disablement.
TakeConsole(w) ==
    /\ Working /\ hand[w].pc = "sealed" /\ hand[w].change.kind = "console"
    /\ TakesDisablement(row, user, FALSE)
    /\ Write(ComparedRow(row, user, FALSE, w))
    /\ Conclude(w, "effective", hand[w].change)
    /\ UNCHANGED <<phase, bound, user, backup, since, recovering>>

ForceLogout(w) ==
    /\ Working /\ hand[w].pc = "sealed" /\ hand[w].change.kind = "logout"
    /\ Write(Changed(row, None, None))
    /\ Conclude(w, "effective", hand[w].change)
    /\ UNCHANGED <<phase, bound, user, backup, since, recovering>>

\* The change whose intent was sealed did not take place.  A handler that dies,
\* or whose cancellation fails, leaves its intent open: it takes no further step.
Cancel(w) ==
    /\ phase = "running" /\ hand[w].pc = "sealed"
    /\ Conclude(w, "cancelled", hand[w].change)
    /\ UNCHANGED <<phase, bound, row, record, user, backup, since, recovering>>

\* A re-enable, with a general record.
Enable(w) ==
    /\ Working /\ hand[w].pc = "new" /\ row.status # "active"
    /\ Confirmed(row, "active", "none", w)
    /\ Conclude(w, "general", Active)
    /\ UNCHANGED <<phase, bound, user, backup, since, recovering>>

\* A rollback seen in Casdoor: recorded as the status the account has.
Rollback(w) ==
    /\ Working /\ hand[w].pc = "new" /\ SeesRollback(row, user, FALSE)
    /\ row' = ComparedRow(row, user, FALSE, None)
    /\ Conclude(w, "general", [Active EXCEPT !.status = row.status])
    /\ UNCHANGED <<phase, bound, record, user, backup, since, recovering>>

\* A tightening whose intent could not be sealed leaves no evidence.
Unrecorded ==
    /\ Working
    /\ \E c \in Change :
         /\ Wanted(c)
         /\ \/ c.kind = "adapter" /\ Confirmed(row, c.status, c.mark, None)
            \/ c.kind = "console" /\ Write(ComparedRow(row, user, FALSE, None))
            \/ c.kind = "logout" /\ Write(Changed(row, None, None))
         /\ since' = [since EXCEPT !.silent = TRUE, !.unsealed = @ \/ c.kind # "logout"]
    /\ UNCHANGED <<phase, bound, user, hand, log, backup, recovering>>

\* A change of a credential: its evidence is checked after a recovery, not replayed.
ChangeCredential ==
    /\ Working
    /\ Write(Changed(row, None, None))
    /\ since' = [since EXCEPT !.silent = TRUE]
    /\ UNCHANGED <<phase, bound, user, hand, log, backup, recovering>>

\* A handler's SetForbidden, or Casdoor's console; the recovery does not touch it.
CasdoorChanges ==
    /\ user' = [user EXCEPT !.forbidden = ~@]
    /\ refused' = [now |-> refused.now /\ user'.forbidden,
                   compared |-> refused.compared /\ user'.forbidden]
    /\ UNCHANGED <<phase, bound, row, record, hand, log, backup, since, rest, todo, lost, fresh>>
-----------------------------------------------------------------------------
(* The recovery.                                                           *)

TakeBackup ==
    /\ phase = "running"
    /\ backup' = [bound |-> bound, row |-> row, record |-> record, position |-> Len(log)]
    /\ since' = NothingSince
    /\ UNCHANGED <<phase, bound, row, record, user, hand, log, recovering>>

\* The intents without a conclusion among the first n.
Open(n) ==
    {[id |-> w, change |-> hand[w].change] :
        w \in {v \in Writers : /\ hand[v].pc # "new" /\ hand[v].change.kind # "general"
                              /\ \A k \in 1 .. n : log[k].id # v}}

\* The database is lost with everything that ran, and restored; the evidence
\* store has the first n conclusions.  A record the backup holds is reflected.
Restore(n) ==
    /\ phase = "running" /\ n \in backup.position .. Len(log)
    /\ phase' = "replaying"
    /\ bound' = backup.bound /\ row' = backup.row /\ record' = backup.record
    /\ rest' = SubSeq(log, backup.position + 1, n) /\ todo' = Open(n)
    /\ fresh' \in BOOLEAN \* of the backup's local_change_at
    /\ lost' = [record |-> record, recorded |-> backup.bound /\ ~since.unsealed,
                complete |-> backup.bound /\ ~since.silent /\ n = Len(log) /\ Open(n) = {},
                remarked |-> since.remarked]
    /\ refused' = [now |-> user.forbidden, compared |-> FALSE]
    /\ hand' = NoHands /\ log' = <<>> /\ backup' = NoBackup /\ since' = NothingSince
    /\ UNCHANGED user

\* Mutant of ReplayedRow: a freeze is taken for an unknown status.
ReplayedRowNoFreeze(r, id, c) ==
    IF c.kind = "logout" THEN Changed(r, None, None)
    ELSE IF r.status = c.status \/ c.status = "security_frozen" THEN r
    ELSE Changed(WithStatus(r, c.status, c.mark), None, id)

\* ReplayLogout, or ReplayStatus: a status the account already has is left as
\* it is, with its mark and its evidence.
ReplayedRow(r, id, c) ==
    IF c.kind = "logout" THEN Changed(r, None, None)
    ELSE IF r.status = c.status THEN r
    ELSE Changed(WithStatus(r, c.status, c.mark), None, id)

\* Mutant of Accepted: a freeze is no status of an account, as it once was not.
AcceptedNoFreeze(c) == c.kind = "logout" \/ c.status \in {"active", "disabled"}

\* ReplayStatus answers an error to a record without an account's status: the
\* recovery stops at it.
Accepted(c) ==
    c.kind = "logout" \/ c.status \in {"active", "disabled", "security_frozen"}

\* A record that is accepted.  A status that is set is a local change of now; an
\* account that is not there leaves the record dangling.
Apply(id, c) ==
    LET r == ReplayedRow(row, id, c)
    IN  /\ Accepted(c)
        /\ IF bound /\ r # row THEN Write(r) ELSE UNCHANGED <<row, record>>
        /\ fresh' = (fresh \/ (bound /\ c.kind # "logout" /\ r # row))

\* Mutant of Replay: what was cancelled is applied like what took effect.
ReplayCancelled ==
    /\ phase = "replaying" /\ rest # <<>>
    /\ Apply(Head(rest).id, Head(rest).change)
    /\ rest' = Tail(rest)
    /\ UNCHANGED <<phase, bound, user, hand, log, backup, since, todo, lost, refused>>

\* The next conclusion, in the order of the commits; one cancelled changed nothing.
Replay ==
    /\ phase = "replaying" /\ rest # <<>>
    /\ IF Head(rest).phase = "cancelled"
       THEN UNCHANGED <<row, record, fresh>>
       ELSE Apply(Head(rest).id, Head(rest).change)
    /\ rest' = Tail(rest)
    /\ UNCHANGED <<phase, bound, user, hand, log, backup, since, todo, lost, refused>>

\* An intent whose conclusion is not in the store, after them.
ReplayIntent ==
    /\ phase = "replaying" /\ rest = <<>>
    /\ \E i \in todo : Apply(i.id, i.change) /\ todo' = todo \ {i}
    /\ UNCHANGED <<phase, bound, user, hand, log, backup, since, rest, lost, refused>>

Replayed == phase = "replaying" /\ rest = <<>> /\ todo = {}

Reopen ==
    /\ Replayed
    /\ phase' = "open"
    /\ UNCHANGED <<bound, row, record, user, hand, log, backup, since, recovering>>

\* InFlight passes.
Later ==
    /\ phase = "open" /\ fresh
    /\ fresh' = FALSE
    /\ UNCHANGED <<phase, bound, row, record, user, hand, log, backup, since, rest, todo, lost, refused>>

\* The comparison with Casdoor once the member is open again: a status changed
\* within InFlight is left to the next one.  Its evidence is another recovery's.
CompareAgain ==
    /\ phase = "open" /\ bound
    /\ LET r == ComparedRow(row, user, fresh, None)
       IN  row' = r /\ record' = IF r.version = row.version THEN record ELSE RecordOf(r)
    /\ refused' = [refused EXCEPT !.compared = @ \/ (~fresh /\ refused.now)]
    /\ UNCHANGED <<phase, bound, user, hand, log, backup, since, rest, todo, lost, fresh>>

Recording(w) ==
    \/ Intend(w) \/ SetStatus(w) \/ TakeConsole(w) \/ ForceLogout(w) \/ Cancel(w)
    \/ Enable(w) \/ Rollback(w)

Next ==
    \/ \E w \in Writers : Recording(w)
    \/ Bind \/ Unrecorded \/ ChangeCredential \/ CasdoorChanges \/ TakeBackup
    \/ \E n \in 0 .. Len(log) : Restore(n)
    \/ Replay \/ ReplayIntent \/ Reopen \/ Later \/ CompareAgain

Spec == Init /\ [][Next]_vars

\* The recovery tool calls for the next record until all have been answered and
\* opens the deployment; time passes, and the job compares again and again.
FairSpec ==
    /\ Spec
    /\ WF_vars(Replay \/ ReplayIntent \/ Reopen)
    /\ WF_vars(Later) /\ WF_vars(CompareAgain)
-----------------------------------------------------------------------------
(* Properties.                                                             *)

TypeOK ==
    /\ phase \in {"running", "replaying", "open"} /\ bound \in BOOLEAN
    /\ row \in Row /\ record \in StatusRecord /\ user \in User
    /\ hand \in [Writers -> Hand] /\ log \in Seq(Entry)
    /\ backup \in Backup /\ backup.position <= Len(log)
    /\ since \in Since /\ lost \in Lost
    /\ rest \in Seq(Entry) /\ todo \subseteq Intents
    /\ fresh \in BOOLEAN /\ refused \in [now : BOOLEAN, compared : BOOLEAN]

\* An account that was disabled or frozen when the database was lost is not
\* active when the member is open again, whatever conclusions were lost with
\* it: the replay makes every recorded tightening again; one that no record
\* was sealed of, a comparison does that judges the status (not one within
\* InFlight of the replay) when Casdoor has refused the user ever since
\* (ReplayStatus, Compare; replay.go:14-22).
NeverMoreOpen ==
    /\ phase = "open" /\ lost.record.status # "active"
    /\ lost.recorded \/ refused.compared
    => row.status # "active"

\* With every change since the backup recorded, no record lost, and none that
\* marked an account disabled before it, the replay leaves the status record
\* that went out last before the disaster: status, mark, version and evidence.
\* Only the confirmation of what it made again is gone (ReplayStatus, changeEv).
Restored ==
    Replayed /\ lost.complete /\ ~lost.remarked =>
        \E k \in {None, lost.record.confirmation} :
            record = [lost.record EXCEPT !.confirmation = k]

\* "applied again here as recorded" (replay.go:17) of a mark as well: the mark of
\* an account whose changes were all recorded is the mark it had.
MarkRestored == Replayed /\ lost.complete => row.mark = lost.record.mark

\* An account that Casdoor has refused ever since the disaster is in the end not
\* active here: no record the member wrote stops its replay, and what the replay
\* opened, or the backup held open, a comparison closes once InFlight has passed.
ClosedAgain ==
    <>[](phase # "running" /\ bound /\ refused.now => row.status # "active")
=============================================================================
