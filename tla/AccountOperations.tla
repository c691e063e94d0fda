-------------------------- MODULE AccountOperations --------------------------
(***************************************************************************)
(* The operations on one account (accounts/accountops.go, the password     *)
(* change of sessions/sessions.go) and the comparisons with Casdoor        *)
(* (reconcile/reconcile.go), running concurrently over the same iam_account *)
(* row and the same Casdoor user.                                          *)
(*                                                                         *)
(* A step is one database transaction or one call to Casdoor: a transaction *)
(* takes the account's row lock with its first write (or FOR UPDATE) and    *)
(* holds it to its commit, so it is one atomic step; a handler's steps      *)
(* interleave with those of every other handler.  Casdoor's console is an   *)
(* actor of its own.  Any call may fail before it takes effect, a call to   *)
(* Casdoor may take effect and lose its answer, an intent may fail to be    *)
(* sealed or to be cancelled, and the process may die between any two steps. *)
(*                                                                         *)
(* Time is counted in ticks.  A request finishes within Deadline ticks and *)
(* a comparison within Timeout ticks of its start; `since' is the age of   *)
(* local_change_at, which no comparison distinguishes beyond Old.          *)
(***************************************************************************)
EXTENDS AccountRow, FiniteSets

CONSTANTS
    Requests,     \* handlers that may run at the same time
    Comparisons,  \* comparisons that may run at the same time
    Pulls,        \* those of them that run before an echo (the others: the job)
    Sessions,     \* the account's sessions
    Operations,   \* the operations requested: subset of those below
    Targets,      \* the statuses requested
    Asked,        \* the security marks requested with a disablement
    Edits,        \* what the console does: subset of those below
    InFlight, Deadline, Timeout,            \* in ticks
    MaxRequests, MaxEdits, MaxFaults        \* bounds of the behaviours

AllOperations == {"status", "logout", "reset", "password"}
AllEdits == {"forbid", "allow", "delete", "remove", "password", "factors"}

ASSUME WritersAssumption == Requests \union Comparisons \subseteq Writers
ASSUME ProcessAssumption ==
    /\ Pulls \subseteq Comparisons
    /\ Requests \intersect Comparisons = {}
    /\ None \notin Writers \union Sessions \union Confirmations
ASSUME InputAssumption ==
    /\ Operations \subseteq AllOperations
    /\ Edits \subseteq AllEdits
    /\ Targets \subseteq Statuses
    /\ Asked \subseteq Marks
\* A request ends before what it fenced is compared again: it inherits a
\* deadline shorter than the minute of InFlight.
ASSUME TimeAssumption ==
    /\ InFlight \in Nat /\ Deadline \in Nat /\ Timeout \in Nat
    /\ Deadline < InFlight
ASSUME BoundAssumption ==
    MaxRequests \in Nat /\ MaxEdits \in Nat /\ MaxFaults \in Nat

VARIABLES
    row,     \* this account's row of iam_account
    since,   \* ticks since local_change_at (Old: longer ago, or NULL)
    record,  \* the status record that went out last
    kept,    \* the latest row of iam_status_evidence
    live,    \* the account's sessions that have not ended
    user,    \* Casdoor's user
    req,     \* the requests' handlers
    cmp,     \* the comparisons
    left,    \* how many requests, console edits and faults may still come
    owed     \* history: since the first comparison the password changed in
             \* Casdoor and no security change of the account followed yet

vars == <<row, since, record, kept, live, user, req, cmp, left, owed>>
local == <<row, since, record, kept, live, owed>>

Old == InFlight + Timeout

Phases == {"none", "intent", "unsealed", "effective", "cancelled"}
RequestSteps == {"idle", "crashed", "ask", "intend", "fence", "read", "write",
                 "set", "setpw", "delete", "readback", "baseline", "reset",
                 "change"}
ComparisonSteps == {"idle", "crashed", "list", "look", "compare", "read",
                    "write", "done"}

Account == [status : Statuses, mark : Marks, version : Nat]
Request == [pc : RequestSteps, op : AllOperations, target : Statuses,
            mark : Marks, confirmation : Confirmations \union {None},
            seen : Account, copy : User, then : {"set", "end"},
            keep : Sessions \union {None}, age : Nat, ev : Phases]
Comparison == [pc : ComparisonSteps, u : User, copy : User, age : Nat,
               ev : Phases, skipped : BOOLEAN]
Evidence == [status : Statuses, source : {"none", "adapter", "console", "rollback"},
             version : Nat]

NoRequest == [pc |-> "idle", op |-> "status", target |-> "active",
              mark |-> "none", confirmation |-> None,
              seen |-> [status |-> "active", mark |-> "none", version |-> 0],
              copy |-> Gone, then |-> "end", keep |-> None, age |-> 0,
              ev |-> "none"]
NoComparison == [pc |-> "idle", u |-> Gone, copy |-> Gone, age |-> 0,
                 ev |-> "none", skipped |-> FALSE]

Running(p) == p.pc \notin {"idle", "crashed"}

\* The account has just been bound, Casdoor lets its user in.
Init ==
    /\ row = NewRow
    /\ since = Old
    /\ record = RecordOf(NewRow)
    /\ kept = [status |-> "active", source |-> "none", version |-> 0]
    /\ live = Sessions
    /\ user = [forbidden |-> FALSE, deleted |-> FALSE, password |-> 1,
               factors |-> NoFactors]
    /\ req = [r \in Requests |-> NoRequest]
    /\ cmp = [c \in Comparisons |-> NoComparison]
    /\ left = [requests |-> MaxRequests, edits |-> MaxEdits, faults |-> MaxFaults]
    /\ owed = FALSE

Spend(budget) ==
    /\ left[budget] > 0
    /\ left' = [left EXCEPT ![budget] = @ - 1]
-----------------------------------------------------------------------------
(* What the steps share.                                                   *)

\* Mutant of ChangeEv: the record is read before the row's change.
ChangeEvRecordFirst(r, keep, confirmation, evidence) ==
    /\ row' = Changed(r, confirmation, evidence)
    /\ record' = RecordOf(r)
    /\ live' = live \intersect keep
    /\ owed' = FALSE

\* The security change's transaction: the row's change, the status record, the
\* live sessions but `keep' ended.  r: the row with what else the transaction
\* writes.
ChangeEv(r, keep, confirmation, evidence) ==
    /\ row' = Changed(r, confirmation, evidence)
    /\ record' = RecordOf(Changed(r, confirmation, evidence))
    /\ live' = live \intersect keep
    /\ owed' = FALSE

\* Mutant of Settled: what took effect is cancelled too.
SettledAlways(ev) == IF ev \in {"intent", "effective"} THEN {"cancelled", ev} ELSE {ev}

\* Settle: a pending intent is cancelled, or stays open when that fails: the
\* error is dropped, and the request's context may be over.  A concluded one
\* is left.
Settled(ev) == IF ev = "intent" THEN {"cancelled", "intent"} ELSE {ev}

\* Mutant of Concluded: the transaction does not write the conclusion.
ConcludedNever(ev) == ev

\* The conclusion written in the change's transaction.
Concluded(ev) == IF ev = "intent" THEN "effective" ELSE ev

At(r, pc) == req[r].pc = pc
Goto(r, pc) == req' = [req EXCEPT ![r].pc = pc]
\* The handler returns; the deferred Settle runs.
End(r, ev) ==
    \E e \in Settled(ev) : req' = [req EXCEPT ![r] = [NoRequest EXCEPT !.ev = e]]

\* What update-user leaves: the copy that was read with isForbidden set; a
\* password is never changed by it.
Written(copy, forbidden) ==
    [copy EXCEPT !.forbidden = forbidden, !.password = user.password]

\* A password change in Casdoor, whoever makes it.
NewPassword ==
    /\ user' = [user EXCEPT !.password = @ + 1]
    /\ owed' = (owed \/ row.password # None)

Seen == [status |-> row.status, mark |-> row.mark, version |-> row.version]

\* Mutants of Recent: the comparison's own moment instead of its reading's; no
\* margin for a change still in flight.
RecentNow(c) == since < InFlight
RecentNoMargin(c) == since < cmp[c].age

\* local_change_at > readAt - InFlight, for the comparison c.
Recent(c) == since < cmp[c].age + InFlight
-----------------------------------------------------------------------------
(* The requests.                                                           *)

Free(r) == ~Running(req[r])

\* StatusHTTP up to the question to the authorization member.  An account that
\* already has the status asked for is only made to agree in Casdoor.
StartStatus(r) ==
    /\ Free(r) /\ "status" \in Operations
    /\ Spend("requests")
    /\ \E target \in Targets, mark \in Asked \union {"none"},
          confirmation \in Confirmations \union {None} :
        /\ target = "disabled" \/ mark = "none"
        /\ LET already == /\ row.status = target
                          /\ target = "disabled" => row.mark = mark
           IN  req' = [req EXCEPT ![r] =
                 [NoRequest EXCEPT !.pc = IF already THEN "read" ELSE "ask",
                    !.target = target, !.mark = mark,
                    !.confirmation = IF already THEN None ELSE confirmation,
                    !.seen = Seen]]
    /\ UNCHANGED <<local, user, cmp>>

\* The authorization member allows the change ...
Allowed(r) ==
    /\ At(r, "ask")
    /\ Goto(r, IF req[r].target = "active" THEN "fence" ELSE "intend")
    /\ UNCHANGED <<local, user, cmp, left>>

\* ... or refuses it, asks for a confirmation, or cannot tell.
Refused(r) ==
    /\ At(r, "ask")
    /\ End(r, req[r].ev)
    /\ UNCHANGED <<local, user, cmp, left>>

StartLogout(r) ==
    /\ Free(r) /\ "logout" \in Operations
    /\ Spend("requests")
    /\ req' = [req EXCEPT ![r] = [NoRequest EXCEPT !.pc = "intend", !.op = "logout"]]
    /\ UNCHANGED <<local, user, cmp>>

StartReset(r) ==
    /\ Free(r) /\ "reset" \in Operations
    /\ Spend("requests")
    /\ req' = [req EXCEPT ![r] = [NoRequest EXCEPT !.pc = "intend", !.op = "reset"]]
    /\ UNCHANGED <<local, user, cmp>>

\* ChangePassword by a live session (its Use is module Sessions').
StartPassword(r) ==
    /\ Free(r) /\ "password" \in Operations
    /\ Spend("requests")
    /\ \E h \in live :
         req' = [req EXCEPT ![r] = [NoRequest EXCEPT !.pc = "intend",
                                      !.op = "password", !.keep = h]]
    /\ UNCHANGED <<local, user, cmp>>

AfterIntent == [status |-> "set", logout |-> "change",
                reset |-> "delete", password |-> "setpw"]

\* A tightening's intent, before anything is changed.
Intend(r) ==
    /\ At(r, "intend")
    /\ req' = [req EXCEPT ![r].pc = AfterIntent[req[r].op], ![r].ev = "intent"]
    /\ UNCHANGED <<local, user, cmp, left>>

\* The intent could not be sealed: the change goes on without one.
Unsealed(r) ==
    /\ At(r, "intend")
    /\ Spend("faults")
    /\ req' = [req EXCEPT ![r].pc = AfterIntent[req[r].op], ![r].ev = "unsealed"]
    /\ UNCHANGED <<local, user, cmp>>

\* Mutant of Fence: local_change_at is written by SetStatus only.
FenceNotWritten(r) ==
    /\ At(r, "fence")
    /\ req' = [req EXCEPT ![r].pc = "read", ![r].then = "set"]
    /\ UNCHANGED <<local, user, cmp, left>>

\* An enable keeps the comparison off the status before Casdoor is asked.
Fence(r) ==
    /\ At(r, "fence")
    /\ since' = 0
    /\ req' = [req EXCEPT ![r].pc = "read", ![r].then = "set"]
    /\ UNCHANGED <<row, record, kept, live, user, cmp, left, owed>>

\* SetForbidden: the whole user is read ...
ReadUser(r) ==
    /\ At(r, "read") /\ user # Gone
    /\ req' = [req EXCEPT ![r].pc = "write", ![r].copy = user]
    /\ UNCHANGED <<local, user, cmp, left>>

\* ... and sent back with isForbidden set.
WriteUser(r) ==
    /\ At(r, "write") /\ user # Gone
    /\ user' = Written(req[r].copy, req[r].target # "active")
    /\ IF req[r].then = "set" THEN Goto(r, "set") ELSE End(r, req[r].ev)
    /\ UNCHANGED <<local, cmp, left>>

\* Casdoor has no such user any more.
NoUser(r) ==
    /\ req[r].pc \in {"read", "write", "setpw", "delete", "readback"}
    /\ user = Gone
    /\ End(r, req[r].ev)
    /\ UNCHANGED <<local, user, cmp, left>>

\* Mutant of Fresh: the version is not compared.
FreshAlways(r) == TRUE

\* The row has the version the authorization member was asked about.
Fresh(r) == row.version = req[r].seen.version

\* The status change, on that version ...
SetStatus(r) ==
    LET to == req[r].target
        evidence == IF req[r].ev = "unsealed" THEN None ELSE r
    IN  /\ At(r, "set") /\ Fresh(r)
        /\ ChangeEv(WithStatus(row, to, req[r].mark), {}, req[r].confirmation, evidence)
        /\ since' = 0
        /\ kept' = [status |-> to, source |-> "adapter", version |-> row.version + 1]
        /\ IF to = "active"
           THEN End(r, Concluded(req[r].ev))
           ELSE req' = [req EXCEPT ![r].pc = "read", ![r].then = "end",
                                   ![r].ev = Concluded(@)]
        /\ UNCHANGED <<user, cmp, left>>

\* ... or none: the row has changed meanwhile.
StaleStatus(r) ==
    /\ At(r, "set") /\ ~Fresh(r)
    /\ End(r, req[r].ev)
    /\ UNCHANGED <<local, user, cmp, left>>

\* A forced logout's or a password change's security change; a forced logout
\* then ends Casdoor's own sessions, which changes nothing modelled here.
SecurityChange(r) ==
    /\ At(r, "change")
    /\ ChangeEv(row, {req[r].keep}, None, None)
    /\ IF req[r].op = "logout"
       THEN End(r, Concluded(req[r].ev))
       ELSE req' = [req EXCEPT ![r].pc = "readback", ![r].ev = Concluded(@)]
    /\ UNCHANGED <<since, kept, user, cmp, left>>

SetPassword(r) ==
    /\ At(r, "setpw") /\ user # Gone
    /\ NewPassword
    /\ Goto(r, "change")
    /\ UNCHANGED <<row, since, record, kept, live, cmp, left>>

\* The old password is wrong.
RefusedPassword(r) ==
    /\ At(r, "setpw")
    /\ End(r, req[r].ev)
    /\ UNCHANGED <<local, user, cmp, left>>

DeleteFactors(r) ==
    /\ At(r, "delete") /\ user # Gone
    /\ user' = [user EXCEPT !.factors = NoFactors]
    /\ Goto(r, "readback")
    /\ UNCHANGED <<local, cmp, left>>

\* The user as it is now, for the comparison's baseline.
ReadBack(r) ==
    /\ At(r, "readback") /\ user # Gone
    /\ req' = [req EXCEPT ![r].pc = IF req[r].op = "reset" THEN "reset" ELSE "baseline",
                          ![r].copy = user]
    /\ UNCHANGED <<local, user, cmp, left>>

\* BaselinePassword, when the comparison has a baseline at all.
Baseline(r) ==
    /\ At(r, "baseline")
    /\ row' = [row EXCEPT !.password = IF @ = None THEN None ELSE req[r].copy.password]
    /\ End(r, req[r].ev)
    /\ UNCHANGED <<since, record, kept, live, user, cmp, left, owed>>

ResetFactors(r) ==
    /\ At(r, "reset")
    /\ ChangeEv([row EXCEPT !.factors = IF @ = None THEN None ELSE req[r].copy.factors],
                {}, None, None)
    /\ End(r, Concluded(req[r].ev))
    /\ UNCHANGED <<since, kept, user, cmp, left>>

\* A call fails before it takes effect: the handler answers the error.
Fail(r) ==
    /\ Running(req[r])
    /\ Spend("faults")
    /\ End(r, req[r].ev)
    /\ UNCHANGED <<local, user, cmp>>

\* A call to Casdoor takes effect and its answer is lost.
CallLost(r) ==
    /\ Spend("faults")
    /\ user # Gone
    /\ \/ /\ At(r, "write")
          /\ user' = Written(req[r].copy, req[r].target # "active")
          /\ UNCHANGED owed
       \/ /\ At(r, "setpw")
          /\ NewPassword
       \/ /\ At(r, "delete")
          /\ user' = [user EXCEPT !.factors = NoFactors]
          /\ UNCHANGED owed
    /\ \/ End(r, req[r].ev)
       \/ ~At(r, "setpw") /\ UNCHANGED req \* idempotent: sent again
    /\ UNCHANGED <<row, since, record, kept, live, cmp>>

\* The process dies: an open intent stays open.
Crash(r) ==
    /\ Running(req[r])
    /\ Spend("faults")
    /\ req' = [req EXCEPT ![r] = [NoRequest EXCEPT !.pc = "crashed", !.ev = req[r].ev]]
    /\ UNCHANGED <<local, user, cmp>>
-----------------------------------------------------------------------------
(* The comparisons.                                                        *)

Step(c, pc) == cmp[c].pc = pc
\* A comparison ends (normally, with an error, or with its process).
Stop(c, pc, ev) == cmp' = [cmp EXCEPT ![c] = [NoComparison EXCEPT !.pc = pc, !.ev = ev]]

\* The job's turn, or a pull; readAt is taken before anything is read.
BeginCompare(c) ==
    /\ ~Running(cmp[c])
    /\ cmp' = [cmp EXCEPT ![c] = [NoComparison EXCEPT !.pc = "list"]]
    /\ UNCHANGED <<local, user, req, left>>

\* Casdoor's users are listed.
List(c) ==
    /\ Step(c, "list")
    /\ cmp' = [cmp EXCEPT ![c].pc = "look", ![c].u = user]
    /\ UNCHANGED <<local, user, req, left>>

\* Mutant of NeedsIntent: a deleted user's disablement is forgotten.
NeedsIntentForbidden(c) == cmp[c].u.forbidden /\ row.status = "active"

NeedsIntent(c) == Off(cmp[c].u) /\ row.status = "active"

\* The status, read without a lock: a console disablement's intent is written first.
ConsoleIntent(c) ==
    /\ Step(c, "look")
    /\ cmp' = [cmp EXCEPT ![c].pc = "compare",
                          ![c].ev = IF NeedsIntent(c) THEN "intent" ELSE "none"]
    /\ UNCHANGED <<local, user, req, left>>

UnsealedIntent(c) ==
    /\ Step(c, "look") /\ NeedsIntent(c)
    /\ Spend("faults")
    /\ cmp' = [cmp EXCEPT ![c].pc = "compare", ![c].ev = "unsealed"]
    /\ UNCHANGED <<local, user, req>>

\* The comparison's transaction, then the settlement of its intent.
Compare(c) ==
    LET u == cmp[c].u
        reason == CompareReason(row, u, Recent(c))
        rollback == SeesRollback(row, u, Recent(c))
        evidence == IF cmp[c].ev = "intent" THEN c ELSE None
        after == ComparedRow(row, u, Recent(c), evidence)
    IN  /\ Step(c, "compare")
        /\ row' = after
        /\ IF reason = "none"
           THEN UNCHANGED <<record, live, owed>>
           ELSE record' = RecordOf(after) /\ live' = {} /\ owed' = FALSE
        /\ kept' = IF reason = "disabled"
                   THEN [status |-> "disabled", source |-> "console", version |-> after.version]
                   ELSE IF rollback
                   THEN [status |-> row.status, source |-> "rollback", version |-> row.version]
                   ELSE kept
        /\ \E e \in IF reason = "disabled" THEN {Concluded(cmp[c].ev)} ELSE Settled(cmp[c].ev) :
             cmp' = [cmp EXCEPT
               ![c].pc = IF rollback THEN "read" ELSE "done",
               ![c].ev = e,
               ![c].skipped = Recent(c) /\ ((row.status = "active") = Off(u))]
        /\ UNCHANGED <<since, user, req, left>>

\* A rollback: the user is forbidden again, by the same SetForbidden.
RollbackRead(c) ==
    /\ Step(c, "read") /\ user # Gone
    /\ cmp' = [cmp EXCEPT ![c].pc = "write", ![c].copy = user]
    /\ UNCHANGED <<local, user, req, left>>

RollbackWrite(c) ==
    /\ Step(c, "write") /\ user # Gone
    /\ user' = Written(cmp[c].copy, TRUE)
    /\ cmp' = [cmp EXCEPT ![c].pc = "done"]
    /\ UNCHANGED <<local, req, left>>

RollbackNoUser(c) ==
    /\ cmp[c].pc \in {"read", "write"} /\ user = Gone
    /\ Stop(c, "idle", cmp[c].ev)
    /\ UNCHANGED <<local, user, req, left>>

\* Every account compared: a pull's echo is written; the job just ends.
Echo(c) ==
    /\ Step(c, "done")
    /\ Stop(c, "idle", cmp[c].ev)
    /\ UNCHANGED <<local, user, req, left>>

\* A call fails: no echo, the rest is left for the next run.
FailCompare(c) ==
    /\ Running(cmp[c])
    /\ Spend("faults")
    /\ \E e \in IF Step(c, "compare") THEN Settled(cmp[c].ev) ELSE {cmp[c].ev} :
         Stop(c, "idle", e)
    /\ UNCHANGED <<local, user, req>>

\* The rollback's write takes effect and its answer is lost.
RollbackLost(c) ==
    /\ Step(c, "write") /\ user # Gone
    /\ Spend("faults")
    /\ user' = Written(cmp[c].copy, TRUE)
    /\ Stop(c, "idle", cmp[c].ev) \/ UNCHANGED cmp
    /\ UNCHANGED <<local, req>>

CrashCompare(c) ==
    /\ Running(cmp[c])
    /\ Spend("faults")
    /\ Stop(c, "crashed", cmp[c].ev)
    /\ UNCHANGED <<local, user, req>>
-----------------------------------------------------------------------------
(* Casdoor's console, and time.                                            *)

ConsoleEdit(edit) ==
    /\ user # Gone
    /\ Spend("edits")
    /\ \/ edit = "password" /\ NewPassword
       \/ /\ \/ edit = "forbid" /\ user' = [user EXCEPT !.forbidden = TRUE]
             \/ edit = "allow" /\ user' = [user EXCEPT !.forbidden = FALSE]
             \/ edit = "delete" /\ user' = [user EXCEPT !.deleted = TRUE]
             \/ edit = "remove" /\ user' = Gone
             \/ edit = "factors" /\ \E f \in Factors : user' = [user EXCEPT !.factors = f]
          /\ user' # user
          /\ UNCHANGED owed
    /\ UNCHANGED <<row, since, record, kept, live, req, cmp>>

Tick ==
    /\ \A r \in Requests : Running(req[r]) => req[r].age < Deadline
    /\ \A c \in Comparisons : Running(cmp[c]) => cmp[c].age < Timeout
    /\ since' = IF since < Old THEN since + 1 ELSE Old
    /\ req' = [r \in Requests |->
                 IF Running(req[r]) THEN [req[r] EXCEPT !.age = @ + 1] ELSE req[r]]
    /\ cmp' = [c \in Comparisons |->
                 IF Running(cmp[c]) THEN [cmp[c] EXCEPT !.age = @ + 1] ELSE cmp[c]]
    /\ UNCHANGED <<row, record, kept, live, user, left, owed>>
-----------------------------------------------------------------------------
StartRequest(r) ==
    StartStatus(r) \/ StartLogout(r) \/ StartReset(r) \/ StartPassword(r)

RequestStep(r) ==
    \/ Allowed(r) \/ Refused(r) \/ Intend(r) \/ Fence(r) \/ ReadUser(r)
    \/ WriteUser(r) \/ NoUser(r) \/ SetStatus(r) \/ StaleStatus(r)
    \/ SecurityChange(r) \/ SetPassword(r) \/ RefusedPassword(r)
    \/ DeleteFactors(r) \/ ReadBack(r) \/ Baseline(r) \/ ResetFactors(r)

RequestFault(r) == Unsealed(r) \/ Fail(r) \/ CallLost(r) \/ Crash(r)

CompareStep(c) ==
    \/ BeginCompare(c) \/ List(c) \/ ConsoleIntent(c) \/ Compare(c)
    \/ RollbackRead(c) \/ RollbackWrite(c) \/ RollbackNoUser(c) \/ Echo(c)

CompareFault(c) ==
    UnsealedIntent(c) \/ FailCompare(c) \/ RollbackLost(c) \/ CrashCompare(c)

Next ==
    \/ \E r \in Requests : StartRequest(r) \/ RequestStep(r) \/ RequestFault(r)
    \/ \E c \in Comparisons : CompareStep(c) \/ CompareFault(c)
    \/ \E edit \in Edits : ConsoleEdit(edit)
    \/ Tick

Spec == Init /\ [][Next]_vars

\* A handler that runs goes on, the job is retried without limit, time passes.
Fairness ==
    /\ \A r \in Requests : WF_vars(RequestStep(r))
    /\ \A c \in Comparisons : WF_vars(CompareStep(c))
    /\ WF_vars(Tick)

FairSpec == Spec /\ Fairness
-----------------------------------------------------------------------------
(* Invariants.                                                             *)

\* Every variable has its type: row and record those of the tables, the
\* budgets never below zero, a running handler's age within its deadline.
TypeOK ==
    /\ row \in Row
    /\ since \in 0 .. Old
    /\ record \in StatusRecord
    /\ kept \in Evidence
    /\ live \subseteq Sessions
    /\ user \in User
    /\ req \in [Requests -> Request]
    /\ cmp \in [Comparisons -> Comparison]
    /\ left \in [requests : Nat, edits : Nat, faults : Nat]
    /\ owed \in BOOLEAN
    /\ \A r \in Requests : req[r].age <= Deadline
    /\ \A c \in Comparisons : cmp[c].age <= Timeout

\* The status record that went out last is the row's: no transaction changes
\* what the record carries without publishing it, and no later transaction of
\* another handler leaves an older one out (store.go changeEv, status, Compare).
PublishedIsRow == record = RecordOf(row)

\* The version pins the status: as long as the row has the version on which
\* the authorization member was asked, it has the status and the mark it was
\* asked about, whatever comparisons and other requests did meanwhile
\* (StatusHTTP's checkChange, SetStatus's refusal of a stale version).
AskedOnThisRow ==
    \A r \in Requests : req[r].seen.version = row.version => req[r].seen = Seen

\* The latest evidence of a status is of the status the account has, at a
\* version it has had: a comparison that saw a rollback records the status it
\* found under the row lock, not one from before (store.go statusEvidence).
EvidenceIsOfThisStatus == kept.status = row.status /\ kept.version <= row.version

\* A comparison about to take in a console disablement has its intent (or
\* could not seal one): the status ConsoleIntent read without a lock can have
\* become active since only by a change the comparison then leaves alone.
DisablementHasIntent ==
    \A c \in Comparisons :
        cmp[c].pc = "compare" /\ TakesDisablement(row, cmp[c].u, Recent(c))
            => cmp[c].ev \in {"intent", "unsealed"}

\* An enable between its fence and its commit: Casdoor may already allow what
\* is still disabled here.
Enabling(r) ==
    req[r].op = "status" /\ req[r].target = "active" /\ req[r].then = "set"
        /\ req[r].pc \in {"read", "write", "set"}

\* While an enable is between its fence and its commit, no comparison judges
\* the account's status, however old its user list is: it neither forbids
\* again what the enable allows nor takes the old state for a console change.
NoVerdictOnEnable ==
    \A r \in Requests, c \in Comparisons :
        Enabling(r) /\ cmp[c].pc = "compare" => Recent(c)
-----------------------------------------------------------------------------
(* Action properties.                                                      *)

\* A confirmation or an evidence record goes out with the change it belongs to
\* and with no other: a published record that names one is of a step that set
\* that status, and the next change of another kind clears both (A134, 09a).
NamesItsOwnChange ==
    [][ record' # record =>
          /\ record'.version = record.version + 1
          /\ (record'.evidence # None \/ record'.confirmation # None)
                => \E p \in Requests \union Comparisons :
                     /\ record'.evidence \in {None, p}
                     /\ kept' = [status |-> record'.status, version |-> record'.version,
                                 source |-> IF p \in Requests THEN "adapter" ELSE "console"]
      ]_vars

\* A handler's intent is concluded effective by the very step that makes its
\* change and by no other, whoever else changes the row meanwhile, and what took
\* effect is not cancelled when a later call of the handler fails (evidence.go
\* Effective and Settle, deferred before the first call).
ConcludedOnce(before, after, changed) ==
    /\ Running(before) /\ before.ev = "effective" => after.ev = "effective"
    /\ Running(before) /\ before.ev = "intent" /\ after # before
          => (after.ev = "effective" <=> changed)
Disables == kept' # kept /\ kept'.source = "console"
IntentsConcludedOnce ==
    [][ /\ \A r \in Requests :
             ConcludedOnce(req[r], req'[r], row'.version # row.version)
        /\ \A c \in Comparisons : ConcludedOnce(cmp[c], cmp'[c], Disables) ]_vars

\* What this member wrote to Casdoor is never taken for a console's change: until
\* the console changes something or a call fails, no comparison takes in a
\* disablement or sees a rollback, however old its user list is (InFlight).
Undisturbed == left.edits = MaxEdits /\ left.faults = MaxFaults
OwnWriteIsNoConsoleChange ==
    [][ kept' # kept /\ Undisturbed => kept'.source # "console" ]_vars
OwnWriteIsNoRollback ==
    [][ kept' # kept /\ Undisturbed => kept'.source # "rollback" ]_vars

\* A password change in Casdoor after the first comparison, by the console or
\* by a ChangePassword that failed half way, stays visible to the next one until
\* a security change followed it: no operation takes it for a baseline
\* (sessions.go ownPassword, store.go ResetFactors and Compare).
NeverAMissedChange == owed => row.password # user.password

\* A pull's echo is written only after the account's status was compared.
EchoCoversTheStatus ==
    [][ \A c \in Pulls : cmp[c].pc = "done" /\ cmp'[c].pc = "idle"
                            => ~cmp[c].skipped ]_vars

\* AccountPromises: a request relies on what it saw of the account until it
\* returns; only a request of a status is one of the promises' (StatusHTTP,
\* SetStatus).
Relied == [r \in Requests |->
    IF Running(req[r]) /\ req[r].op = "status" THEN req[r].seen ELSE NoRequest.seen]
Promises == INSTANCE AccountPromises WITH
    account <- Seen, evidence <- kept, relied <- Relied, Nothing <- NoRequest.seen
Promised == Promises!Spec
-----------------------------------------------------------------------------
(* Liveness.                                                               *)

\* Once requests, console edits and faults stop, Casdoor comes to agree with
\* this member and stays so: it lets in the account exactly when it is active.
Agreement == <>[]((row.status = "active") <=> ~Off(user))

\* Every password change in Casdoor after the first comparison is followed by a
\* security change, whatever became of the request that made it: if ChangePassword
\* fails after Casdoor's part, a comparison finds the change.
PasswordChangeCounted == owed ~> ~owed
=============================================================================
