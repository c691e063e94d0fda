---------------------------- MODULE AccountPromises ----------------------------
(***************************************************************************)
(* What the member promises of one account to those who rely on it: the    *)
(* subscribers of its status records, the authorization member that allows *)
(* a status change, the auditor who reads the evidence.  A status moves    *)
(* with the version, in one step with its record, the end of the sessions  *)
(* and its evidence; a request moves it only from the very account it saw  *)
(* when the authorization member was asked; a comparison only takes in a   *)
(* disablement; every other change of the version leaves the status and    *)
(* names nobody.  Module AccountOperations implements it.                  *)
(***************************************************************************)
EXTENDS Naturals

CONSTANTS
    None,
    Requests, Comparisons, Sessions, Confirmations,
    Statuses, Marks,
    Nothing      \* what a request that does not run relies on

VARIABLES
    account,     \* the status in force: [status, mark, version]
    record,      \* the record that went out last
    evidence,    \* the latest evidence of the status
    live,        \* the sessions that have not ended
    relied       \* the account each request has seen and relies on

vars == <<account, record, evidence, live, relied>>

Init ==
    /\ account = [status |-> "active", mark |-> "none", version |-> 1]
    /\ record = [status |-> "active", mark |-> "none", version |-> 1,
                 confirmation |-> None, evidence |-> None]
    /\ evidence = [status |-> "active", source |-> "none", version |-> 0]
    /\ live = Sessions
    /\ relied = [r \in Requests |-> Nothing]

\* A change of the account: the version, the record and the sessions move at
\* one stroke.
Move(status, mark, confirmation, writer, keep) ==
    LET version == account.version + 1
    IN  /\ account' = [status |-> status, mark |-> mark, version |-> version]
        /\ record' = [status |-> status, mark |-> mark, version |-> version,
                      confirmation |-> confirmation, evidence |-> writer]
        /\ live' = live \intersect keep

\* The evidence of a status and who brought it.
Witnessed(status, source, version) ==
    evidence' = [status |-> status, source |-> source, version |-> version]

\* A request relies on the account as it is, once, or no more on anything.
Rely(r) ==
    /\ relied[r] = Nothing
    /\ relied' = [relied EXCEPT ![r] = account]
    /\ UNCHANGED <<account, record, evidence, live>>
Return(r) ==
    /\ relied' = [relied EXCEPT ![r] = Nothing]
    /\ UNCHANGED <<account, record, evidence, live>>

\* A requested status, from the account that was relied on and no other.
Order(r, status, mark, confirmation) ==
    /\ relied[r] = account
    /\ \E writer \in {None, r} : Move(status, mark, confirmation, writer, {})
    /\ Witnessed(status, "adapter", account.version + 1)
    /\ relied' \in {relied, [relied EXCEPT ![r] = Nothing]}

\* Casdoor's disablement is taken in; its enablement only witnessed.
TakeIn(c) ==
    /\ account.status = "active"
    /\ \E writer \in {None, c} : Move("disabled", account.mark, None, writer, {})
    /\ Witnessed("disabled", "console", account.version + 1)
    /\ UNCHANGED relied
Witness ==
    /\ account.status # "active"
    /\ Witnessed(account.status, "rollback", account.version)
    /\ UNCHANGED <<account, record, live, relied>>

\* A security change of another kind: at most one session outlives it.
Secure(keep) ==
    /\ Move(account.status, account.mark, None, None, keep)
    /\ UNCHANGED <<evidence, relied>>

Next ==
    \/ \E r \in Requests :
         \/ Rely(r) \/ Return(r)
         \/ \E status \in Statuses, mark \in Marks, confirmation \in Confirmations \union {None} :
              Order(r, status, mark, confirmation)
    \/ \E c \in Comparisons : TakeIn(c)
    \/ Witness
    \/ \E keep \in {{}} \union {{s} : s \in Sessions} : Secure(keep)

Spec == Init /\ [][Next]_vars
=============================================================================
