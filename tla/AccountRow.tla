----------------------------- MODULE AccountRow -----------------------------
(***************************************************************************)
(* The data of one account and what one database transaction computes from *)
(* it: the iam_account row of this member, the user as Casdoor has it, the *)
(* status record published for the row, and the decision of a comparison.  *)
(* No variables: AccountOperations gives these operators their actions.    *)
(*                                                                         *)
(* Abstractions.  A password is its change stamp (Casdoor's                *)
(* lastChangePasswordTime), a natural number that grows with every change; *)
(* the second factors' digest is a member of Factors.  product_forbidden,  *)
(* product_updated and product_seen_at are left out: only whether          *)
(* product_forbidden is NULL is ever read, and it stops being NULL in the  *)
(* same UPDATE as the two baselines kept here.                             *)
(***************************************************************************)
EXTENDS Naturals

CONSTANTS
    None,           \* a NULL column, an empty string
    Confirmations,  \* confirmations of protected changes
    Writers,        \* identities of evidence records: the operation that wrote one
    Factors,        \* digests of the second factors' state
    NoFactors       \* the digest of a user without second factors

ASSUME NoFactorsAssumption == NoFactors \in Factors
ASSUME NoneAssumption == None \notin Nat /\ None \notin Factors

Statuses == {"active", "disabled", "security_frozen"}
Marks == {"none", "compromised", "suspicious"}

Row == [status : Statuses, mark : Marks, version : Nat \ {0},
        confirmation : Confirmations \union {None},
        evidence : Writers \union {None},
        password : Nat \union {None}, factors : Factors \union {None}]

StatusRecord == [status : Statuses, mark : Marks, version : Nat \ {0},
                 confirmation : Confirmations \union {None},
                 evidence : Writers \union {None}]

User == [forbidden : BOOLEAN, deleted : BOOLEAN, password : Nat,
         factors : Factors]

\* A user Casdoor no longer lists: what the comparison takes in its place.
Gone == [forbidden |-> FALSE, deleted |-> TRUE, password |-> 0,
         factors |-> NoFactors]

\* Casdoor refuses the user's sign-in.
Off(u) == u.forbidden \/ u.deleted

\* Mutant of NewRow: the version's column has no default of its own.
NewRowUnversioned == [status |-> "active", mark |-> "none", version |-> 0,
                      confirmation |-> None, evidence |-> None,
                      password |-> None, factors |-> None]

\* A row as the first sign-in inserts it: never compared.
NewRow == [status |-> "active", mark |-> "none", version |-> 1,
           confirmation |-> None, evidence |-> None,
           password |-> None, factors |-> None]

\* The status record published for row r.
RecordOf(r) == [status |-> r.status, mark |-> r.mark, version |-> r.version,
                confirmation |-> r.confirmation, evidence |-> r.evidence]

\* Mutants of Changed: the two arguments swapped; the version forgotten; a
\* confirmation and an evidence record kept when the change has none.
ChangedSwapped(r, confirmation, evidence) ==
    [r EXCEPT !.version = @ + 1, !.confirmation = evidence,
              !.evidence = confirmation]
ChangedInPlace(r, confirmation, evidence) ==
    [r EXCEPT !.confirmation = confirmation, !.evidence = evidence]
ChangedCoalesced(r, confirmation, evidence) ==
    [r EXCEPT !.version = @ + 1,
              !.confirmation = IF confirmation = None THEN @ ELSE confirmation,
              !.evidence = IF evidence = None THEN @ ELSE evidence]

\* One security change of row r: the version up, the confirmation and the
\* evidence record those of this change and of no other.
Changed(r, confirmation, evidence) ==
    [r EXCEPT !.version = @ + 1, !.confirmation = confirmation,
              !.evidence = evidence]

\* The row with a status set by a request.
WithStatus(r, status, mark) == [r EXCEPT !.status = status, !.mark = mark]
-----------------------------------------------------------------------------
(* The comparison of row r with Casdoor's user u; recent: this member      *)
(* changed (or fenced) the status too shortly before u was read.           *)

\* Mutant of TakesDisablement: a user that was deleted is forgotten.
TakesForbiddenOnly(r, u, recent) ==
    ~recent /\ r.status = "active" /\ u.forbidden

\* Refused there, active here: a console disablement.
TakesDisablement(r, u, recent) == ~recent /\ r.status = "active" /\ Off(u)

\* Allowed there, not active here: a rollback or a console re-enable.
SeesRollback(r, u, recent) == ~recent /\ r.status # "active" /\ ~Off(u)

\* Mutant of PasswordChanged: times one second apart are taken for the same.
PasswordChangedLater(r, u) == r.password # None /\ u.password > r.password + 1

PasswordChanged(r, u) == r.password # None /\ r.password # u.password

FactorsChanged(r, u) == r.factors # None /\ r.factors # u.factors

\* The reason of the security change the comparison makes, if it makes one.
CompareReason(r, u, recent) ==
    IF TakesDisablement(r, u, recent) THEN "disabled"
    ELSE IF SeesRollback(r, u, recent) THEN "none"
    ELSE IF PasswordChanged(r, u) THEN "password"
    ELSE IF FactorsChanged(r, u) THEN "second_factor"
    ELSE "none"

\* What the comparison saw becomes the next one's baseline, whatever it found.
Baselined(r, u) == [r EXCEPT !.password = u.password, !.factors = u.factors]

\* Mutant of ComparedRow: the console disablement's status is not written.
ComparedRowNoStatus(r, u, recent, evidence) ==
    LET reason == CompareReason(r, u, recent)
        seen == Baselined(r, u)
    IN  IF reason = "none" THEN seen
        ELSE Changed(seen, None, IF reason = "disabled" THEN evidence ELSE None)

\* The row the comparison leaves; evidence: the intent of a console disablement.
ComparedRow(r, u, recent, evidence) ==
    LET reason == CompareReason(r, u, recent)
        seen == Baselined(r, u)
    IN  IF reason = "none" THEN seen
        ELSE IF reason = "disabled"
        THEN Changed([seen EXCEPT !.status = "disabled"], None, evidence)
        ELSE Changed(seen, None, None)
=============================================================================
