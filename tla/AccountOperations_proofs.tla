----------------------- MODULE AccountOperations_proofs -----------------------
(***************************************************************************)
(* The invariants and step properties of AccountOperations, for any number *)
(* of requests, comparisons, sessions and edits.                           *)
(***************************************************************************)
EXTENDS AccountOperations, AccountRow_proofs

-----------------------------------------------------------------------------
(* The handlers' records.                                                  *)

\* An idle handler is a request record.
LEMMA NoRequestType ==
    NoRequest \in Request /\ NoRequest.age = 0 /\ NoRequest.ev = "none"
  BY NewRowType DEF NoRequest, Request, RequestSteps, AllOperations, Statuses,
     Marks, Account, Phases

\* A handler that returns, and one whose process dies, leave a request record.
LEMMA IdleRequest ==
    ASSUME NEW ev \in Phases
    PROVE  /\ Settled(ev) \subseteq Phases /\ Concluded(ev) \in Phases
           /\ LET idle == [NoRequest EXCEPT !.ev = ev]
              IN  idle \in Request /\ idle.age = 0
           /\ LET crashed == [NoRequest EXCEPT !.pc = "crashed", !.ev = ev]
              IN  crashed \in Request /\ crashed.age = 0
  BY NoRequestType, ZenonT(60) DEF NoRequest, Request, RequestSteps, Phases, Settled, Concluded

\* The same for a comparison.
LEMMA IdleComparison ==
    ASSUME NEW ev \in Phases, NEW pc \in {"idle", "crashed", "list"}
    PROVE  /\ NoComparison \in Comparison /\ NoComparison.age = 0
           /\ [NoComparison EXCEPT !.pc = pc, !.ev = ev] \in Comparison
           /\ [NoComparison EXCEPT !.pc = "list"] \in Comparison
  BY NewRowType DEF NoComparison, Comparison, ComparisonSteps, Phases

\* update-user leaves a user.
LEMMA WrittenType ==
    ASSUME user \in User, NEW copy \in User, NEW forbidden \in BOOLEAN
    PROVE  Written(copy, forbidden) \in User
  BY DEF User, Written

\* A security change's transaction keeps the types.
LEMMA ChangeEvType ==
    ASSUME TypeOK, NEW r \in Row, NEW keep, NEW k \in Confirmations \union {None},
           NEW e \in Writers \union {None}, ChangeEv(r, keep, k, e)
    PROVE  row' \in Row /\ record' \in StatusRecord /\ live' \subseteq Sessions
           /\ owed' \in BOOLEAN
  BY ChangedRow, RecordType DEF ChangeEv, TypeOK
-----------------------------------------------------------------------------
(* Types.                                                                  *)

\* The request's record may be replaced by any request of no greater age.
LEMMA RequestUpdate ==
    ASSUME TypeOK, NEW r \in Requests, NEW p \in Request, p.age <= Deadline,
           req' = [req EXCEPT ![r] = p]
    PROVE  req' \in [Requests -> Request] /\ \A q \in Requests : req'[q].age <= Deadline
  BY DEF TypeOK

\* So may a comparison's.
LEMMA ComparisonUpdate ==
    ASSUME TypeOK, NEW c \in Comparisons, NEW p \in Comparison, p.age <= Timeout,
           cmp' = [cmp EXCEPT ![c] = p]
    PROVE  cmp' \in [Comparisons -> Comparison] /\ \A d \in Comparisons : cmp'[d].age <= Timeout
  BY DEF TypeOK

\* A handler that returns keeps the types of the requests.
LEMMA EndTypes ==
    ASSUME TypeOK, NEW r \in Requests, NEW ev \in Phases, End(r, ev)
    PROVE  req' \in [Requests -> Request] /\ \A q \in Requests : req'[q].age <= Deadline
<1>1. PICK e \in Settled(ev) : req' = [req EXCEPT ![r] = [NoRequest EXCEPT !.ev = e]]
  BY DEF End
<1> DEFINE p == [NoRequest EXCEPT !.ev = e]
<1>2. e \in Phases
  BY IdleRequest
<1>3. p \in Request /\ p.age = 0
  BY <1>2, IdleRequest
<1>4. p.age <= Deadline
  BY <1>3, TimeAssumption
<1> QED BY <1>1, <1>3, <1>4, RequestUpdate

\* A budget that is spent stays a budget.
LEMMA SpendType ==
    ASSUME TypeOK, NEW b \in {"requests", "edits", "faults"}, Spend(b)
    PROVE  left' \in [requests : Nat, edits : Nat, faults : Nat]
  BY DEF TypeOK, Spend

\* What a step leaves alone keeps its type.
LEMMA LocalTypes ==
    ASSUME TypeOK, UNCHANGED local
    PROVE  /\ row' \in Row /\ since' \in 0 .. Old /\ record' \in StatusRecord
           /\ kept' \in Evidence /\ live' \subseteq Sessions /\ owed' \in BOOLEAN
  BY DEF TypeOK, local

\* The requests' steps keep the types.
LEMMA RequestTypes ==
    ASSUME TypeOK, NEW r \in Requests,
           StartRequest(r) \/ RequestStep(r) \/ RequestFault(r)
    PROVE  TypeOK'
<1> DEFINE ReqOK == /\ req' \in [Requests -> Request]
                    /\ \A q \in Requests : req'[q].age <= Deadline
           CmpOK == /\ cmp' \in [Comparisons -> Comparison]
                    /\ \A c \in Comparisons : cmp'[c].age <= Timeout
           LocalOK == /\ row' \in Row /\ since' \in 0 .. Old /\ record' \in StatusRecord
                      /\ kept' \in Evidence /\ live' \subseteq Sessions /\ owed' \in BOOLEAN
           LeftOK == left' \in [requests : Nat, edits : Nat, faults : Nat]
<1> SUFFICES ReqOK /\ LocalOK /\ LeftOK /\ CmpOK /\ user' \in User
  BY DEF TypeOK
<1>0. /\ req[r] \in Request /\ req[r].ev \in Phases /\ req[r].copy \in User
      /\ req[r].age \in Nat /\ req[r].age <= Deadline /\ NoRequest.age <= Deadline
      /\ NoRequest \in Request /\ NoRequest.age = 0
  BY NoRequestType, TimeAssumption DEF TypeOK, Request
<1>a. CmpOK
  <2>1. UNCHANGED cmp
    BY DEF StartRequest, RequestStep, RequestFault, StartStatus, StartLogout,
       StartReset, StartPassword, Allowed, Refused, Intend, Fence, ReadUser,
       WriteUser, NoUser, SetStatus, StaleStatus, SecurityChange, SetPassword,
       RefusedPassword, DeleteFactors, ReadBack, Baseline, ResetFactors,
       Unsealed, Fail, CallLost, Crash
  <2> QED BY <2>1 DEF TypeOK
<1>b. ASSUME UNCHANGED <<local, user>> PROVE LocalOK /\ user' \in User
  BY <1>b, LocalTypes DEF TypeOK
<1>c. ASSUME UNCHANGED left PROVE LeftOK
  BY <1>c DEF TypeOK
<1> HIDE DEF ReqOK, CmpOK, LocalOK, LeftOK
<1>1. CASE StartStatus(r)
  <2>1. Seen \in Account
    BY DEF Seen, Account, Row, TypeOK
  <2>2. PICK target \in Targets, mark \in Asked \union {"none"},
             confirmation \in Confirmations \union {None}, already \in BOOLEAN :
          req' = [req EXCEPT ![r] =
                 [NoRequest EXCEPT !.pc = IF already THEN "read" ELSE "ask",
                    !.target = target, !.mark = mark,
                    !.confirmation = IF already THEN None ELSE confirmation,
                    !.seen = Seen]]
    BY <1>1 DEF StartStatus
  <2>3. target \in Statuses /\ mark \in Marks
    BY InputAssumption DEF Marks
  <2> DEFINE p == [NoRequest EXCEPT !.pc = IF already THEN "read" ELSE "ask",
                    !.target = target, !.mark = mark,
                    !.confirmation = IF already THEN None ELSE confirmation,
                    !.seen = Seen]
  <2>4. p \in Request /\ p.age <= Deadline
    BY <1>0, <2>1, <2>3, ZenonT(60) DEF Request, RequestSteps
  <2>5. ReqOK
    BY <2>2, <2>4, RequestUpdate DEF ReqOK
  <2> QED BY <1>1, <1>a, <1>b, <2>5, SpendType DEF StartStatus, LeftOK
<1>2. CASE StartLogout(r) \/ StartReset(r) \/ StartPassword(r)
  <2>1. PICK op \in AllOperations, h \in Sessions \union {None} :
          req' = [req EXCEPT ![r] = [NoRequest EXCEPT !.pc = "intend", !.op = op, !.keep = h]]
    <3>1. NoRequest.keep = None
      BY DEF NoRequest
    <3>2. live \subseteq Sessions
      BY DEF TypeOK
    <3>3. \A op \in AllOperations : [NoRequest EXCEPT !.pc = "intend", !.op = op]
             = [NoRequest EXCEPT !.pc = "intend", !.op = op, !.keep = None]
      BY <1>0, <3>1 DEF NoRequest
    <3> QED BY <1>2, <3>2, <3>3, ZenonT(60) DEF StartLogout, StartReset, StartPassword, AllOperations
  <2>2. LET p == [NoRequest EXCEPT !.pc = "intend", !.op = op, !.keep = h]
        IN  p \in Request /\ p.age <= Deadline
    BY <1>0 DEF Request, RequestSteps
  <2>3. ReqOK
    BY <2>1, <2>2, RequestUpdate DEF ReqOK
  <2> QED BY <1>2, <1>a, <1>b, <2>3, SpendType DEF StartLogout, StartReset, StartPassword, LeftOK
<1>3. CASE Allowed(r)
  <2>1. [req[r] EXCEPT !.pc = IF req[r].target = "active" THEN "fence" ELSE "intend"] \in Request
    BY <1>0 DEF Request, RequestSteps
  <2>2. [req[r] EXCEPT !.pc = IF req[r].target = "active" THEN "fence" ELSE "intend"].age <= Deadline
    BY <1>0 DEF Request
  <2>3. ReqOK
    BY <1>3, <2>1, <2>2, RequestUpdate DEF Allowed, Goto, ReqOK
  <2> QED BY <1>3, <1>a, <1>b, <1>c, <2>3 DEF Allowed
<1>4. CASE Refused(r) \/ StaleStatus(r) \/ RefusedPassword(r) \/ NoUser(r)
  <2>1. ReqOK
    BY <1>0, <1>4, EndTypes DEF Refused, StaleStatus, RefusedPassword, NoUser, ReqOK
  <2> QED BY <1>4, <1>a, <1>b, <1>c, <2>1 DEF Refused, StaleStatus, RefusedPassword, NoUser
<1>5. CASE Intend(r) \/ Unsealed(r)
  <2>1. PICK ev \in Phases : req' = [req EXCEPT ![r] =
          [req[r] EXCEPT !.pc = AfterIntent[req[r].op], !.ev = ev]]
    BY <1>5 DEF Intend, Unsealed, Phases
  <2>2. AfterIntent[req[r].op] \in RequestSteps
    BY <1>0 DEF Request, AllOperations, AfterIntent, RequestSteps
  <2> DEFINE p == [req[r] EXCEPT !.pc = AfterIntent[req[r].op], !.ev = ev]
  <2>3. p \in Request /\ p.age <= Deadline
    BY <1>0, <2>2 DEF Request
  <2>4. ReqOK
    BY <2>1, <2>3, RequestUpdate DEF ReqOK
  <2> QED BY <1>5, <1>a, <1>b, <1>c, <2>4, SpendType DEF Intend, Unsealed, LeftOK
<1>6. CASE Fence(r)
  <2> DEFINE p == [req[r] EXCEPT !.pc = "read", !.then = "set"]
  <2>1. p \in Request /\ p.age <= Deadline
    BY <1>0 DEF Request, RequestSteps
  <2>2. req' = [req EXCEPT ![r] = p]
    BY <1>6 DEF Fence
  <2>3. ReqOK
    BY <2>1, <2>2, RequestUpdate DEF ReqOK
  <2>4. LocalOK /\ user' \in User
    BY <1>6, TimeAssumption DEF Fence, LocalOK, TypeOK, Old
  <2> QED BY <1>6, <1>a, <1>c, <2>3, <2>4 DEF Fence
<1>7. CASE ReadUser(r) \/ ReadBack(r)
  <2>1. PICK pc \in RequestSteps : req' = [req EXCEPT ![r] =
          [req[r] EXCEPT !.pc = pc, !.copy = user]]
    BY <1>7, ZenonT(60) DEF ReadUser, ReadBack, RequestSteps
  <2> DEFINE p == [req[r] EXCEPT !.pc = pc, !.copy = user]
  <2>2. p \in Request /\ p.age <= Deadline
    BY <1>0 DEF Request, TypeOK
  <2>3. ReqOK
    BY <2>1, <2>2, RequestUpdate DEF ReqOK
  <2> QED BY <1>7, <1>a, <1>b, <1>c, <2>3 DEF ReadUser, ReadBack
<1>8. ASSUME NEW pc \in RequestSteps, Goto(r, pc) PROVE ReqOK
  <2> DEFINE p == [req[r] EXCEPT !.pc = pc]
  <2>1. p \in Request /\ p.age <= Deadline
    BY <1>0 DEF Request
  <2> QED BY <1>8, <2>1, RequestUpdate DEF Goto, ReqOK
<1>9. ASSUME NEW forbidden \in BOOLEAN, user' = Written(req[r].copy, forbidden)
      PROVE user' \in User
  BY <1>0, <1>9, WrittenType DEF TypeOK
<1>10. CASE WriteUser(r)
  <2>1. ReqOK
    BY <1>0, <1>8, <1>10, EndTypes DEF WriteUser, RequestSteps, ReqOK
  <2>2. LocalOK
    BY <1>10, LocalTypes DEF WriteUser, LocalOK
  <2> QED BY <1>9, <1>10, <1>a, <1>c, <2>1, <2>2 DEF WriteUser
<1>11. CASE SetStatus(r)
  <2> DEFINE to == req[r].target
             w == WithStatus(row, to, req[r].mark)
             e == IF req[r].ev = "unsealed" THEN None ELSE r
             p == [req[r] EXCEPT !.pc = "read", !.then = "end", !.ev = Concluded(req[r].ev)]
  <2>1. w \in Row
    BY <1>0, WithStatusRow DEF TypeOK, Request
  <2>2. e \in Writers \union {None} /\ req[r].confirmation \in Confirmations \union {None}
    BY <1>0, WritersAssumption DEF Request
  <2>3. ChangeEv(w, {}, req[r].confirmation, e)
    BY <1>11 DEF SetStatus
  <2>4. row' \in Row /\ record' \in StatusRecord /\ live' \subseteq Sessions /\ owed' \in BOOLEAN
    <3> HIDE DEF w, e
    <3> QED BY <2>1, <2>2, <2>3, ChangeEvType
  <2>5. since' \in 0 .. Old /\ kept' \in Evidence
    BY <1>0, <1>11, TimeAssumption DEF SetStatus, Old, Evidence, Request, TypeOK, Row
  <2>6. p \in Request /\ p.age <= Deadline
    BY <1>0, IdleRequest, ZenonT(60) DEF Request, RequestSteps
  <2>7. End(r, Concluded(req[r].ev)) \/ req' = [req EXCEPT ![r] = p]
    BY <1>11 DEF SetStatus
  <2>8. ReqOK
    BY <1>0, <2>6, <2>7, IdleRequest, EndTypes, RequestUpdate DEF ReqOK
  <2> QED BY <1>11, <1>a, <1>c, <2>4, <2>5, <2>8 DEF SetStatus, LocalOK, TypeOK
<1>12. CASE SecurityChange(r)
  <2> DEFINE p == [req[r] EXCEPT !.pc = "readback", !.ev = Concluded(req[r].ev)]
  <2>1. row' \in Row /\ record' \in StatusRecord /\ live' \subseteq Sessions /\ owed' \in BOOLEAN
    BY <1>12, ChangeEvType DEF SecurityChange, TypeOK
  <2>2. p \in Request /\ p.age <= Deadline
    BY <1>0, IdleRequest DEF Request, RequestSteps
  <2>3. End(r, Concluded(req[r].ev)) \/ req' = [req EXCEPT ![r] = p]
    BY <1>12 DEF SecurityChange
  <2>4. ReqOK
    BY <1>0, <2>2, <2>3, IdleRequest, EndTypes, RequestUpdate DEF ReqOK
  <2> QED BY <1>12, <1>a, <1>c, <2>1, <2>4 DEF SecurityChange, LocalOK, TypeOK
<1>13. ASSUME NewPassword PROVE user' \in User /\ owed' \in BOOLEAN
  BY <1>13 DEF NewPassword, TypeOK, User
<1>14. ASSUME user' = [user EXCEPT !.factors = NoFactors] PROVE user' \in User
  BY <1>14, NoFactorsAssumption DEF TypeOK, User
<1>15. CASE SetPassword(r)
  <2>1. ReqOK
    BY <1>8, <1>15 DEF SetPassword, RequestSteps
  <2> QED BY <1>13, <1>15, <1>a, <1>c, <2>1 DEF SetPassword, LocalOK, TypeOK
<1>16. CASE DeleteFactors(r)
  <2>1. ReqOK
    BY <1>8, <1>16 DEF DeleteFactors, RequestSteps
  <2>2. LocalOK
    BY <1>16, LocalTypes DEF DeleteFactors, LocalOK
  <2> QED BY <1>14, <1>16, <1>a, <1>c, <2>1, <2>2 DEF DeleteFactors
<1>17. CASE Baseline(r)
  <2>1. row' \in Row
    BY <1>0, <1>17 DEF Baseline, TypeOK, Row, User
  <2>2. ReqOK
    BY <1>0, <1>17, EndTypes DEF Baseline, ReqOK
  <2> QED BY <1>17, <1>a, <1>c, <2>1, <2>2 DEF Baseline, LocalOK, TypeOK
<1>18. CASE ResetFactors(r)
  <2> DEFINE w == [row EXCEPT !.factors = IF row.factors = None THEN None ELSE req[r].copy.factors]
  <2>1. w \in Row
    BY <1>0 DEF TypeOK, Row, User
  <2>2. ChangeEv(w, {}, None, None)
    BY <1>18 DEF ResetFactors
  <2>3. row' \in Row /\ record' \in StatusRecord /\ live' \subseteq Sessions /\ owed' \in BOOLEAN
    <3> HIDE DEF w
    <3> QED BY <2>1, <2>2, ChangeEvType
  <2>4. ReqOK
    BY <1>0, <1>18, IdleRequest, EndTypes DEF ResetFactors, ReqOK
  <2> QED BY <1>18, <1>a, <1>c, <2>3, <2>4 DEF ResetFactors, LocalOK, TypeOK
<1>19. CASE Fail(r) \/ Crash(r)
  <2> DEFINE p == [NoRequest EXCEPT !.pc = "crashed", !.ev = req[r].ev]
  <2>1. p \in Request /\ p.age <= Deadline
    BY <1>0, IdleRequest, TimeAssumption DEF Request
  <2>2. End(r, req[r].ev) \/ req' = [req EXCEPT ![r] = p]
    BY <1>19 DEF Fail, Crash
  <2>3. ReqOK
    BY <1>0, <2>1, <2>2, EndTypes, RequestUpdate DEF ReqOK
  <2> QED BY <1>19, <1>a, <1>b, <2>3, SpendType DEF Fail, Crash, LeftOK
<1>20. CASE CallLost(r)
  <2>1. ReqOK
    BY <1>0, <1>20, EndTypes DEF CallLost, ReqOK, TypeOK
  <2>2. user' \in User /\ owed' \in BOOLEAN
    BY <1>9, <1>13, <1>14, <1>20 DEF CallLost, TypeOK
  <2> QED BY <1>20, <1>a, <2>1, <2>2, SpendType DEF CallLost, LocalOK, LeftOK, TypeOK
<1> QED BY <1>1, <1>2, <1>3, <1>4, <1>5, <1>6, <1>7, <1>10, <1>11, <1>12, <1>15,
           <1>16, <1>17, <1>18, <1>19, <1>20 DEF StartRequest, RequestStep, RequestFault

\* A comparison that ends keeps the types of the comparisons.
LEMMA StopTypes ==
    ASSUME TypeOK, NEW c \in Comparisons, NEW pc \in {"idle", "crashed"},
           NEW ev \in Phases, Stop(c, pc, ev)
    PROVE  /\ cmp' \in [Comparisons -> Comparison]
           /\ \A d \in Comparisons : cmp'[d].age <= Timeout
<1> DEFINE p == [NoComparison EXCEPT !.pc = pc, !.ev = ev]
<1>1. p \in Comparison /\ p.age = 0
  BY IdleComparison DEF NoComparison
<1>2. p.age <= Timeout
  BY <1>1, TimeAssumption
<1> QED BY <1>1, <1>2, ComparisonUpdate DEF Stop

\* The comparisons' steps keep the types.
LEMMA ComparisonTypes ==
    ASSUME TypeOK, NEW c \in Comparisons, CompareStep(c) \/ CompareFault(c)
    PROVE  TypeOK'
<1> DEFINE CmpOK == /\ cmp' \in [Comparisons -> Comparison]
                    /\ \A d \in Comparisons : cmp'[d].age <= Timeout
           LocalOK == /\ row' \in Row /\ since' \in 0 .. Old /\ record' \in StatusRecord
                      /\ kept' \in Evidence /\ live' \subseteq Sessions /\ owed' \in BOOLEAN
           LeftOK == left' \in [requests : Nat, edits : Nat, faults : Nat]
<1> SUFFICES CmpOK /\ LocalOK /\ LeftOK /\ user' \in User /\ UNCHANGED req
  BY DEF TypeOK
<1>0. /\ cmp[c] \in Comparison /\ cmp[c].ev \in Phases /\ cmp[c].copy \in User
      /\ cmp[c].u \in User /\ cmp[c].age \in Nat /\ cmp[c].age <= Timeout
      /\ NoComparison \in Comparison
      /\ Settled(cmp[c].ev) \subseteq Phases /\ Concluded(cmp[c].ev) \in Phases
  BY IdleRequest, IdleComparison DEF TypeOK, Comparison
<1>a. UNCHANGED req
  BY DEF CompareStep, CompareFault, BeginCompare, List, ConsoleIntent, Compare,
     RollbackRead, RollbackWrite, RollbackNoUser, Echo, UnsealedIntent,
     FailCompare, RollbackLost, CrashCompare
<1>b. ASSUME UNCHANGED <<local, user>> PROVE LocalOK /\ user' \in User
  BY <1>b, LocalTypes DEF TypeOK
<1>c. ASSUME UNCHANGED left PROVE LeftOK
  BY <1>c DEF TypeOK
<1> HIDE DEF CmpOK, LocalOK, LeftOK
<1>1. CASE BeginCompare(c)
  <2> DEFINE p == [NoComparison EXCEPT !.pc = "list"]
  <2>1. p \in Comparison /\ p.age = 0
    BY NewRowType DEF NoComparison, Comparison, ComparisonSteps, Phases
  <2>2. p.age <= Timeout
    BY <2>1, TimeAssumption
  <2>3. CmpOK
    BY <1>1, <2>1, <2>2, ComparisonUpdate DEF BeginCompare, CmpOK
  <2> QED BY <1>1, <1>a, <1>b, <1>c, <2>3 DEF BeginCompare
<1>2. CASE List(c)
  <2> DEFINE p == [cmp[c] EXCEPT !.pc = "look", !.u = user]
  <2>1. p \in Comparison /\ p.age <= Timeout
    BY <1>0 DEF Comparison, ComparisonSteps, TypeOK
  <2>2. CmpOK
    BY <1>2, <2>1, ComparisonUpdate, ZenonT(60) DEF List, CmpOK
  <2> QED BY <1>2, <1>a, <1>b, <1>c, <2>2 DEF List
<1>3. CASE ConsoleIntent(c) \/ UnsealedIntent(c)
  <2>1. PICK ev \in Phases : cmp' = [cmp EXCEPT ![c] =
                                [cmp[c] EXCEPT !.pc = "compare", !.ev = ev]]
    BY <1>3 DEF ConsoleIntent, UnsealedIntent, Phases
  <2> DEFINE p == [cmp[c] EXCEPT !.pc = "compare", !.ev = ev]
  <2>2. p \in Comparison /\ p.age <= Timeout
    BY <1>0 DEF Comparison, ComparisonSteps
  <2>3. CmpOK
    BY <2>1, <2>2, ComparisonUpdate DEF CmpOK
  <2> QED BY <1>3, <1>a, <1>b, <1>c, <2>3, SpendType DEF ConsoleIntent, UnsealedIntent, LeftOK
<1>4. CASE Compare(c)
  <2> DEFINE u == cmp[c].u
             recent == Recent(c)
             e == IF cmp[c].ev = "intent" THEN c ELSE None
             after == ComparedRow(row, u, recent, e)
             reason == CompareReason(row, u, recent)
             rollback == SeesRollback(row, u, recent)
             skipped == Recent(c) /\ ((row.status = "active") = Off(u))
  <2>0. PICK ev \in Phases : cmp' = [cmp EXCEPT ![c].pc = IF rollback THEN "read" ELSE "done",
                                 ![c].ev = ev, ![c].skipped = skipped]
    BY <1>0, <1>4 DEF Compare
  <2> DEFINE p == [cmp[c] EXCEPT !.pc = IF rollback THEN "read" ELSE "done",
                                 !.ev = ev, !.skipped = skipped]
  <2>1. recent \in BOOLEAN /\ e \in Writers \union {None} /\ row \in Row /\ u \in User
    BY <1>0, WritersAssumption DEF Recent, TypeOK
  <2>2. after \in Row /\ after.version \in Nat
    <3>1. after \in Row
      <4> HIDE DEF u, recent, e
      <4> QED BY <2>1, ComparedRowFacts
    <3> HIDE DEF after
    <3> QED BY <3>1 DEF Row
  <2>3. row' = after
    BY <1>4 DEF Compare
  <2>4. record' \in StatusRecord /\ live' \subseteq Sessions /\ owed' \in BOOLEAN
    <3>1. \/ UNCHANGED <<record, live, owed>>
          \/ record' = RecordOf(after) /\ live' = {} /\ owed' = FALSE
      BY <1>4 DEF Compare
    <3>2. RecordOf(after) \in StatusRecord
      <4> HIDE DEF after
      <4> QED BY <2>2, RecordType
    <3> HIDE DEF after
    <3> QED BY <3>1, <3>2 DEF TypeOK
  <2>5. kept' \in Evidence
    <3>1. \/ kept' = [status |-> "disabled", source |-> "console", version |-> after.version]
          \/ kept' = [status |-> row.status, source |-> "rollback", version |-> row.version]
          \/ kept' = kept
      BY <1>4 DEF Compare
    <3> HIDE DEF after
    <3> QED BY <2>1, <2>2, <3>1 DEF Evidence, Row, Statuses, TypeOK
  <2>6. p \in Comparison /\ p.age <= Timeout
    <3>1. skipped \in BOOLEAN
      BY <1>0 DEF Recent
    <3> HIDE DEF skipped, rollback
    <3> QED BY <1>0, <3>1 DEF Comparison, ComparisonSteps
  <2>7. cmp' = [cmp EXCEPT ![c] = p]
    BY <2>0
  <2>8. CmpOK
    <3> HIDE DEF p
    <3> QED BY <2>6, <2>7, ComparisonUpdate DEF CmpOK
  <2>9. UNCHANGED <<since, user, req, left>>
    BY <1>4 DEF Compare
  <2> HIDE DEF after
  <2> QED BY <1>a, <1>c, <2>2, <2>3, <2>4, <2>5, <2>8, <2>9 DEF LocalOK, TypeOK
<1>5. CASE RollbackRead(c)
  <2> DEFINE p == [cmp[c] EXCEPT !.pc = "write", !.copy = user]
  <2>1. p \in Comparison /\ p.age <= Timeout
    BY <1>0 DEF Comparison, ComparisonSteps, TypeOK
  <2>2. CmpOK
    BY <1>5, <2>1, ComparisonUpdate, ZenonT(60) DEF RollbackRead, CmpOK
  <2> QED BY <1>5, <1>a, <1>b, <1>c, <2>2 DEF RollbackRead
<1>6. CASE RollbackWrite(c)
  <2> DEFINE p == [cmp[c] EXCEPT !.pc = "done"]
  <2>1. p \in Comparison /\ p.age <= Timeout
    BY <1>0 DEF Comparison, ComparisonSteps
  <2>2. CmpOK
    BY <1>6, <2>1, ComparisonUpdate DEF RollbackWrite, CmpOK
  <2>3. user' \in User
    BY <1>0, <1>6, WrittenType DEF RollbackWrite, TypeOK
  <2>4. LocalOK
    BY <1>6, LocalTypes DEF RollbackWrite, LocalOK
  <2> QED BY <1>6, <1>a, <1>c, <2>2, <2>3, <2>4 DEF RollbackWrite
<1>7. CASE RollbackLost(c)
  <2>1. CmpOK
    BY <1>0, <1>7, StopTypes DEF RollbackLost, CmpOK, TypeOK
  <2>2. user' \in User
    BY <1>0, <1>7, WrittenType DEF RollbackLost, TypeOK
  <2>3. LocalOK
    BY <1>7, LocalTypes DEF RollbackLost, LocalOK
  <2> QED BY <1>7, <1>a, <2>1, <2>2, <2>3, SpendType DEF RollbackLost, LeftOK
<1>8. CASE RollbackNoUser(c) \/ Echo(c) \/ FailCompare(c) \/ CrashCompare(c)
  <2>1. CmpOK
    BY <1>0, <1>8, StopTypes DEF RollbackNoUser, Echo, FailCompare, CrashCompare, CmpOK
  <2> QED BY <1>8, <1>a, <1>b, <1>c, <2>1, SpendType
       DEF RollbackNoUser, Echo, FailCompare, CrashCompare, LeftOK
<1> QED BY <1>1, <1>2, <1>3, <1>4, <1>5, <1>6, <1>7, <1>8 DEF CompareStep, CompareFault

\* The console's edits keep the types.
LEMMA ConsoleTypes ==
    ASSUME TypeOK, NEW edit \in Edits, ConsoleEdit(edit)
    PROVE  TypeOK'
<1>1. user' \in User /\ owed' \in BOOLEAN
  <2>1. CASE NewPassword
    BY <2>1 DEF NewPassword, TypeOK, User
  <2>2. CASE user' = Gone /\ UNCHANGED owed
    BY <2>2, NewRowType DEF TypeOK
  <2>3. CASE /\ UNCHANGED owed
             /\ \/ user' = [user EXCEPT !.forbidden = TRUE]
                \/ user' = [user EXCEPT !.forbidden = FALSE]
                \/ user' = [user EXCEPT !.deleted = TRUE]
                \/ \E f \in Factors : user' = [user EXCEPT !.factors = f]
    BY <2>3 DEF TypeOK, User
  <2> QED BY <2>1, <2>2, <2>3 DEF ConsoleEdit
<1>2. left' \in [requests : Nat, edits : Nat, faults : Nat]
  BY SpendType DEF ConsoleEdit
<1> QED BY <1>1, <1>2 DEF ConsoleEdit, TypeOK

\* Time keeps the types: it does not pass beyond a running handler's limit.
LEMMA TickTypes ==
    ASSUME TypeOK, Tick
    PROVE  TypeOK'
<1>1. since' \in 0 .. Old
  BY TimeAssumption DEF Tick, TypeOK, Old
<1>2. ASSUME NEW r \in Requests
      PROVE  req'[r] \in Request /\ req'[r].age <= Deadline
  <2>1. req[r] \in Request /\ req[r].age <= Deadline
    BY DEF TypeOK
  <2>2. CASE ~Running(req[r])
    BY <2>1, <2>2 DEF Tick
  <2>3. CASE Running(req[r])
    <3> DEFINE p == [req[r] EXCEPT !.age = req[r].age + 1]
    <3>1. p \in Request /\ p.age = req[r].age + 1 /\ req[r].age \in Nat
      BY <2>1 DEF Request
    <3>2. req'[r] = p /\ req[r].age < Deadline
      BY <2>3 DEF Tick
    <3> HIDE DEF p
    <3> QED BY <3>1, <3>2, TimeAssumption
  <2> QED BY <2>2, <2>3
<1>3. ASSUME NEW c \in Comparisons
      PROVE  cmp'[c] \in Comparison /\ cmp'[c].age <= Timeout
  <2>1. cmp[c] \in Comparison /\ cmp[c].age <= Timeout
    BY DEF TypeOK
  <2>2. CASE ~Running(cmp[c])
    BY <2>1, <2>2 DEF Tick
  <2>3. CASE Running(cmp[c])
    <3> DEFINE p == [cmp[c] EXCEPT !.age = cmp[c].age + 1]
    <3>1. p \in Comparison /\ p.age = cmp[c].age + 1 /\ cmp[c].age \in Nat
      BY <2>1 DEF Comparison
    <3>2. cmp'[c] = p /\ cmp[c].age < Timeout
      BY <2>3 DEF Tick
    <3> HIDE DEF p
    <3> QED BY <3>1, <3>2, TimeAssumption
  <2> QED BY <2>2, <2>3
<1>4. req' \in [Requests -> Request] /\ cmp' \in [Comparisons -> Comparison]
  BY <1>2, <1>3 DEF Tick
<1> QED BY <1>1, <1>2, <1>3, <1>4 DEF Tick, TypeOK

\* The initial state has the types.
LEMMA TypeCorrectInit ==
    ASSUME Init PROVE TypeOK
<1>1. row \in Row /\ record \in StatusRecord
  BY NewRowType, RecordType DEF Init
<1>2. user \in User /\ kept \in Evidence /\ left \in [requests : Nat, edits : Nat, faults : Nat]
  BY NoFactorsAssumption, BoundAssumption DEF Init, User, Evidence, Statuses
<1>3. req \in [Requests -> Request] /\ \A r \in Requests : req[r].age <= Deadline
  BY NoRequestType, TimeAssumption DEF Init
<1>4. cmp \in [Comparisons -> Comparison] /\ \A c \in Comparisons : cmp[c].age <= Timeout
  <2>1. NoComparison \in Comparison /\ NoComparison.age = 0
    BY NewRowType DEF NoComparison, Comparison, ComparisonSteps, Phases
  <2> QED BY <2>1, TimeAssumption DEF Init
<1>5. since \in 0 .. Old /\ live \subseteq Sessions /\ owed \in BOOLEAN
  <2>1. Old \in Nat /\ Old \in 0 .. Old
    BY TimeAssumption DEF Old
  <2> QED BY <2>1 DEF Init
<1> QED BY <1>1, <1>2, <1>3, <1>4, <1>5 DEF TypeOK

\* Every step keeps them.
LEMMA TypeCorrectStep ==
    ASSUME TypeOK, [Next]_vars PROVE TypeOK'
<1>1. CASE UNCHANGED vars
  BY <1>1 DEF vars, TypeOK
<1>2. CASE Next
  BY <1>2, RequestTypes, ComparisonTypes, ConsoleTypes, TickTypes DEF Next
<1> QED BY <1>1, <1>2

\* Every variable keeps its type: the member's transactions, the calls to
\* Casdoor, the console and the passing of time.
THEOREM TypeCorrect == Spec => []TypeOK
<1>1. Init => TypeOK
  BY TypeCorrectInit
<1>2. TypeOK /\ [Next]_vars => TypeOK'
  BY TypeCorrectStep
<1> QED BY <1>1, <1>2, PTL DEF Spec
-----------------------------------------------------------------------------
(* What a step does to the row, to the requests' view of it and to since.  *)

\* The steps of requests that leave the row, the record and the evidence alone.
QuietRequest(r) ==
    \/ StartRequest(r) \/ Allowed(r) \/ Refused(r) \/ Intend(r) \/ Fence(r)
    \/ ReadUser(r) \/ WriteUser(r) \/ NoUser(r) \/ StaleStatus(r)
    \/ SetPassword(r) \/ RefusedPassword(r) \/ DeleteFactors(r) \/ ReadBack(r)
    \/ RequestFault(r)

QuietCompare(c) ==
    \/ BeginCompare(c) \/ List(c) \/ ConsoleIntent(c) \/ RollbackRead(c)
    \/ RollbackWrite(c) \/ RollbackNoUser(c) \/ Echo(c) \/ CompareFault(c)

\* The quiet steps of a request, and those of a comparison, leave the row, the
\* record, the evidence and each other's handlers alone.
LEMMA QuietSteps ==
    /\ \A r \in Requests : QuietRequest(r) => UNCHANGED <<row, record, kept, live, cmp>>
    /\ \A c \in Comparisons : QuietCompare(c) => UNCHANGED <<row, since, record, kept, live, req>>
<1>1. ASSUME NEW r \in Requests, QuietRequest(r)
      PROVE  UNCHANGED <<row, record, kept, live, cmp>>
  BY <1>1 DEF QuietRequest, StartRequest, RequestFault, StartStatus, StartLogout,
     StartReset, StartPassword, Allowed, Refused, Intend, Fence, ReadUser,
     WriteUser, NoUser, StaleStatus, SetPassword, RefusedPassword, DeleteFactors,
     ReadBack, Unsealed, Fail, CallLost, Crash, local
<1>2. ASSUME NEW c \in Comparisons, QuietCompare(c)
      PROVE  UNCHANGED <<row, since, record, kept, live, req>>
  BY <1>2 DEF QuietCompare, CompareFault, BeginCompare, List, ConsoleIntent,
     RollbackRead, RollbackWrite, RollbackNoUser, Echo, UnsealedIntent,
     FailCompare, RollbackLost, CrashCompare, local
<1> QED BY <1>1, <1>2

\* A step changes nothing a status record carries, or takes the version up by
\* one and publishes the row; the latest evidence is of the row's status.
Published ==
    \/ RecordOf(row') = RecordOf(row) /\ UNCHANGED record
    \/ row'.version = row.version + 1 /\ record' = RecordOf(row')
Evidenced ==
    \/ UNCHANGED kept /\ row'.status = row.status
    \/ kept'.status = row'.status /\ kept'.version <= row'.version
\* No comparison judges an account that has just become active.
Judged == since' = 0 \/ (row'.status = "active" => row.status = "active")

\* A security change that leaves the status.
LEMMA SameStatusChange ==
    ASSUME TypeOK, NEW w \in Row, w.status = row.status, w.version = row.version,
           NEW keep, ChangeEv(w, keep, None, None), UNCHANGED kept
    PROVE  Published /\ Evidenced /\ Judged /\ row' \in Row
  BY ChangedRow DEF ChangeEv, Published, Evidenced, Judged

\* Every step of the member, the console and time is published and evidenced,
\* and makes an account active only with local_change_at.
LEMMA RowStep ==
    ASSUME TypeOK, [Next]_vars
    PROVE  Published /\ Evidenced /\ Judged /\ row' \in Row
<1>0. row \in Row /\ row.version \in Nat
  BY DEF TypeOK, Row
<1>1. ASSUME UNCHANGED <<row, record, kept>>
      PROVE  Published /\ Evidenced /\ Judged /\ row' \in Row
  BY <1>0, <1>1 DEF Published, Evidenced, Judged, RecordOf
<1>2. ASSUME NEW r \in Requests, SetStatus(r)
      PROVE  Published /\ Evidenced /\ Judged /\ row' \in Row
  <2> DEFINE to == req[r].target
             w == WithStatus(row, to, req[r].mark)
             e == IF req[r].ev = "unsealed" THEN None ELSE r
             k == req[r].confirmation
  <2>1. /\ to \in Statuses /\ req[r].mark \in Marks
        /\ k \in Confirmations \union {None} /\ e \in Writers \union {None}
    BY WritersAssumption DEF TypeOK, Request
  <2>2. w \in Row /\ w.version = row.version /\ w.status = to
    BY <1>0, <2>1, WithStatusRow
  <2>3. /\ row' = Changed(w, k, e) /\ record' = RecordOf(Changed(w, k, e))
        /\ kept'.status = to /\ kept'.version = row.version + 1
    BY <1>2 DEF SetStatus, ChangeEv
  <2> HIDE DEF w, e, k, to
  <2>4. row' \in Row /\ row'.version = row.version + 1 /\ row'.status = to
    BY <2>1, <2>2, <2>3, ChangedRow
  <2>5. since' = 0
    BY <1>2 DEF SetStatus
  <2> QED BY <1>0, <2>3, <2>4, <2>5 DEF Published, Evidenced, Judged
<1>3. ASSUME NEW r \in Requests, SecurityChange(r)
      PROVE  Published /\ Evidenced /\ Judged /\ row' \in Row
  BY <1>0, <1>3, SameStatusChange DEF SecurityChange
<1>4. ASSUME NEW r \in Requests, ResetFactors(r)
      PROVE  Published /\ Evidenced /\ Judged /\ row' \in Row
  <2> DEFINE w == [row EXCEPT !.factors = IF row.factors = None THEN None ELSE req[r].copy.factors]
  <2>1. w \in Row /\ w.status = row.status /\ w.version = row.version
    BY <1>0 DEF TypeOK, Request, User, Row
  <2>2. ChangeEv(w, {}, None, None) /\ UNCHANGED kept
    BY <1>4 DEF ResetFactors
  <2> HIDE DEF w
  <2> QED BY <2>1, <2>2, SameStatusChange
<1>5. ASSUME NEW r \in Requests, Baseline(r)
      PROVE  Published /\ Evidenced /\ Judged /\ row' \in Row
  <2>1. row' = [row EXCEPT !.password = IF row.password = None THEN None ELSE req[r].copy.password]
    BY <1>5 DEF Baseline
  <2>2. row' \in Row /\ RecordOf(row') = RecordOf(row) /\ row'.status = row.status
    BY <1>0, <2>1 DEF TypeOK, Request, User, Row, RecordOf
  <2> QED BY <1>5, <2>2 DEF Baseline, Published, Evidenced, Judged
<1>6. ASSUME NEW c \in Comparisons, Compare(c)
      PROVE  Published /\ Evidenced /\ Judged /\ row' \in Row
  <2> DEFINE u == cmp[c].u
             recent == Recent(c)
             e == IF cmp[c].ev = "intent" THEN c ELSE None
             after == ComparedRow(row, u, recent, e)
             reason == CompareReason(row, u, recent)
             rollback == SeesRollback(row, u, recent)
  <2>1. recent \in BOOLEAN /\ e \in Writers \union {None} /\ u \in User
    BY WritersAssumption DEF Recent, TypeOK, Comparison
  <2>2. /\ after \in Row
        /\ reason = "none" =>
             RecordOf(after) = RecordOf(row) /\ after.version = row.version /\ after.status = row.status
        /\ reason # "none" => after.version = row.version + 1
        /\ reason = "disabled" => after.status = "disabled"
        /\ reason \in {"password", "second_factor"} => after.status = row.status
    <3> HIDE DEF u, recent, e
    <3> QED BY <1>0, <2>1, ComparedRowFacts
  <2>3. /\ reason \in {"none", "disabled", "password", "second_factor"}
        /\ rollback => reason = "none"
    BY ReasonType
  <2>4. /\ row' = after
        /\ IF reason = "none" THEN UNCHANGED record ELSE record' = RecordOf(after)
        /\ kept' = IF reason = "disabled"
                   THEN [status |-> "disabled", source |-> "console", version |-> after.version]
                   ELSE IF rollback
                   THEN [status |-> row.status, source |-> "rollback", version |-> row.version]
                   ELSE kept
    BY <1>6 DEF Compare
  <2>5. after.version \in Nat
    BY <1>0, <2>2, <2>3
  <2> HIDE DEF after, reason, rollback
  <2>6. Published /\ row' \in Row
    BY <2>2, <2>4 DEF Published
  <2>7. CASE reason = "disabled"
    BY <2>2, <2>4, <2>5, <2>6, <2>7 DEF Evidenced, Judged
  <2>8. CASE reason # "disabled" /\ rollback
    BY <1>0, <2>2, <2>3, <2>4, <2>6, <2>8 DEF Evidenced, Judged
  <2>9. CASE reason # "disabled" /\ ~rollback
    BY <2>2, <2>3, <2>4, <2>6, <2>9 DEF Evidenced, Judged
  <2> QED BY <2>7, <2>8, <2>9
<1>7. CASE UNCHANGED vars
  BY <1>1, <1>7 DEF vars
<1>8. ASSUME NEW r \in Requests, StartRequest(r) \/ RequestStep(r) \/ RequestFault(r)
      PROVE  Published /\ Evidenced /\ Judged /\ row' \in Row
  <2>1. \/ QuietRequest(r) \/ SetStatus(r) \/ SecurityChange(r)
        \/ Baseline(r) \/ ResetFactors(r)
    BY <1>8 DEF RequestStep, QuietRequest
  <2> QED BY <1>1, <1>2, <1>3, <1>4, <1>5, <2>1, QuietSteps
<1>9. ASSUME NEW c \in Comparisons, CompareStep(c) \/ CompareFault(c)
      PROVE  Published /\ Evidenced /\ Judged /\ row' \in Row
  <2>1. QuietCompare(c) \/ Compare(c)
    BY <1>9 DEF CompareStep, QuietCompare
  <2> QED BY <1>1, <1>6, <2>1, QuietSteps
<1>10. ASSUME NEW edit \in Edits, ConsoleEdit(edit)
       PROVE  Published /\ Evidenced /\ Judged /\ row' \in Row
  BY <1>1, <1>10 DEF ConsoleEdit
<1>11. CASE Tick
  BY <1>1, <1>11 DEF Tick
<1> QED BY <1>7, <1>8, <1>9, <1>10, <1>11 DEF Next

\* What a request remembers of the account is what it remembered, nothing, or
\* the row as it is.
LEMMA SeenStep ==
    ASSUME TypeOK, [Next]_vars, NEW q \in Requests
    PROVE  \/ req'[q].seen = req[q].seen
           \/ req'[q].seen.version = 0
           \/ req'[q].seen = Seen /\ UNCHANGED row
<1>0. req \in [Requests -> Request] /\ req[q] \in Request
  BY DEF TypeOK
<1>1. ASSUME UNCHANGED req
      PROVE  req'[q].seen = req[q].seen
  BY <1>1
<1>2. ASSUME NEW r \in Requests, NEW ev, End(r, ev)
      PROVE  req'[q].seen = req[q].seen \/ req'[q].seen.version = 0
  BY <1>0, <1>2 DEF End, NoRequest
<1>3. ASSUME NEW r \in Requests, NEW pc, Goto(r, pc)
      PROVE  req'[q].seen = req[q].seen
  BY <1>0, <1>3 DEF Goto, Request
<1>4. ASSUME NEW r \in Requests, StartStatus(r)
      PROVE  \/ req'[q].seen = req[q].seen
             \/ req'[q].seen = Seen /\ UNCHANGED row
  <2>1. PICK target \in Targets, mark \in Asked \union {"none"},
             confirmation \in Confirmations \union {None}, already \in BOOLEAN :
          req' = [req EXCEPT ![r] =
                 [NoRequest EXCEPT !.pc = IF already THEN "read" ELSE "ask",
                    !.target = target, !.mark = mark,
                    !.confirmation = IF already THEN None ELSE confirmation,
                    !.seen = Seen]]
    BY <1>4 DEF StartStatus
  <2>2. CASE q = r
    <3>1. req'[q].seen = Seen
      BY <1>0, <2>1, <2>2 DEF NoRequest
    <3> QED BY <1>4, <3>1 DEF StartStatus, local
  <2>3. CASE q # r
    BY <1>0, <2>1, <2>3
  <2> QED BY <2>2, <2>3
<1>5. ASSUME NEW r \in Requests, StartLogout(r) \/ StartReset(r) \/ StartPassword(r) \/ Crash(r)
      PROVE  req'[q].seen = req[q].seen \/ req'[q].seen.version = 0
  <2>1. CASE q # r
    BY <1>0, <1>5, <2>1 DEF StartLogout, StartReset, StartPassword, Crash
  <2>2. CASE q = r
    <3>1. req'[r].seen = NoRequest.seen
      BY <1>0, <1>5, NoRequestType, ZenonT(60) DEF StartLogout, StartReset, StartPassword, Crash, Request
    <3> QED BY <2>2, <3>1 DEF NoRequest
  <2> QED BY <2>1, <2>2
<1>6. ASSUME NEW r \in Requests,
             \/ Refused(r) \/ NoUser(r) \/ StaleStatus(r) \/ RefusedPassword(r)
             \/ Baseline(r) \/ ResetFactors(r) \/ Fail(r) \/ CallLost(r)
      PROVE  req'[q].seen = req[q].seen \/ req'[q].seen.version = 0
  BY <1>1, <1>2, <1>6 DEF Refused, NoUser, StaleStatus, RefusedPassword, Baseline,
     ResetFactors, Fail, CallLost
<1>7. ASSUME NEW r \in Requests,
             Allowed(r) \/ WriteUser(r) \/ SetPassword(r) \/ DeleteFactors(r)
      PROVE  req'[q].seen = req[q].seen \/ req'[q].seen.version = 0
  BY <1>2, <1>3, <1>7 DEF Allowed, WriteUser, SetPassword, DeleteFactors
<1>8. ASSUME NEW r \in Requests,
             Intend(r) \/ Unsealed(r) \/ Fence(r) \/ ReadUser(r) \/ ReadBack(r)
      PROVE  req'[q].seen = req[q].seen
  BY <1>0, <1>8 DEF Intend, Unsealed, Fence, ReadUser, ReadBack, Request
<1>9. ASSUME NEW r \in Requests, SetStatus(r) \/ SecurityChange(r)
      PROVE  req'[q].seen = req[q].seen \/ req'[q].seen.version = 0
  <2>1. \/ End(r, Concluded(req[r].ev))
        \/ req' = [req EXCEPT ![r].pc = "read", ![r].then = "end", ![r].ev = Concluded(@)]
        \/ req' = [req EXCEPT ![r].pc = "readback", ![r].ev = Concluded(@)]
    BY <1>9 DEF SetStatus, SecurityChange
  <2>2. CASE ~End(r, Concluded(req[r].ev))
    BY <1>0, <2>1, <2>2 DEF Request
  <2> QED BY <1>2, <2>1, <2>2
<1>10. ASSUME NEW c \in Comparisons, CompareStep(c) \/ CompareFault(c)
       PROVE  UNCHANGED req
  BY <1>10, QuietSteps DEF CompareStep, QuietCompare, Compare
<1>11. CASE Tick
  BY <1>0, <1>11 DEF Tick, Request
<1>12. CASE UNCHANGED vars \/ \E edit \in Edits : ConsoleEdit(edit)
  BY <1>1, <1>12 DEF vars, ConsoleEdit
<1> QED BY <1>1, <1>4, <1>5, <1>6, <1>7, <1>8, <1>9, <1>10, <1>11, <1>12
        DEF Next, StartRequest, RequestStep, RequestFault

-----------------------------------------------------------------------------
(* The shape of the handlers: what they hold before and after their change. *)

\* Before its change a request has written no intent and set no fence.
RequestShape ==
    \A r \in Requests : req[r].pc \in {"ask", "intend", "fence"} =>
        req[r].then = "end" /\ req[r].ev = "none"

\* A comparison has no intent before it looked at the row.
ComparisonShape ==
    \A c \in Comparisons : cmp[c].pc \in {"list", "look"} => cmp[c].ev = "none"

\* The steps of a request keep its shape, and bring an enable behind its fence
\* only by the fence itself.
LEMMA RequestMoves ==
    ASSUME TypeOK, RequestShape, NEW r \in Requests,
           StartRequest(r) \/ RequestStep(r) \/ RequestFault(r)
    PROVE  /\ RequestShape'
           /\ \A q \in Requests : Enabling(q)' =>
                since' = 0 \/ (Enabling(q) /\ req'[q].age = req[q].age)
<1> DEFINE Keeps(q) ==
             /\ req'[q].pc \in {"ask", "intend", "fence"} =>
                  req'[q].then = "end" /\ req'[q].ev = "none"
             /\ Enabling(q)' => since' = 0 \/ (Enabling(q) /\ req'[q].age = req[q].age)
<1> SUFFICES ASSUME NEW q \in Requests PROVE Keeps(q)
  BY DEF RequestShape
<1>0. /\ req \in [Requests -> Request] /\ req[r] \in Request /\ req[q] \in Request
      /\ NoRequest.then = "end" /\ NoRequest.ev = "none" /\ NoRequest \in Request
  BY NoRequestType DEF TypeOK, NoRequest
<1>1. ASSUME req'[q] = req[q] PROVE Keeps(q)
  BY <1>1 DEF RequestShape, Enabling
<1>2. ASSUME NEW ev, End(r, ev) PROVE Keeps(q)
  <2>1. CASE q = r
    BY <1>0, <1>2, <2>1 DEF End, NoRequest, Enabling
  <2> QED BY <1>0, <1>1, <1>2, <2>1 DEF End
<1>3. CASE q # r
  <2>1. req'[q] = req[q] \/ \E ev : End(r, ev)
    BY <1>0, <1>3 DEF StartRequest, RequestStep, RequestFault, StartStatus,
       StartLogout, StartReset, StartPassword, Allowed, Refused, Intend, Fence,
       ReadUser, WriteUser, NoUser, SetStatus, StaleStatus, SecurityChange,
       SetPassword, RefusedPassword, DeleteFactors, ReadBack, Baseline,
       ResetFactors, Unsealed, Fail, CallLost, Crash, Goto
  <2> QED BY <1>1, <1>2, <2>1
<1>4. CASE q = r
  <2>1. CASE StartStatus(r)
    <3>1. PICK target \in Targets, mark \in Asked \union {"none"},
               confirmation \in Confirmations \union {None}, already \in BOOLEAN :
            req' = [req EXCEPT ![r] =
                   [NoRequest EXCEPT !.pc = IF already THEN "read" ELSE "ask",
                      !.target = target, !.mark = mark,
                      !.confirmation = IF already THEN None ELSE confirmation,
                      !.seen = Seen]]
      BY <2>1 DEF StartStatus
    <3>2. req'[r].then = "end" /\ req'[r].ev = "none"
      BY <1>0, <3>1 DEF NoRequest
    <3> QED BY <1>4, <3>2 DEF Enabling
  <2>2. CASE StartLogout(r) \/ StartReset(r) \/ StartPassword(r)
    <3>1. ASSUME StartLogout(r) PROVE req'[r].then = "end" /\ req'[r].ev = "none"
      <4> DEFINE p == [NoRequest EXCEPT !.pc = "intend", !.op = "logout"]
      <4>1. req' = [req EXCEPT ![r] = p]
        BY <3>1 DEF StartLogout
      <4>2. p.then = "end" /\ p.ev = "none"
        BY <1>0 DEF Request
      <4> HIDE DEF p
      <4> QED BY <1>0, <4>1, <4>2
    <3>2. ASSUME StartReset(r) PROVE req'[r].then = "end" /\ req'[r].ev = "none"
      <4> DEFINE p == [NoRequest EXCEPT !.pc = "intend", !.op = "reset"]
      <4>1. req' = [req EXCEPT ![r] = p]
        BY <3>2 DEF StartReset
      <4>2. p.then = "end" /\ p.ev = "none"
        BY <1>0 DEF Request
      <4> HIDE DEF p
      <4> QED BY <1>0, <4>1, <4>2
    <3>3. ASSUME StartPassword(r) PROVE req'[r].then = "end" /\ req'[r].ev = "none"
      <4>1. PICK h : req' = [req EXCEPT ![r] =
              [NoRequest EXCEPT !.pc = "intend", !.op = "password", !.keep = h]]
        BY <3>3 DEF StartPassword
      <4> DEFINE p == [NoRequest EXCEPT !.pc = "intend", !.op = "password", !.keep = h]
      <4>2. p.then = "end" /\ p.ev = "none"
        BY <1>0 DEF Request
      <4>3. req' = [req EXCEPT ![r] = p]
        BY <4>1
      <4> HIDE DEF p
      <4> QED BY <1>0, <4>2, <4>3
    <3> QED BY <1>4, <2>2, <3>1, <3>2, <3>3 DEF Enabling
  <2>3. CASE Allowed(r)
    <3>1. /\ req[r].pc = "ask" /\ req'[r].pc \in {"fence", "intend"}
          /\ req'[r].then = req[r].then /\ req'[r].ev = req[r].ev
      BY <1>0, <2>3 DEF Allowed, At, Goto, Request
    <3> QED BY <1>4, <3>1 DEF Enabling, RequestShape
  <2>4. CASE Intend(r) \/ Unsealed(r)
    <3>1. /\ req[r].pc = "intend" /\ req'[r].then = req[r].then
          /\ req'[r].pc = AfterIntent[req[r].op] /\ req[r].op \in AllOperations
      BY <1>0, <2>4 DEF Intend, Unsealed, At, Request
    <3> QED BY <1>4, <3>1 DEF Enabling, RequestShape, AfterIntent, AllOperations
  <2>5. CASE Fence(r)
    <3>1. since' = 0 /\ req'[r].pc = "read"
      BY <1>0, <2>5 DEF Fence, Request
    <3> QED BY <1>4, <3>1
  <2>6. CASE ReadUser(r) \/ ReadBack(r)
    <3>1. /\ req'[r].then = req[r].then /\ req'[r].op = req[r].op
          /\ req'[r].target = req[r].target /\ req'[r].age = req[r].age
          /\ \/ req[r].pc = "read" /\ req'[r].pc = "write"
             \/ req'[r].pc \in {"reset", "baseline"}
      BY <1>0, <2>6 DEF ReadUser, ReadBack, At, Request
    <3> QED BY <1>4, <3>1 DEF Enabling
  <2>7. CASE WriteUser(r) /\ req[r].then = "set"
    <3>1. /\ req'[r].then = req[r].then /\ req'[r].op = req[r].op
          /\ req'[r].target = req[r].target /\ req'[r].age = req[r].age
          /\ req[r].pc = "write" /\ req'[r].pc = "set"
      BY <1>0, <2>7 DEF WriteUser, At, Goto, Request
    <3> QED BY <1>4, <3>1 DEF Enabling
  <2>8. CASE SetStatus(r) \/ SecurityChange(r)
    <3>1. CASE req' = [req EXCEPT ![r].pc = "read", ![r].then = "end", ![r].ev = Concluded(@)]
      <4>1. req'[r].pc = "read" /\ req'[r].then = "end"
        BY <1>0, <3>1 DEF Request
      <4> QED BY <1>4, <4>1 DEF Enabling
    <3>2. CASE req' = [req EXCEPT ![r].pc = "readback", ![r].ev = Concluded(@)]
      <4>1. req'[r].pc = "readback"
        BY <1>0, <3>2 DEF Request
      <4> QED BY <1>4, <4>1 DEF Enabling
    <3> QED BY <1>2, <2>8, <3>1, <3>2 DEF SetStatus, SecurityChange
  <2>9. CASE SetPassword(r) \/ DeleteFactors(r)
    <3>1. req'[r].pc \in {"change", "readback"}
      BY <1>0, <2>9 DEF SetPassword, DeleteFactors, Goto, Request
    <3> QED BY <1>4, <3>1 DEF Enabling
  <2>10. CASE Crash(r)
    <3>1. req'[r].pc = "crashed"
      BY <1>0, <2>10 DEF Crash, NoRequest
    <3> QED BY <1>4, <3>1 DEF Enabling
  <2>11. CASE req'[r] = req[r] \/ \E ev : End(r, ev)
    BY <1>1, <1>2, <1>4, <2>11
  <2>12. ASSUME \/ Refused(r) \/ NoUser(r) \/ StaleStatus(r) \/ RefusedPassword(r)
                \/ Baseline(r) \/ ResetFactors(r) \/ Fail(r) \/ CallLost(r)
                \/ WriteUser(r) /\ req[r].then # "set"
         PROVE  req'[r] = req[r] \/ \E ev : End(r, ev)
    BY <2>12 DEF Refused, NoUser, StaleStatus, RefusedPassword, Baseline,
       ResetFactors, Fail, CallLost, WriteUser
  <2> QED BY <2>1, <2>2, <2>3, <2>4, <2>5, <2>6, <2>7, <2>8, <2>9, <2>10, <2>11,
             <2>12 DEF StartRequest, RequestStep, RequestFault
<1> QED BY <1>3, <1>4

\* After its transaction a comparison forbids again, or is done.
LEMMA ComparedMoves ==
    ASSUME TypeOK, NEW c \in Comparisons, Compare(c)
    PROVE  cmp'[c].pc \in {"read", "done"}
<1> DEFINE pc == IF SeesRollback(row, cmp[c].u, Recent(c)) THEN "read" ELSE "done"
           skipped == Recent(c) /\ ((row.status = "active") = Off(cmp[c].u))
<1>1. PICK e : cmp' = [cmp EXCEPT ![c].pc = pc, ![c].ev = e, ![c].skipped = skipped]
  BY DEF Compare
<1>2. pc \in {"read", "done"}
  OBVIOUS
<1> HIDE DEF pc, skipped
<1> QED BY <1>1, <1>2 DEF TypeOK, Comparison

\* The steps of a comparison keep the comparisons' shape.
LEMMA ComparisonMoves ==
    ASSUME TypeOK, ComparisonShape, NEW c \in Comparisons,
           CompareStep(c) \/ CompareFault(c)
    PROVE  ComparisonShape'
<1> DEFINE Keeps(p) == p.pc \in {"list", "look"} => p.ev = "none"
<1>0. /\ cmp \in [Comparisons -> Comparison] /\ cmp[c] \in Comparison
      /\ NoComparison \in Comparison /\ NoComparison.ev = "none"
  BY IdleComparison, NewRowType
     DEF TypeOK, Comparison, NoComparison, ComparisonSteps, Phases
<1>1. \A d \in Comparisons : d # c => cmp'[d] = cmp[d]
  BY <1>0 DEF CompareStep, CompareFault, BeginCompare, List, ConsoleIntent, Compare,
     RollbackRead, RollbackWrite, RollbackNoUser, Echo, UnsealedIntent,
     FailCompare, RollbackLost, CrashCompare, Stop
<1>2. Keeps(cmp'[c])
  <2>1. ASSUME NEW pc \in {"idle", "crashed"}, NEW ev, Stop(c, pc, ev)
        PROVE  cmp'[c].pc \notin {"list", "look"}
    BY <1>0, <2>1 DEF Stop, Comparison
  <2>2. CASE BeginCompare(c)
    <3>1. cmp'[c].ev = "none"
      BY <1>0, <2>2 DEF BeginCompare, Comparison
    <3> QED BY <3>1
  <2>3. CASE List(c)
    <3>1. cmp[c].pc = "list" /\ cmp'[c].ev = cmp[c].ev
      BY <1>0, <2>3 DEF List, Step, Comparison
    <3> QED BY <3>1 DEF ComparisonShape
  <2>4. CASE ConsoleIntent(c) \/ UnsealedIntent(c) \/ Compare(c) \/ RollbackRead(c)
    <3>1. cmp'[c].pc \in {"compare", "read", "write", "done"}
      BY <1>0, <2>4, ComparedMoves DEF ConsoleIntent, UnsealedIntent, RollbackRead, Comparison
    <3> QED BY <3>1
  <2>5. CASE RollbackWrite(c)
    <3>1. cmp' = [cmp EXCEPT ![c].pc = "done"]
      BY <2>5 DEF RollbackWrite
    <3>2. cmp'[c].pc = "done"
      BY <1>0, <3>1 DEF Comparison
    <3> QED BY <3>2
  <2>6. CASE RollbackNoUser(c) \/ Echo(c) \/ FailCompare(c) \/ CrashCompare(c) \/ RollbackLost(c)
    <3>1. UNCHANGED cmp \/ \E pc \in {"idle", "crashed"} : \E ev : Stop(c, pc, ev)
      BY <2>6 DEF RollbackNoUser, Echo, FailCompare, CrashCompare, RollbackLost
    <3> QED BY <2>1, <3>1 DEF ComparisonShape
  <2> QED BY <2>2, <2>3, <2>4, <2>5, <2>6 DEF CompareStep, CompareFault
<1> QED BY <1>1, <1>2 DEF ComparisonShape

\* Only the fence and a requested status change write local_change_at; until
\* time passes, its age stays or starts again from zero.
LEMMA SinceStep ==
    ASSUME [Next]_vars, ~Tick
    PROVE  since' \in {since, 0}
<1>1. ASSUME NEW r \in Requests, StartRequest(r) \/ RequestStep(r) \/ RequestFault(r)
      PROVE  since' \in {since, 0}
  BY <1>1 DEF StartRequest, RequestStep, RequestFault, StartStatus, StartLogout,
     StartReset, StartPassword, Allowed, Refused, Intend, Fence, ReadUser,
     WriteUser, NoUser, SetStatus, StaleStatus, SecurityChange, SetPassword,
     RefusedPassword, DeleteFactors, ReadBack, Baseline, ResetFactors,
     Unsealed, Fail, CallLost, Crash, local
<1>2. ASSUME NEW c \in Comparisons, CompareStep(c) \/ CompareFault(c)
      PROVE  since' \in {since, 0}
  BY <1>2, QuietSteps DEF CompareStep, QuietCompare, Compare
<1>3. CASE UNCHANGED vars \/ \E edit \in Edits : ConsoleEdit(edit)
  BY <1>3 DEF vars, ConsoleEdit
<1> QED BY <1>1, <1>2, <1>3 DEF Next

-----------------------------------------------------------------------------
(* The inductive invariant.                                                *)

\* The fence of an enable is no older than the request that wrote it.
FenceYoung == \A r \in Requests : Enabling(r) => since <= req[r].age

\* No request remembers a version the account has not had.
SeenOld == \A r \in Requests : req[r].seen.version <= row.version

\* The comparison's transaction finds the account as its intent supposes.
IInv ==
    /\ TypeOK
    /\ RequestShape
    /\ ComparisonShape
    /\ PublishedIsRow
    /\ EvidenceIsOfThisStatus
    /\ SeenOld
    /\ AskedOnThisRow
    /\ FenceYoung
    /\ DisablementHasIntent

\* The handlers keep their shape.
LEMMA ShapeStep ==
    ASSUME TypeOK, RequestShape, ComparisonShape, [Next]_vars
    PROVE  RequestShape' /\ ComparisonShape'
<1>0. req \in [Requests -> Request] /\ cmp \in [Comparisons -> Comparison]
  BY DEF TypeOK
<1>1. ASSUME UNCHANGED req PROVE RequestShape'
  BY <1>1 DEF RequestShape
<1>2. ASSUME UNCHANGED cmp PROVE ComparisonShape'
  BY <1>2 DEF ComparisonShape
<1>3. ASSUME NEW r \in Requests, StartRequest(r) \/ RequestStep(r) \/ RequestFault(r)
      PROVE  RequestShape' /\ ComparisonShape'
  <2>1. UNCHANGED cmp
    BY <1>3, QuietSteps DEF RequestStep, QuietRequest, SetStatus, SecurityChange,
       Baseline, ResetFactors
  <2> QED BY <1>2, <1>3, <2>1, RequestMoves
<1>4. ASSUME NEW c \in Comparisons, CompareStep(c) \/ CompareFault(c)
      PROVE  RequestShape' /\ ComparisonShape'
  <2>1. UNCHANGED req
    BY <1>4, QuietSteps DEF CompareStep, QuietCompare, Compare
  <2> QED BY <1>1, <1>4, <2>1, ComparisonMoves
<1>5. CASE Tick
  <2>1. \A r \in Requests : /\ req'[r].pc = req[r].pc /\ req'[r].then = req[r].then
                            /\ req'[r].ev = req[r].ev
    BY <1>0, <1>5 DEF Tick, Request
  <2>2. \A c \in Comparisons : cmp'[c].pc = cmp[c].pc /\ cmp'[c].ev = cmp[c].ev
    BY <1>0, <1>5 DEF Tick, Comparison
  <2> QED BY <2>1, <2>2 DEF RequestShape, ComparisonShape
<1>6. CASE UNCHANGED vars \/ \E edit \in Edits : ConsoleEdit(edit)
  BY <1>1, <1>2, <1>6 DEF vars, ConsoleEdit
<1> QED BY <1>3, <1>4, <1>5, <1>6 DEF Next

\* The fence stays young: an enable comes behind it with since at zero and then
\* ages with its request.
LEMMA FenceStep ==
    ASSUME TypeOK, TypeOK', RequestShape, FenceYoung, [Next]_vars
    PROVE  FenceYoung'
<1> SUFFICES ASSUME NEW q \in Requests, Enabling(q)' PROVE since' <= req'[q].age
  BY DEF FenceYoung
<1>0. /\ req[q] \in Request /\ req'[q] \in Request /\ req[q].age \in Nat
      /\ req'[q].age \in Nat /\ since \in Nat /\ since' \in Nat
  BY TimeAssumption DEF TypeOK, Request, Old
<1>1. CASE since' = 0
  BY <1>0, <1>1
<1>2. ASSUME Enabling(q), req'[q].age = req[q].age, ~Tick
      PROVE  since' <= req'[q].age
  BY <1>0, <1>2, SinceStep DEF FenceYoung
<1>3. ASSUME UNCHANGED req, ~Tick
      PROVE  since' <= req'[q].age
  BY <1>2, <1>3 DEF Enabling
<1>4. ASSUME NEW r \in Requests, StartRequest(r) \/ RequestStep(r) \/ RequestFault(r), ~Tick
      PROVE  since' <= req'[q].age
  BY <1>1, <1>2, <1>4, RequestMoves
<1>5. ASSUME NEW c \in Comparisons, CompareStep(c) \/ CompareFault(c)
      PROVE  UNCHANGED req
  BY <1>5, QuietSteps DEF CompareStep, QuietCompare, Compare
<1>6. CASE Tick
  <2>1. /\ req'[q].pc = req[q].pc /\ req'[q].then = req[q].then
        /\ req'[q].op = req[q].op /\ req'[q].target = req[q].target
    BY <1>0, <1>6 DEF Tick, Request, TypeOK
  <2>2. Enabling(q) /\ Running(req[q])
    BY <2>1 DEF Enabling, Running
  <2>3. req'[q].age = req[q].age + 1
    BY <1>0, <1>6, <2>2 DEF Tick, Request, TypeOK
  <2>4. since' <= since + 1
    BY <1>0, <1>6, TimeAssumption DEF Tick, Old
  <2> QED BY <1>0, <2>2, <2>3, <2>4 DEF FenceYoung
<1>7. CASE UNCHANGED vars \/ \E edit \in Edits : ConsoleEdit(edit)
  <2>1. UNCHANGED <<since, req>>
    BY <1>7 DEF vars, ConsoleEdit
  <2> QED BY <1>0, <2>1 DEF FenceYoung, Enabling
<1> QED BY <1>3, <1>4, <1>5, <1>6, <1>7 DEF Next

\* What a comparison that is not at its transaction yet knows of a
\* disablement stays enough when other handlers move: they make the account
\* active only with local_change_at, which keeps the comparison off it.
LEMMA OthersLeaveIntent ==
    ASSUME TypeOK, TypeOK', DisablementHasIntent, [Next]_vars, ~Tick,
           NEW c \in Comparisons, UNCHANGED cmp[c],
           cmp[c].pc = "compare", TakesDisablement(row, cmp[c].u, Recent(c))'
    PROVE  cmp'[c].ev \in {"intent", "unsealed"}
<1>0. /\ cmp[c] \in Comparison /\ cmp[c].age \in Nat /\ since \in Nat
      /\ InFlight \in Nat /\ 0 < InFlight
  BY TimeAssumption DEF TypeOK, Comparison, Old
<1>1. ~Recent(c)' /\ row'.status = "active" /\ Off(cmp[c].u)
  BY DEF TakesDisablement
<1>2. Recent(c)' <=> since' < cmp[c].age + InFlight
  BY DEF Recent
<1>3. since' = since /\ since' # 0
  BY <1>0, <1>1, <1>2, SinceStep
<1>4. row.status = "active"
  BY <1>1, <1>3, RowStep DEF Judged
<1>5. ~Recent(c)
  BY <1>1, <1>2, <1>3 DEF Recent
<1>6. TakesDisablement(row, cmp[c].u, Recent(c))
  BY <1>1, <1>4, <1>5 DEF TakesDisablement
<1> QED BY <1>6 DEF DisablementHasIntent

\* A comparison's intent is there when its transaction takes a disablement in.
LEMMA IntentStep ==
    ASSUME TypeOK, TypeOK', DisablementHasIntent, [Next]_vars
    PROVE  DisablementHasIntent'
<1> SUFFICES ASSUME NEW c \in Comparisons, cmp'[c].pc = "compare",
                    TakesDisablement(row, cmp[c].u, Recent(c))'
             PROVE  cmp'[c].ev \in {"intent", "unsealed"}
  BY DEF DisablementHasIntent
<1>0. /\ cmp \in [Comparisons -> Comparison] /\ cmp[c] \in Comparison
      /\ cmp[c].age \in Nat /\ since \in Nat
      /\ InFlight \in Nat /\ Timeout \in Nat
  BY TimeAssumption DEF TypeOK, Comparison, Old
<1>1. ASSUME ~Tick, UNCHANGED cmp[c]
      PROVE  cmp'[c].ev \in {"intent", "unsealed"}
  BY <1>1, OthersLeaveIntent
<1>2. ASSUME NEW d \in Comparisons, CompareStep(d) \/ CompareFault(d), d # c
      PROVE  UNCHANGED cmp[c]
  BY <1>0, <1>2 DEF CompareStep, CompareFault, BeginCompare, List, ConsoleIntent,
     Compare, RollbackRead, RollbackWrite, RollbackNoUser, Echo, UnsealedIntent,
     FailCompare, RollbackLost, CrashCompare, Stop
<1>3. ASSUME ConsoleIntent(c) \/ UnsealedIntent(c)
      PROVE  cmp'[c].ev \in {"intent", "unsealed"}
  <2>1. UNCHANGED row /\ cmp'[c].u = cmp[c].u
    BY <1>0, <1>3 DEF ConsoleIntent, UnsealedIntent, Comparison, local
  <2>2. NeedsIntent(c)
    BY <2>1 DEF TakesDisablement, NeedsIntent
  <2>3. CASE ConsoleIntent(c)
    BY <1>0, <2>2, <2>3 DEF ConsoleIntent, Comparison
  <2>4. CASE UnsealedIntent(c)
    BY <1>0, <2>4 DEF UnsealedIntent, Comparison
  <2> QED BY <1>3, <2>3, <2>4
<1>4. ASSUME CompareStep(c) \/ CompareFault(c), ~ConsoleIntent(c), ~UnsealedIntent(c)
      PROVE  UNCHANGED cmp
  <2>1. ASSUME NEW pc \in {"idle", "crashed"}, NEW ev, Stop(c, pc, ev)
        PROVE  FALSE
    BY <1>0, <2>1 DEF Stop, NoComparison
  <2>2. ASSUME BeginCompare(c) PROVE FALSE
    BY <1>0, <2>2 DEF BeginCompare, NoComparison
  <2>3. ASSUME List(c) \/ RollbackRead(c) \/ Compare(c) PROVE FALSE
    <3>1. cmp'[c].pc \in {"look", "write", "read", "done"}
      BY <1>0, <2>3, ComparedMoves DEF List, RollbackRead, Comparison
    <3> QED BY <3>1
  <2>4. ASSUME RollbackWrite(c) PROVE FALSE
    <3>1. cmp' = [cmp EXCEPT ![c].pc = "done"]
      BY <2>4 DEF RollbackWrite
    <3> QED BY <1>0, <3>1 DEF Comparison
  <2> QED BY <1>4, <2>1, <2>2, <2>3, <2>4 DEF CompareStep, CompareFault,
          RollbackNoUser, Echo, FailCompare, RollbackLost, CrashCompare
<1>5. ASSUME NEW d \in Comparisons, CompareStep(d) \/ CompareFault(d), ~Tick
      PROVE  cmp'[c].ev \in {"intent", "unsealed"}
  BY <1>1, <1>2, <1>3, <1>4, <1>5
<1>6. ASSUME NEW r \in Requests, StartRequest(r) \/ RequestStep(r) \/ RequestFault(r)
      PROVE  UNCHANGED cmp
  BY <1>6, QuietSteps DEF RequestStep, QuietRequest, SetStatus, SecurityChange,
     Baseline, ResetFactors
<1>7. CASE Tick
  <2>1. /\ cmp'[c].pc = cmp[c].pc /\ cmp'[c].u = cmp[c].u /\ cmp'[c].ev = cmp[c].ev
    BY <1>0, <1>7 DEF Tick, Comparison
  <2>2. cmp'[c].age = cmp[c].age + 1
    BY <1>0, <1>7, <2>1 DEF Tick, Comparison, Running
  <2>3. UNCHANGED row /\ since' <= since + 1 /\ since' \in Nat
    BY <1>0, <1>7, TimeAssumption DEF Tick, Old
  <2>4. Recent(c) => Recent(c)'
    BY <1>0, <2>2, <2>3 DEF Recent
  <2>5. TakesDisablement(row, cmp[c].u, Recent(c))
    BY <2>1, <2>3, <2>4 DEF TakesDisablement
  <2> QED BY <2>1, <2>5 DEF DisablementHasIntent
<1>8. CASE UNCHANGED vars \/ \E edit \in Edits : ConsoleEdit(edit)
  <2>1. UNCHANGED cmp
    BY <1>8 DEF vars, ConsoleEdit
  <2> QED BY <1>1, <1>7, <2>1
<1> QED BY <1>1, <1>5, <1>6, <1>7, <1>8 DEF Next

\* The version pins what a request was asked about: it only grows, and nothing
\* the request remembers changes at the version it remembers.
LEMMA AskedStep ==
    ASSUME TypeOK, TypeOK', SeenOld, AskedOnThisRow, [Next]_vars
    PROVE  SeenOld' /\ AskedOnThisRow'
<1>0. /\ row \in Row /\ row.version \in Nat /\ row' \in Row /\ row'.version \in Nat \ {0}
      /\ \A q \in Requests : req[q].seen.version \in Nat
  BY DEF TypeOK, Row, Request, Account
<1>1. \/ row'.version = row.version /\ Seen' = Seen
      \/ row'.version = row.version + 1
  <2>1. CASE RecordOf(row') = RecordOf(row)
    BY <2>1 DEF RecordOf, Seen
  <2> QED BY <2>1, RowStep DEF Published
<1>2. ASSUME NEW q \in Requests
      PROVE  /\ req'[q].seen.version <= row'.version
             /\ req'[q].seen.version = row'.version => req'[q].seen = Seen'
  <2>1. CASE req'[q].seen = req[q].seen
    <3>1. req[q].seen.version <= row.version
      BY DEF SeenOld
    <3>2. req[q].seen.version = row.version => req[q].seen = Seen
      BY DEF AskedOnThisRow
    <3> QED BY <1>0, <1>1, <2>1, <3>1, <3>2
  <2>2. CASE req'[q].seen.version = 0
    BY <1>0, <2>2
  <2>3. CASE req'[q].seen = Seen /\ UNCHANGED row
    <3>1. Seen' = Seen /\ Seen.version = row'.version
      BY <2>3 DEF Seen
    <3> QED BY <1>0, <2>3, <3>1
  <2> QED BY <2>1, <2>2, <2>3, SeenStep
<1> QED BY <1>2 DEF SeenOld, AskedOnThisRow

\* The inductive invariant holds initially and is kept by every step.
LEMMA Inductive == Spec => []IInv
<1>1. Init => IInv
  <2> SUFFICES ASSUME Init, TypeOK PROVE IInv
    BY TypeCorrectInit
  <2>1. \A r \in Requests : req[r] = NoRequest
    BY DEF Init
  <2>2. \A c \in Comparisons : cmp[c] = NoComparison
    BY DEF Init
  <2>3. RequestShape /\ FenceYoung
    BY <2>1 DEF RequestShape, FenceYoung, Enabling, NoRequest
  <2>4. ComparisonShape /\ DisablementHasIntent
    BY <2>2 DEF ComparisonShape, DisablementHasIntent, NoComparison
  <2>5. PublishedIsRow /\ EvidenceIsOfThisStatus
    BY DEF Init, PublishedIsRow, EvidenceIsOfThisStatus, NewRow
  <2>6. SeenOld /\ AskedOnThisRow
    BY <2>1 DEF Init, SeenOld, AskedOnThisRow, NoRequest, NewRow
  <2> QED BY <2>3, <2>4, <2>5, <2>6 DEF IInv
<1>2. IInv /\ [Next]_vars => IInv'
  <2> SUFFICES ASSUME IInv, [Next]_vars PROVE IInv'
    OBVIOUS
  <2>1. TypeOK /\ TypeOK'
    BY TypeCorrectStep DEF IInv
  <2>2. RequestShape' /\ ComparisonShape'
    BY ShapeStep DEF IInv
  <2>3. PublishedIsRow'
    BY <2>1, RowStep DEF IInv, PublishedIsRow, Published
  <2>4. EvidenceIsOfThisStatus'
    <3>1. row.version \in Nat /\ row'.version \in Nat /\ kept.version \in Nat
      BY <2>1 DEF TypeOK, Row, Evidence
    <3>2. row'.version >= row.version
      BY <2>1, <3>1, RowStep DEF Published, RecordOf
    <3> QED BY <2>1, <3>1, <3>2, RowStep DEF IInv, EvidenceIsOfThisStatus, Evidenced
  <2>5. SeenOld' /\ AskedOnThisRow'
    BY <2>1, AskedStep DEF IInv
  <2>6. FenceYoung'
    BY <2>1, FenceStep DEF IInv
  <2>7. DisablementHasIntent'
    BY <2>1, IntentStep DEF IInv
  <2> QED BY <2>1, <2>2, <2>3, <2>4, <2>5, <2>6, <2>7 DEF IInv
<1> QED BY <1>1, <1>2, PTL DEF Spec

-----------------------------------------------------------------------------
(* The invariants.                                                         *)

\* What the outbox sent out last is the row, whatever handlers interleave: no
\* published change is missing and none is left behind (store.go changeEv).
THEOREM AlwaysPublished == Spec => []PublishedIsRow
<1>1. IInv => PublishedIsRow
  BY DEF IInv
<1> QED BY <1>1, Inductive, PTL

\* An answer of the authorization member is only used on the row it was asked
\* about: the same version is the same status and mark (store.go SetStatus).
THEOREM AlwaysAskedOnThisRow == Spec => []AskedOnThisRow
<1>1. IInv => AskedOnThisRow
  BY DEF IInv
<1> QED BY <1>1, Inductive, PTL

\* The latest status evidence is of the status the account has (statusEvidence).
THEOREM EvidenceFollowsStatus == Spec => []EvidenceIsOfThisStatus
<1>1. IInv => EvidenceIsOfThisStatus
  BY DEF IInv
<1> QED BY <1>1, Inductive, PTL

\* A console disablement is taken in only with the intent written before it.
THEOREM DisablementAlwaysHasIntent == Spec => []DisablementHasIntent
<1>1. IInv => DisablementHasIntent
  BY DEF IInv
<1> QED BY <1>1, Inductive, PTL

\* Between the fence of an enable and its commit no comparison judges the
\* account, for any deadline shorter than InFlight and however long a
\* comparison takes (store.go Fence, Compare).
THEOREM EnableIsFenced == Spec => []NoVerdictOnEnable
<1>1. IInv => NoVerdictOnEnable
  <2> SUFFICES ASSUME IInv, NEW r \in Requests, NEW c \in Comparisons, Enabling(r)
               PROVE  Recent(c)
    BY DEF NoVerdictOnEnable
  <2>1. /\ since \in Nat /\ req[r].age \in Nat /\ cmp[c].age \in Nat
        /\ req[r].age <= Deadline /\ since <= req[r].age
    BY TimeAssumption DEF IInv, TypeOK, Request, Comparison, FenceYoung, Old
  <2> QED BY <2>1, TimeAssumption DEF Recent
<1> QED BY <1>1, Inductive, PTL

-----------------------------------------------------------------------------
(* The steps.                                                              *)

\* The record a step publishes names a confirmation or an evidence record only
\* of the status change that the step makes.
LEMMA OwnChangeStep ==
    ASSUME TypeOK, [Next]_vars, record' # record
    PROVE  (record'.evidence # None \/ record'.confirmation # None)
              => \E p \in Requests \union Comparisons :
                   /\ record'.evidence \in {None, p}
                   /\ kept' = [status |-> record'.status, version |-> record'.version,
                               source |-> IF p \in Requests THEN "adapter" ELSE "console"]
<1> DEFINE Named == record'.evidence # None \/ record'.confirmation # None
           Own(p) == /\ record'.evidence \in {None, p}
                     /\ kept' = [status |-> record'.status, version |-> record'.version,
                                 source |-> IF p \in Requests THEN "adapter" ELSE "console"]
<1> SUFFICES Named => \E p \in Requests \union Comparisons : Own(p)
  OBVIOUS
<1>0. row \in Row /\ row' \in Row
  BY RowStep DEF TypeOK
<1>1. ASSUME NEW r \in Requests, SetStatus(r) PROVE Own(r)
  <2> DEFINE to == req[r].target
             w == WithStatus(row, to, req[r].mark)
             e == IF req[r].ev = "unsealed" THEN None ELSE r
             k == req[r].confirmation
  <2>1. w \in Row /\ w.version = row.version /\ w.status = to
    <3>1. to \in Statuses /\ req[r].mark \in Marks
      BY DEF TypeOK, Request
    <3> QED BY <1>0, <3>1, WithStatusRow
  <2>2. /\ record' = RecordOf(Changed(w, k, e))
        /\ kept' = [status |-> to, source |-> "adapter", version |-> row.version + 1]
    BY <1>1 DEF SetStatus, ChangeEv
  <2>3. /\ k \in Confirmations \union {None} /\ e \in Writers \union {None} /\ e \in {None, r}
    BY WritersAssumption DEF TypeOK, Request
  <2> HIDE DEF w, e, k, to
  <2>4. /\ Changed(w, k, e).version = w.version + 1 /\ Changed(w, k, e).status = w.status
        /\ Changed(w, k, e).evidence = e
    BY <2>1, <2>3, ChangedRow
  <2> QED BY <2>1, <2>2, <2>3, <2>4 DEF RecordOf
<1>2. ASSUME NEW w \in Row, NEW keep, ChangeEv(w, keep, None, None) PROVE ~Named
  BY <1>2, ChangedRow DEF ChangeEv, RecordOf
<1>3. ASSUME NEW r \in Requests, SecurityChange(r) PROVE ~Named
  BY <1>0, <1>2, <1>3 DEF SecurityChange
<1>4. ASSUME NEW r \in Requests, ResetFactors(r) PROVE ~Named
  <2> DEFINE w == [row EXCEPT !.factors = IF row.factors = None THEN None ELSE req[r].copy.factors]
  <2>1. w \in Row
    BY <1>0 DEF TypeOK, Request, User, Row
  <2>2. ChangeEv(w, {}, None, None)
    BY <1>4 DEF ResetFactors
  <2> HIDE DEF w, Named
  <2> QED BY <1>2, <2>1, <2>2
<1>5. ASSUME NEW c \in Comparisons, Compare(c) PROVE Named => Own(c)
  <2> DEFINE u == cmp[c].u
             recent == Recent(c)
             e == IF cmp[c].ev = "intent" THEN c ELSE None
             after == ComparedRow(row, u, recent, e)
             reason == CompareReason(row, u, recent)
  <2>1. recent \in BOOLEAN /\ e \in Writers \union {None} /\ u \in User /\ e \in {None, c}
    BY WritersAssumption DEF Recent, TypeOK, Comparison
  <2>2. /\ reason = "disabled" => /\ after.status = "disabled" /\ after.evidence = e
        /\ reason \in {"password", "second_factor"} =>
              after.confirmation = None /\ after.evidence = None
    <3> HIDE DEF u, recent, e
    <3> QED BY <1>0, <2>1, ComparedRowFacts
  <2>3. reason \in {"none", "disabled", "password", "second_factor"}
    BY ReasonType
  <2>4. reason # "none" /\ record' = RecordOf(after)
    BY <1>5 DEF Compare
  <2>5. reason = "disabled" =>
          kept' = [status |-> "disabled", source |-> "console", version |-> after.version]
    BY <1>5 DEF Compare
  <2>6. c \notin Requests
    BY ProcessAssumption
  <2> HIDE DEF after, reason, e
  <2>7. CASE reason = "disabled"
    BY <2>1, <2>2, <2>4, <2>5, <2>6, <2>7 DEF RecordOf
  <2>8. CASE reason # "disabled"
    BY <2>2, <2>3, <2>4, <2>8 DEF RecordOf
  <2> QED BY <2>7, <2>8
<1> HIDE DEF Named, Own
<1>6. ASSUME NEW r \in Requests, StartRequest(r) \/ RequestStep(r) \/ RequestFault(r)
      PROVE  Named => Own(r)
  <2>1. \/ QuietRequest(r) \/ SetStatus(r) \/ SecurityChange(r)
        \/ Baseline(r) \/ ResetFactors(r)
    BY <1>6 DEF RequestStep, QuietRequest
  <2>2. UNCHANGED record \/ SetStatus(r) \/ SecurityChange(r) \/ ResetFactors(r)
    BY <2>1, QuietSteps DEF Baseline
  <2> QED BY <1>1, <1>3, <1>4, <2>2
<1>7. ASSUME NEW c \in Comparisons, CompareStep(c) \/ CompareFault(c)
      PROVE  Named => Own(c)
  <2>1. UNCHANGED record \/ Compare(c)
    BY <1>7, QuietSteps DEF CompareStep, QuietCompare
  <2> QED BY <1>5, <2>1
<1>8. UNCHANGED vars \/ Tick \/ (\E edit \in Edits : ConsoleEdit(edit)) => UNCHANGED record
  BY DEF vars, Tick, ConsoleEdit
<1> QED BY <1>6, <1>7, <1>8 DEF Next

\* A confirmation and an evidence record go out with their own change only.
THEOREM ChangesAreNamed == Spec => NamesItsOwnChange
<1>1. TypeOK /\ PublishedIsRow /\ [Next]_vars =>
        [ record' # record =>
          /\ record'.version = record.version + 1
          /\ (record'.evidence # None \/ record'.confirmation # None)
                => \E p \in Requests \union Comparisons :
                     /\ record'.evidence \in {None, p}
                     /\ kept' = [status |-> record'.status, version |-> record'.version,
                                 source |-> IF p \in Requests THEN "adapter" ELSE "console"]
        ]_vars
  <2> SUFFICES ASSUME TypeOK, PublishedIsRow, [Next]_vars, record' # record
               PROVE  record'.version = record.version + 1
    BY OwnChangeStep
  <2>1. row'.version = row.version + 1 /\ record' = RecordOf(row')
    BY RowStep DEF Published
  <2> QED BY <2>1 DEF PublishedIsRow, RecordOf
<1> QED BY <1>1, TypeCorrect, AlwaysPublished, PTL DEF Spec, NamesItsOwnChange

\* A handler's step that makes its change concludes its intent, and no other
\* step does.
LEMMA ConcludedNow ==
    ASSUME NEW before, NEW after, NEW changed,
           \/ after = before
           \/ ~Running(before)
           \/ ~changed /\ (after.ev = "effective" <=> before.ev = "effective")
           \/ changed /\ after.ev = Concluded(before.ev)
    PROVE  ConcludedOnce(before, after, changed)
  BY DEF ConcludedOnce, Concluded

\* Settling makes nothing effective, and nothing effective undone.
LEMMA SettledKeeps ==
    ASSUME NEW ev, NEW e \in Settled(ev)
    PROVE  e = "effective" <=> ev = "effective"
  BY DEF Settled

\* A request's step concludes its intent with its change.
LEMMA RequestConcludes ==
    ASSUME TypeOK, RequestShape, NEW r \in Requests,
           StartRequest(r) \/ RequestStep(r) \/ RequestFault(r), NEW q \in Requests
    PROVE  ConcludedOnce(req[q], req'[q], row'.version # row.version)
<1> DEFINE before == req[r]
           after == req'[r]
           Same == after.ev = "effective" <=> before.ev = "effective"
<1>0. /\ req \in [Requests -> Request] /\ req[r] \in Request
      /\ NoRequest \in Request /\ row \in Row /\ row.version \in Nat
  BY NoRequestType DEF TypeOK, Row
<1>1. q # r => req'[q] = req[q]
  BY <1>0 DEF StartRequest, RequestStep, RequestFault, StartStatus, StartLogout,
     StartReset, StartPassword, Allowed, Refused, Intend, Fence, ReadUser,
     WriteUser, NoUser, SetStatus, StaleStatus, SecurityChange, SetPassword,
     RefusedPassword, DeleteFactors, ReadBack, Baseline, ResetFactors,
     Unsealed, Fail, CallLost, Crash, Goto, End
<1>2. ASSUME NEW ev, End(r, ev) PROVE after.ev \in Settled(ev)
  BY <1>0, <1>2 DEF End, Request
<1>3. CASE StartRequest(r)
  <2>1. ~Running(before)
    BY <1>3 DEF StartRequest, StartStatus, StartLogout, StartReset, StartPassword, Free
  <2> QED BY <1>1, <2>1, ConcludedNow
<1>4. CASE SetStatus(r) \/ SecurityChange(r) \/ ResetFactors(r)
  <2>1. row'.version # row.version
    <3>1. CASE SetStatus(r)
      BY <1>0, <3>1 DEF SetStatus, ChangeEv, Changed, WithStatus, Row
    <3>2. CASE SecurityChange(r)
      BY <1>0, <3>2 DEF SecurityChange, ChangeEv, Changed, Row
    <3>3. CASE ResetFactors(r)
      BY <1>0, <3>3 DEF ResetFactors, ChangeEv, Changed, Row
    <3> QED BY <1>4, <3>1, <3>2, <3>3
  <2>2. ASSUME End(r, Concluded(before.ev)) PROVE after.ev = Concluded(before.ev)
    <3>1. after.ev \in Settled(Concluded(before.ev))
      BY <1>2, <2>2
    <3>2. Concluded(before.ev) # "intent"
      BY DEF Concluded
    <3>3. Settled(Concluded(before.ev)) = {Concluded(before.ev)}
      BY <3>2 DEF Settled
    <3> QED BY <3>1, <3>3
  <2>3. ASSUME req' = [req EXCEPT ![r].pc = "read", ![r].then = "end", ![r].ev = Concluded(@)]
        PROVE  after.ev = Concluded(before.ev)
    BY <1>0, <2>3 DEF Request
  <2>4. ASSUME req' = [req EXCEPT ![r].pc = "readback", ![r].ev = Concluded(@)]
        PROVE  after.ev = Concluded(before.ev)
    BY <1>0, <2>4 DEF Request
  <2>5. after.ev = Concluded(before.ev)
    BY <1>4, <2>2, <2>3, <2>4 DEF SetStatus, SecurityChange, ResetFactors
  <2> QED BY <1>1, <2>1, <2>5, ConcludedNow
<1>5. ASSUME Same, row'.version = row.version
      PROVE  ConcludedOnce(req[q], req'[q], row'.version # row.version)
  BY <1>1, <1>5, ConcludedNow
<1>6. CASE \/ Allowed(r) \/ Fence(r) \/ ReadUser(r) \/ SetPassword(r)
           \/ DeleteFactors(r) \/ ReadBack(r)
  <2>1. CASE Allowed(r) \/ SetPassword(r) \/ DeleteFactors(r)
    <3>1. after.ev = before.ev
      BY <1>0, <2>1 DEF Allowed, SetPassword, DeleteFactors, Goto, Request
    <3>2. UNCHANGED row
      BY <2>1 DEF Allowed, SetPassword, DeleteFactors, local
    <3> QED BY <1>5, <3>1, <3>2
  <2>2. CASE Fence(r) \/ ReadUser(r) \/ ReadBack(r)
    <3>1. after.ev = before.ev
      BY <1>0, <2>2 DEF Fence, ReadUser, ReadBack, Request
    <3>2. UNCHANGED row
      BY <2>2 DEF Fence, ReadUser, ReadBack, local
    <3> QED BY <1>5, <3>1, <3>2
  <2> QED BY <1>6, <2>1, <2>2
<1>7. CASE Intend(r) \/ Unsealed(r)
  <2>1. req[r].pc = "intend" /\ req[r].ev = "none"
    BY <1>7 DEF Intend, Unsealed, At, RequestShape
  <2>2. after.ev \in {"intent", "unsealed"} /\ UNCHANGED row
    BY <1>0, <1>7 DEF Intend, Unsealed, Request, local
  <2> QED BY <1>5, <2>1, <2>2
<1>8. CASE WriteUser(r)
  <2>1. UNCHANGED row
    BY <1>8 DEF WriteUser, local
  <2>2. CASE req[r].then = "set"
    <3>1. req' = [req EXCEPT ![r].pc = "set"]
      BY <1>8, <2>2 DEF WriteUser, Goto
    <3>2. after.ev = before.ev
      BY <1>0, <3>1 DEF Request
    <3> QED BY <1>5, <2>1, <3>2
  <2>3. CASE req[r].then # "set"
    <3>1. End(r, before.ev)
      BY <1>8, <2>3 DEF WriteUser
    <3>2. Same
      BY <1>2, <3>1, SettledKeeps
    <3> QED BY <1>5, <2>1, <3>2
  <2> QED BY <2>2, <2>3
<1>9. CASE Crash(r)
  <2>1. req' = [req EXCEPT ![r] = [NoRequest EXCEPT !.pc = "crashed", !.ev = req[r].ev]]
    BY <1>9 DEF Crash
  <2>2. after.ev = before.ev /\ UNCHANGED row
    BY <1>0, <1>9, <2>1 DEF Crash, Request, local
  <2> QED BY <1>5, <2>2
<1>10. CASE \/ Refused(r) \/ NoUser(r) \/ StaleStatus(r) \/ RefusedPassword(r)
            \/ Baseline(r) \/ Fail(r) \/ CallLost(r)
  <2>1. End(r, before.ev) \/ UNCHANGED req
    BY <1>10 DEF Refused, NoUser, StaleStatus, RefusedPassword, Baseline, Fail, CallLost
  <2>2. Same
    BY <1>2, <2>1, SettledKeeps
  <2>3. CASE Baseline(r)
    <3>1. row'.version = row.version
      BY <1>0, <2>3 DEF Baseline, Row
    <3> QED BY <1>5, <2>2, <3>1
  <2>4. CASE ~Baseline(r)
    <3>1. UNCHANGED row
      BY <1>10, <2>4 DEF Refused, NoUser, StaleStatus, RefusedPassword, Fail, CallLost, local
    <3> QED BY <1>5, <2>2, <3>1
  <2> QED BY <2>3, <2>4
<1> QED BY <1>3, <1>4, <1>6, <1>7, <1>8, <1>9, <1>10 DEF RequestStep, RequestFault

\* A comparison's step concludes its intent with the disablement it takes in.
LEMMA ComparisonConcludes ==
    ASSUME TypeOK, ComparisonShape, EvidenceIsOfThisStatus, NEW c \in Comparisons,
           CompareStep(c) \/ CompareFault(c), NEW d \in Comparisons
    PROVE  ConcludedOnce(cmp[d], cmp'[d], Disables)
<1> DEFINE before == cmp[c]
           after == cmp'[c]
           Same == after.ev = "effective" <=> before.ev = "effective"
<1>0. /\ cmp \in [Comparisons -> Comparison] /\ cmp[c] \in Comparison
      /\ NoComparison \in Comparison
  BY IdleComparison, NewRowType DEF TypeOK, Comparison, NoComparison,
     ComparisonSteps, Phases
<1>1. d # c => cmp'[d] = cmp[d]
  BY <1>0 DEF CompareStep, CompareFault, BeginCompare, List, ConsoleIntent, Compare,
     RollbackRead, RollbackWrite, RollbackNoUser, Echo, UnsealedIntent,
     FailCompare, RollbackLost, CrashCompare, Stop
<1>2. ASSUME NEW pc, NEW ev, Stop(c, pc, ev) PROVE after.ev = ev
  BY <1>0, <1>2 DEF Stop, Comparison
<1>3. ASSUME Same, ~Disables PROVE ConcludedOnce(cmp[d], cmp'[d], Disables)
  BY <1>1, <1>3, ConcludedNow
<1>4. CASE Compare(c)
  <2> DEFINE u == before.u
             reason == CompareReason(row, u, Recent(c))
             pc == IF SeesRollback(row, u, Recent(c)) THEN "read" ELSE "done"
             skipped == Recent(c) /\ ((row.status = "active") = Off(u))
  <2>1. CASE reason = "disabled"
    <3>1. cmp' = [cmp EXCEPT ![c].pc = pc, ![c].ev = Concluded(before.ev), ![c].skipped = skipped]
      BY <1>4, <2>1 DEF Compare
    <3>2. after.ev = Concluded(before.ev)
      <4> HIDE DEF pc, skipped
      <4> QED BY <1>0, <3>1 DEF Comparison
    <3>3. kept'.status = "disabled" /\ kept'.source = "console"
      BY <1>4, <2>1 DEF Compare
    <3>4. kept.status = "active"
      BY <2>1 DEF CompareReason, TakesDisablement, EvidenceIsOfThisStatus
    <3>5. Disables
      BY <3>3, <3>4 DEF Disables
    <3> QED BY <1>1, <3>2, <3>5, ConcludedNow
  <2>2. CASE reason # "disabled"
    <3>1. PICK e \in Settled(before.ev) :
            cmp' = [cmp EXCEPT ![c].pc = pc, ![c].ev = e, ![c].skipped = skipped]
      BY <1>4, <2>2 DEF Compare
    <3>2. after.ev = e
      <4> HIDE DEF pc, skipped
      <4> QED BY <1>0, <3>1 DEF Comparison
    <3>3. Same
      BY <3>2, SettledKeeps
    <3>4. kept' = kept \/ kept'.source = "rollback"
      BY <1>4, <2>2 DEF Compare
    <3>5. ~Disables
      BY <3>4 DEF Disables
    <3> QED BY <1>3, <3>3, <3>5
  <2> QED BY <2>1, <2>2
<1>5. CASE QuietCompare(c)
  <2>1. ~Disables
    BY <1>5, QuietSteps DEF Disables
  <2>2. CASE BeginCompare(c)
    <3>1. ~Running(before)
      BY <2>2 DEF BeginCompare
    <3> QED BY <1>1, <3>1, ConcludedNow
  <2>3. CASE List(c) \/ RollbackRead(c)
    <3>1. after.ev = before.ev
      BY <1>0, <2>3 DEF List, RollbackRead, Comparison
    <3> QED BY <1>3, <2>1, <3>1
  <2>4. CASE ConsoleIntent(c) \/ UnsealedIntent(c)
    <3>1. before.ev = "none"
      BY <2>4 DEF ConsoleIntent, UnsealedIntent, Step, ComparisonShape
    <3>2. after.ev # "effective"
      BY <1>0, <2>4 DEF ConsoleIntent, UnsealedIntent, Comparison
    <3> QED BY <1>3, <2>1, <3>1, <3>2
  <2>5. CASE RollbackWrite(c)
    <3>1. cmp' = [cmp EXCEPT ![c].pc = "done"]
      BY <2>5 DEF RollbackWrite
    <3>2. after.ev = before.ev
      BY <1>0, <3>1 DEF Comparison
    <3> QED BY <1>3, <2>1, <3>2
  <2>6. CASE RollbackNoUser(c) \/ Echo(c) \/ FailCompare(c) \/ CrashCompare(c) \/ RollbackLost(c)
    <3>1. \/ UNCHANGED cmp
          \/ \E pc \in {"idle", "crashed"} : Stop(c, pc, before.ev)
          \/ \E e \in Settled(before.ev) : Stop(c, "idle", e)
      BY <2>6 DEF RollbackNoUser, Echo, FailCompare, CrashCompare, RollbackLost
    <3>2. Same
      BY <1>2, <3>1, SettledKeeps
    <3> QED BY <1>3, <2>1, <3>2
  <2> QED BY <1>5, <2>2, <2>3, <2>4, <2>5, <2>6 DEF QuietCompare, CompareFault
<1> QED BY <1>4, <1>5 DEF CompareStep, QuietCompare

\* An intent is concluded effective by its change's own step and by no other,
\* and stays so, for any number of handlers and faults (evidence.go Effective,
\* Settle).
THEOREM IntentsAreConcluded == Spec => IntentsConcludedOnce
<1> DEFINE Concludes ==
             /\ \A r \in Requests :
                  ConcludedOnce(req[r], req'[r], row'.version # row.version)
             /\ \A c \in Comparisons : ConcludedOnce(cmp[c], cmp'[c], Disables)
<1>1. IInv /\ [Next]_vars => [Concludes]_vars
  <2> SUFFICES ASSUME IInv, Next PROVE Concludes
    OBVIOUS
  <2>0. TypeOK /\ RequestShape /\ ComparisonShape /\ EvidenceIsOfThisStatus
    BY DEF IInv
  <2>1. ASSUME UNCHANGED req, NEW r \in Requests
        PROVE  ConcludedOnce(req[r], req'[r], row'.version # row.version)
    BY <2>1, ConcludedNow
  <2>2. ASSUME UNCHANGED cmp, NEW c \in Comparisons
        PROVE  ConcludedOnce(cmp[c], cmp'[c], Disables)
    BY <2>2, ConcludedNow
  <2>3. ASSUME NEW p \in Requests, StartRequest(p) \/ RequestStep(p) \/ RequestFault(p)
        PROVE  Concludes
    <3>1. UNCHANGED cmp
      BY <2>3, QuietSteps DEF RequestStep, QuietRequest, SetStatus, SecurityChange,
         Baseline, ResetFactors
    <3> QED BY <2>0, <2>2, <2>3, <3>1, RequestConcludes
  <2>4. ASSUME NEW p \in Comparisons, CompareStep(p) \/ CompareFault(p)
        PROVE  Concludes
    <3>1. UNCHANGED req
      BY <2>4, QuietSteps DEF CompareStep, QuietCompare, Compare
    <3> QED BY <2>0, <2>1, <2>4, <3>1, ComparisonConcludes
  <2>5. CASE Tick
    <3>1. UNCHANGED <<row, kept>>
      BY <2>5 DEF Tick
    <3>2. \A r \in Requests : req'[r].ev = req[r].ev
      BY <2>0, <2>5 DEF Tick, TypeOK, Request
    <3>3. \A c \in Comparisons : cmp'[c].ev = cmp[c].ev
      BY <2>0, <2>5 DEF Tick, TypeOK, Comparison
    <3> QED BY <3>1, <3>2, <3>3, ConcludedNow DEF Disables
  <2>6. CASE \E edit \in Edits : ConsoleEdit(edit)
    BY <2>1, <2>2, <2>6 DEF ConsoleEdit
  <2> QED BY <2>3, <2>4, <2>5, <2>6 DEF Next
<1> QED BY <1>1, Inductive, PTL DEF Spec, IntentsConcludedOnce
=============================================================================
