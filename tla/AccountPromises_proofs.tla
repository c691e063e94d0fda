------------------------ MODULE AccountPromises_proofs ------------------------
(***************************************************************************)
(* AccountOperations implements AccountPromises, for any number of         *)
(* requests, comparisons, sessions, edits and faults: the initial state    *)
(* maps to the initial state and every step to a step of the promises or   *)
(* to none.                                                                *)
(***************************************************************************)
EXTENDS AccountComparisons_proofs

PInv == IInv /\ OnPath

\* A security change of a row moves the account, its record and its sessions.
LEMMA ChangeMoves ==
    ASSUME NEW w \in Row, w.version = row.version, NEW keep,
           NEW k \in Confirmations \union {None}, NEW e \in Writers \union {None},
           ChangeEv(w, keep, k, e)
    PROVE  Promises!Move(w.status, w.mark, k, e, keep)
<1>1. /\ Changed(w, k, e).version = row.version + 1
      /\ Changed(w, k, e).status = w.status /\ Changed(w, k, e).mark = w.mark
      /\ Changed(w, k, e).confirmation = k /\ Changed(w, k, e).evidence = e
  BY ChangedRow
<1>2. row' = Changed(w, k, e) /\ record' = RecordOf(row') /\ live' = live \intersect keep
  BY DEF ChangeEv
<1> QED BY <1>1, <1>2 DEF Promises!Move, Seen, RecordOf

\* What a request relies on, by its handler's path.
LEMMA RequestRelies ==
    ASSUME TypeOK, NEW r \in Requests,
           StartRequest(r) \/ RequestStep(r) \/ RequestFault(r)
    PROVE  \/ Relied' \in {Relied, [Relied EXCEPT ![r] = NoRequest.seen]}
           \/ /\ ~Running(req[r]) /\ Relied[r] = NoRequest.seen
              /\ Relied' = [Relied EXCEPT ![r] = Seen]
<1>1. \A q \in Requests : q # r => Relied'[q] = Relied[q]
  BY RequestPath DEF Relied
<1>2. /\ Relied = [q \in Requests |-> Relied[q]]
      /\ Relied' = [q \in Requests |-> Relied'[q]]
  BY DEF Relied
<1>3. ASSUME NEW v, Relied'[r] = v PROVE Relied' = [Relied EXCEPT ![r] = v]
  BY <1>1, <1>2, <1>3
<1>4. ASSUME Relied'[r] = Relied[r] PROVE Relied' = Relied
  BY <1>1, <1>2, <1>4
<1>5. CASE ~Running(req'[r])
  <2>1. Relied'[r] = NoRequest.seen
    BY <1>5 DEF Relied
  <2> QED BY <1>3, <2>1
<1>6. CASE Running(req'[r]) /\ Starts(r)
  <2>1. Relied[r] = NoRequest.seen /\ ~Running(req[r])
    BY <1>6 DEF Starts, Relied
  <2>2. Relied'[r] = IF req'[r].op = "status" THEN Seen ELSE NoRequest.seen
    BY <1>6 DEF Starts, Relied
  <2> QED BY <1>3, <2>1, <2>2
<1>7. CASE GoesOn(r) \/ req'[r] = req[r]
  <2>1. CASE GoesOn(r)
    <3>1. Running(req[r])
      BY <2>1 DEF GoesOn, Passes, Running
    <3>2. Relied[r] = IF req[r].op = "status" THEN req[r].seen ELSE NoRequest.seen
      BY <3>1 DEF Relied
    <3>3. Relied'[r] \in {Relied[r], NoRequest.seen}
      BY <2>1, <3>2 DEF Relied, GoesOn
    <3> QED BY <1>3, <1>4, <3>3
  <2>2. CASE req'[r] = req[r]
    BY <1>4, <2>2 DEF Relied
  <2> QED BY <1>7, <2>1, <2>2
<1> QED BY <1>5, <1>6, <1>7, RequestPath

\* The operation a request is at the steps that change the row for.
LEMMA AtItsOperation ==
    ASSUME OnPath, NEW r \in Requests
    PROVE  /\ At(r, "set") => req[r].op = "status"
           /\ req[r].pc \in {"change", "reset", "baseline"} => req[r].op # "status"
  BY InputAssumption DEF OnPath, Running, At, StepsOf, AllOperations

\* A request of another operation relies on nothing, before and after its step.
LEMMA OthersRelyOnNothing ==
    ASSUME TypeOK, OnPath, NEW r \in Requests, RequestStep(r),
           req[r].pc \in {"change", "reset", "baseline"}
    PROVE  UNCHANGED Relied
<1>1. Relied[r] = NoRequest.seen /\ Running(req[r])
  BY AtItsOperation DEF Relied, Running
<1>2. Relied = [q \in Requests |-> Relied[q]]
  BY DEF Relied
<1> QED BY <1>1, <1>2, RequestRelies

\* A requested status is set from what was relied on.
LEMMA SetStatusMaps ==
    ASSUME PInv, NEW r \in Requests, SetStatus(r)
    PROVE  Promises!Next
<1> DEFINE to == req[r].target
           mark == req[r].mark
           k == req[r].confirmation
           e == IF req[r].ev = "unsealed" THEN None ELSE r
           w == WithStatus(row, to, mark)
<1>0. TypeOK /\ OnPath /\ AskedOnThisRow
  BY DEF PInv, IInv
<1>1. /\ to \in Statuses /\ mark \in Marks /\ k \in Confirmations \union {None}
      /\ e \in {None, r} /\ e \in Writers \union {None} /\ row \in Row
  BY <1>0, WritersAssumption DEF TypeOK, Request
<1>2. At(r, "set") /\ req[r].op = "status" /\ Running(req[r])
  BY <1>0, AtItsOperation DEF SetStatus, At, Running
<1>3. Relied[r] = Seen
  BY <1>0, <1>2 DEF SetStatus, Fresh, AskedOnThisRow, Relied
<1>4. w \in Row /\ w.version = row.version /\ w.status = to /\ w.mark = mark
  BY <1>1, WithStatusRow
<1>5. ChangeEv(w, {}, k, e)
  BY DEF SetStatus
<1>6. kept' = [status |-> to, source |-> "adapter", version |-> row.version + 1]
  BY DEF SetStatus
<1>7. Relied' \in {Relied, [Relied EXCEPT ![r] = NoRequest.seen]}
  BY <1>0, <1>2, RequestRelies DEF RequestStep
<1> HIDE DEF w, e, k, mark, to
<1>8. Promises!Move(to, mark, k, e, {})
  BY <1>1, <1>4, <1>5, ChangeMoves
<1>9. Promises!Witnessed(to, "adapter", Seen.version + 1)
  BY <1>6 DEF Promises!Witnessed, Seen
<1>10. Promises!Order(r, to, mark, k)
  BY <1>1, <1>3, <1>7, <1>8, <1>9 DEF Promises!Order
<1> QED BY <1>1, <1>10 DEF Promises!Next

\* A change that leaves the status is a security change of another kind.
LEMMA SecureMaps ==
    ASSUME TypeOK, NEW w \in Row, w.version = row.version,
           w.status = row.status, w.mark = row.mark,
           NEW h \in Sessions \union {None}, NEW keep \in {{}, {h}},
           ChangeEv(w, keep, None, None), UNCHANGED <<kept, Relied>>
    PROVE  Promises!Next
<1>1. Promises!Move(row.status, row.mark, None, None, keep)
  BY ChangeMoves
<1>2. Seen.status = row.status /\ Seen.mark = row.mark
  BY DEF Seen
<1>3. CASE keep \in {{}} \union {{s} : s \in Sessions}
  BY <1>1, <1>2, <1>3 DEF Promises!Secure, Promises!Next
<1>4. CASE keep = {None}
  <2>1. live \intersect keep = live \intersect {}
    BY <1>4, ProcessAssumption DEF TypeOK
  <2>2. Promises!Move(row.status, row.mark, None, None, {})
    BY <1>1, <2>1 DEF Promises!Move
  <2> QED BY <1>2, <2>2 DEF Promises!Secure, Promises!Next
<1> QED BY <1>3, <1>4

\* A request's step.
LEMMA RequestMaps ==
    ASSUME PInv, NEW r \in Requests,
           StartRequest(r) \/ RequestStep(r) \/ RequestFault(r)
    PROVE  [Promises!Next]_Promises!vars
<1>0. TypeOK /\ OnPath /\ row \in Row
  BY DEF PInv, IInv, TypeOK
<1>1. CASE QuietRequest(r)
  <2>1. UNCHANGED <<row, record, kept, live>> /\ Seen' = Seen
    BY <1>1, QuietSteps DEF Seen
  <2>2. CASE Relied' = Relied
    BY <2>1, <2>2 DEF Promises!vars
  <2>3. CASE Relied' = [Relied EXCEPT ![r] = NoRequest.seen]
    BY <2>1, <2>3 DEF Promises!Return, Promises!Next
  <2>4. CASE Relied[r] = NoRequest.seen /\ Relied' = [Relied EXCEPT ![r] = Seen]
    BY <2>1, <2>4 DEF Promises!Rely, Promises!Next
  <2> QED BY <1>0, <2>2, <2>3, <2>4, RequestRelies
<1>2. CASE SetStatus(r)
  BY <1>2, SetStatusMaps
<1>3. CASE SecurityChange(r)
  <2>1. UNCHANGED <<kept, Relied>>
    BY <1>0, <1>3, OthersRelyOnNothing DEF SecurityChange, At, RequestStep
  <2>2. req[r].keep \in Sessions \union {None} /\ ChangeEv(row, {req[r].keep}, None, None)
    BY <1>0, <1>3 DEF SecurityChange, TypeOK, Request
  <2> QED BY <1>0, <2>1, <2>2, SecureMaps
<1>4. CASE ResetFactors(r)
  <2> DEFINE w == [row EXCEPT !.factors = IF row.factors = None THEN None ELSE req[r].copy.factors]
  <2>1. UNCHANGED <<kept, Relied>>
    BY <1>0, <1>4, OthersRelyOnNothing DEF ResetFactors, At, RequestStep
  <2>2. /\ w \in Row /\ w.version = row.version
        /\ w.status = row.status /\ w.mark = row.mark
    BY <1>0 DEF TypeOK, Request, User, Row
  <2>3. ChangeEv(w, {}, None, None)
    BY <1>4 DEF ResetFactors
  <2> HIDE DEF w
  <2> QED BY <1>0, <2>1, <2>2, <2>3, SecureMaps
<1>5. CASE Baseline(r)
  <2>1. UNCHANGED <<record, kept, live, Relied>>
    BY <1>0, <1>5, OthersRelyOnNothing DEF Baseline, At, RequestStep
  <2>2. row' = [row EXCEPT !.password = IF row.password = None THEN None ELSE req[r].copy.password]
    BY <1>5 DEF Baseline
  <2>3. Seen' = Seen
    BY <1>0, <2>2 DEF Seen, Row
  <2> QED BY <2>1, <2>3 DEF Promises!vars
<1> QED BY <1>1, <1>2, <1>3, <1>4, <1>5 DEF RequestStep, QuietRequest

\* A comparison's transaction takes in a disablement, witnesses an enablement,
\* makes a security change of another kind or changes nothing promised.
LEMMA CompareMaps ==
    ASSUME TypeOK, NEW c \in Comparisons, Compare(c)
    PROVE  [Promises!Next]_Promises!vars
<1> DEFINE u == cmp[c].u
           recent == Recent(c)
           e == IF cmp[c].ev = "intent" THEN c ELSE None
           after == ComparedRow(row, u, recent, e)
           reason == CompareReason(row, u, recent)
           rollback == SeesRollback(row, u, recent)
<1>0. row \in Row /\ recent \in BOOLEAN /\ e \in Writers \union {None} /\ e \in {None, c} /\ u \in User
  BY WritersAssumption DEF Recent, TypeOK, Comparison
<1>1. /\ row' = after
      /\ IF reason = "none" THEN UNCHANGED <<record, live>>
                            ELSE record' = RecordOf(after) /\ live' = {}
      /\ kept' = IF reason = "disabled"
                 THEN [status |-> "disabled", source |-> "console", version |-> after.version]
                 ELSE IF rollback
                 THEN [status |-> row.status, source |-> "rollback", version |-> row.version]
                 ELSE kept
      /\ UNCHANGED req
  BY DEF Compare
<1>2. UNCHANGED Relied
  BY <1>1 DEF Relied
<1>3. /\ after.mark = row.mark
      /\ reason = "none" => RecordOf(after) = RecordOf(row)
      /\ reason # "none" => after.version = row.version + 1
      /\ reason = "disabled" =>
           /\ row.status = "active" /\ after.status = "disabled"
           /\ after.confirmation = None /\ after.evidence = e
      /\ reason \in {"password", "second_factor"} =>
           /\ after.status = row.status
           /\ after.confirmation = None /\ after.evidence = None
  <2> HIDE DEF u, recent, e
  <2> QED BY <1>0, ComparedRowFacts
<1>4. /\ reason \in {"none", "disabled", "password", "second_factor"}
      /\ rollback => reason = "none" /\ row.status # "active"
  BY ReasonType DEF SeesRollback
<1> HIDE DEF after, reason, rollback, e
<1>5. CASE reason = "disabled"
  <2>1. Promises!Move("disabled", Seen.mark, None, e, {})
    BY <1>1, <1>3, <1>5 DEF Promises!Move, Seen, RecordOf
  <2>2. Promises!Witnessed("disabled", "console", Seen.version + 1)
    BY <1>1, <1>3, <1>5 DEF Promises!Witnessed, Seen
  <2>3. Seen.status = "active"
    BY <1>3, <1>5 DEF Seen
  <2>4. Promises!TakeIn(c)
    BY <1>0, <1>2, <2>1, <2>2, <2>3 DEF Promises!TakeIn
  <2> QED BY <2>4 DEF Promises!Next
<1>6. CASE reason \in {"password", "second_factor"}
  <2>1. Promises!Move(Seen.status, Seen.mark, None, None, {})
    BY <1>1, <1>3, <1>6 DEF Promises!Move, Seen, RecordOf
  <2>2. UNCHANGED kept
    BY <1>1, <1>4, <1>6
  <2>3. Promises!Secure({})
    BY <1>2, <2>1, <2>2 DEF Promises!Secure
  <2> QED BY <2>3 DEF Promises!Next
<1>7. CASE reason = "none"
  <2>1. Seen' = Seen /\ UNCHANGED <<record, live>>
    BY <1>1, <1>3, <1>7 DEF Seen, RecordOf
  <2>2. CASE rollback
    <3>1. Promises!Witnessed(Seen.status, "rollback", Seen.version) /\ Seen.status # "active"
      BY <1>1, <1>4, <1>7, <2>2 DEF Promises!Witnessed, Seen
    <3> QED BY <1>2, <2>1, <3>1 DEF Promises!Witness, Promises!Next
  <2>3. CASE ~rollback
    BY <1>1, <1>2, <1>7, <2>1, <2>3 DEF Promises!vars
  <2> QED BY <2>2, <2>3
<1> QED BY <1>4, <1>5, <1>6, <1>7

\* Every step is a step of the promises, or none.
LEMMA StepKeepsPromises ==
    ASSUME PInv, [Next]_vars
    PROVE  [Promises!Next]_Promises!vars
<1>0. TypeOK
  BY DEF PInv, IInv
<1>1. ASSUME UNCHANGED <<row, record, kept, live, Relied>> PROVE UNCHANGED Promises!vars
  BY <1>1 DEF Promises!vars, Seen
<1>2. ASSUME UNCHANGED req PROVE UNCHANGED Relied
  BY <1>2 DEF Relied
<1>3. ASSUME NEW r \in Requests, StartRequest(r) \/ RequestStep(r) \/ RequestFault(r)
      PROVE  [Promises!Next]_Promises!vars
  BY <1>3, RequestMaps
<1>4. ASSUME NEW c \in Comparisons, CompareStep(c) \/ CompareFault(c)
      PROVE  [Promises!Next]_Promises!vars
  <2>1. Compare(c) \/ QuietCompare(c)
    BY <1>4 DEF CompareStep, QuietCompare
  <2>2. QuietCompare(c) => UNCHANGED <<row, record, kept, live, req>>
    BY QuietSteps
  <2> QED BY <1>0, <1>1, <1>2, <2>1, <2>2, CompareMaps
<1>5. CASE Tick
  <2>1. \A q \in Requests : Running(req'[q]) = Running(req[q])
          /\ req'[q].op = req[q].op /\ req'[q].seen = req[q].seen
    BY <1>0, <1>5, TimePasses DEF Ages, Running
  <2>2. UNCHANGED Relied
    BY <2>1 DEF Relied
  <2> QED BY <1>1, <1>5, <2>2 DEF Tick
<1>6. CASE UNCHANGED vars \/ (\E edit \in Edits : ConsoleEdit(edit))
  BY <1>1, <1>2, <1>6 DEF vars, ConsoleEdit
<1> QED BY <1>3, <1>4, <1>5, <1>6 DEF Next

\* Whatever requests, comparisons, the console and failures do, and in whatever
\* order, the account, its record, its evidence and its sessions keep the
\* promises (AccountPromises; store.go SetStatus, SecurityChange and Compare).
THEOREM AccountKeepsPromises == Spec => Promised
<1>1. Init => Promises!Init
  <2>1. Init => Relied = [r \in Requests |-> NoRequest.seen]
    BY DEF Init, Relied, Running, NoRequest
  <2> QED BY <2>1 DEF Init, Promises!Init, Seen, NewRow, RecordOf
<1>2. PInv /\ [Next]_vars => [Promises!Next]_Promises!vars
  BY StepKeepsPromises
<1> QED BY <1>1, <1>2, Inductive, AlwaysOnPath, PTL DEF Spec, PInv, Promised, Promises!Spec
=============================================================================
