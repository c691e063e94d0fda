---------------------- MODULE AccountComparisons_proofs ----------------------
(***************************************************************************)
(* What AccountOperations promises of the comparisons with Casdoor: no     *)
(* password change in Casdoor is missed, and what this member wrote there  *)
(* is not taken for a console's change.  Each holds under hypotheses that  *)
(* its theorem names, because without them the code does not promise it.   *)
(***************************************************************************)
EXTENDS AccountOperations_proofs

-----------------------------------------------------------------------------
(* The path of a request.                                                  *)

\* The steps of each operation, from its start to its answer.
StepsOf(op) ==
    IF op = "status" THEN {"ask", "intend", "fence", "read", "write", "set"}
    ELSE IF op = "logout" THEN {"intend", "change"}
    ELSE IF op = "reset" THEN {"intend", "delete", "readback", "reset"}
    ELSE {"intend", "setpw", "change", "readback", "baseline"}

\* A handler that runs is at a step of an operation that is requested.
OnPath ==
    \A r \in Requests : Running(req[r]) =>
        req[r].op \in Operations /\ req[r].pc \in StepsOf(req[r].op)

\* A handler begins, with what it reads of the account.
Starts(r) ==
    /\ ~Running(req[r])
    /\ req'[r].op \in Operations /\ req'[r].then = "end" /\ req'[r].age = 0
    /\ IF req'[r].op = "status"
       THEN /\ req'[r].seen = Seen
            /\ \/ req'[r].pc = "ask"
               \/ req'[r].pc = "read" /\ row.status = req'[r].target
       ELSE req'[r].pc = "intend"

\* A handler that runs goes from one step to the next.
Passes(r, from, to) == req[r].pc = from /\ req'[r].pc = to
GoesOn(r) ==
    /\ req'[r].op = req[r].op /\ req'[r].target = req[r].target
    /\ req'[r].seen = req[r].seen /\ req'[r].age = req[r].age
    /\ \/ /\ UNCHANGED user
          /\ req'[r].copy = user /\ user # Gone
          /\ req'[r].then = req[r].then
          /\ \/ Passes(r, "read", "write")
             \/ Passes(r, "readback", IF req[r].op = "reset" THEN "reset" ELSE "baseline")
       \/ /\ req'[r].copy = req[r].copy /\ req'[r].then = req[r].then
          /\ \/ Passes(r, "ask", IF req[r].target = "active" THEN "fence" ELSE "intend")
             \/ Passes(r, "intend", AfterIntent[req[r].op])
             \/ Passes(r, "write", "set") /\ req[r].then = "set"
             \/ Passes(r, "setpw", "change")
             \/ Passes(r, "delete", "readback")
             \/ /\ Passes(r, "change", "readback") /\ req[r].op # "logout"
                /\ ~owed'
       \/ /\ req'[r].copy = req[r].copy
          /\ \/ Passes(r, "fence", "read") /\ req'[r].then = "set"
             \/ /\ Passes(r, "set", "read") /\ req'[r].then = "end"
                /\ req[r].target # "active"

\* A step of a request leaves the others' handlers alone; its own handler
\* starts, goes on, waits or ends.
LEMMA RequestPath ==
    ASSUME TypeOK, NEW r \in Requests,
           StartRequest(r) \/ RequestStep(r) \/ RequestFault(r)
    PROVE  /\ \A q \in Requests : q # r => req'[q] = req[q]
           /\ StartRequest(r) \/ RequestStep(r)
                => ~Running(req'[r]) \/ Starts(r) \/ GoesOn(r)
           /\ RequestFault(r) => req'[r] = req[r] \/ ~Running(req'[r]) \/ GoesOn(r)
<1>0. /\ req \in [Requests -> Request] /\ req[r] \in Request
      /\ NoRequest.then = "end" /\ NoRequest.age = 0 /\ NoRequest \in Request
      /\ NoRequest.pc = "idle"
  BY NoRequestType DEF TypeOK, NoRequest
<1>1. \A q \in Requests : q # r => req'[q] = req[q]
  BY <1>0 DEF StartRequest, RequestStep, RequestFault, StartStatus,
     StartLogout, StartReset, StartPassword, Allowed, Refused, Intend, Fence,
     ReadUser, WriteUser, NoUser, SetStatus, StaleStatus, SecurityChange,
     SetPassword, RefusedPassword, DeleteFactors, ReadBack, Baseline,
     ResetFactors, Unsealed, Fail, CallLost, Crash, Goto, End
<1>2. ASSUME NEW ev, End(r, ev) PROVE ~Running(req'[r])
  BY <1>0, <1>2 DEF End, NoRequest, Running
<1>3. ASSUME StartStatus(r) PROVE Starts(r)
  <2>1. PICK target \in Targets, mark \in Asked \union {"none"},
             confirmation \in Confirmations \union {None}, already \in BOOLEAN :
          /\ already => row.status = target
          /\ req' = [req EXCEPT ![r] =
                 [NoRequest EXCEPT !.pc = IF already THEN "read" ELSE "ask",
                    !.target = target, !.mark = mark,
                    !.confirmation = IF already THEN None ELSE confirmation,
                    !.seen = Seen]]
    BY <1>3 DEF StartStatus
  <2>2. /\ req'[r].then = "end" /\ req'[r].age = 0 /\ req'[r].op = "status"
        /\ req'[r].seen = Seen /\ req'[r].target = target
        /\ req'[r].pc = IF already THEN "read" ELSE "ask"
    BY <1>0, <2>1 DEF NoRequest
  <2> QED BY <1>1, <1>3, <2>1, <2>2 DEF Starts, StartStatus, Free
<1>4. ASSUME StartLogout(r) \/ StartReset(r) \/ StartPassword(r) PROVE Starts(r)
  <2>1. PICK op, keep :
          /\ op \in {"logout", "reset", "password"} /\ op \in Operations /\ Free(r)
          /\ \/ req' = [req EXCEPT ![r] = [NoRequest EXCEPT !.pc = "intend", !.op = op]]
             \/ req' = [req EXCEPT ![r] =
                          [NoRequest EXCEPT !.pc = "intend", !.op = op, !.keep = keep]]
    BY <1>4 DEF StartLogout, StartReset, StartPassword
  <2> DEFINE p == [NoRequest EXCEPT !.pc = "intend", !.op = op]
             s == [NoRequest EXCEPT !.pc = "intend", !.op = op, !.keep = keep]
  <2>2. /\ p.pc = "intend" /\ p.op = op /\ p.then = "end" /\ p.age = 0
        /\ s.pc = "intend" /\ s.op = op /\ s.then = "end" /\ s.age = 0
    BY <1>0 DEF Request
  <2>3. req' = [req EXCEPT ![r] = p] \/ req' = [req EXCEPT ![r] = s]
    BY <2>1
  <2> HIDE DEF p, s
  <2>4. /\ req'[r].pc = "intend" /\ req'[r].op = op /\ req'[r].then = "end"
        /\ req'[r].age = 0
    BY <1>0, <2>2, <2>3
  <2> QED BY <2>1, <2>4 DEF Starts, Free
<1>5. ASSUME Allowed(r) \/ Intend(r) \/ Unsealed(r) PROVE GoesOn(r)
  BY <1>0, <1>5 DEF Allowed, Intend, Unsealed, At, Goto, Request, GoesOn, Passes
<1>6. ASSUME Fence(r) \/ SetPassword(r) \/ DeleteFactors(r) PROVE GoesOn(r)
  BY <1>0, <1>6 DEF Fence, SetPassword, DeleteFactors, At, Goto, Request, GoesOn, Passes
<1>7. ASSUME ReadUser(r) \/ ReadBack(r) PROVE GoesOn(r)
  BY <1>0, <1>7 DEF ReadUser, ReadBack, At, Request, GoesOn, Passes
<1>8. ASSUME WriteUser(r) PROVE GoesOn(r) \/ ~Running(req'[r])
  BY <1>0, <1>2, <1>8 DEF WriteUser, At, Goto, Request, GoesOn, Passes
<1>9. ASSUME SetStatus(r) PROVE GoesOn(r) \/ ~Running(req'[r])
  <2>1. CASE req[r].target # "active"
    <3>1. req' = [req EXCEPT ![r].pc = "read", ![r].then = "end", ![r].ev = Concluded(@)]
      BY <1>9, <2>1 DEF SetStatus
    <3>2. req[r].pc = "set"
      BY <1>9 DEF SetStatus, At
    <3> QED BY <1>0, <2>1, <3>1, <3>2 DEF Request, GoesOn, Passes
  <2> QED BY <1>2, <1>9, <2>1 DEF SetStatus
<1>10. ASSUME SecurityChange(r) PROVE GoesOn(r) \/ ~Running(req'[r])
  <2>1. CASE req[r].op # "logout"
    <3>1. req' = [req EXCEPT ![r].pc = "readback", ![r].ev = Concluded(@)]
      BY <1>10, <2>1 DEF SecurityChange
    <3>2. req[r].pc = "change" /\ ~owed'
      BY <1>10 DEF SecurityChange, At, ChangeEv
    <3> QED BY <1>0, <2>1, <3>1, <3>2 DEF Request, GoesOn, Passes
  <2> QED BY <1>2, <1>10, <2>1 DEF SecurityChange
<1>11. ASSUME Crash(r) PROVE ~Running(req'[r])
  BY <1>0, <1>11 DEF Crash, NoRequest, Running
<1>12. ASSUME \/ Refused(r) \/ NoUser(r) \/ StaleStatus(r) \/ RefusedPassword(r)
              \/ Baseline(r) \/ ResetFactors(r) \/ Fail(r)
       PROVE  ~Running(req'[r])
  <2>1. \E ev : End(r, ev)
    BY <1>12 DEF Refused, NoUser, StaleStatus, RefusedPassword, Baseline,
       ResetFactors, Fail
  <2> QED BY <1>2, <2>1
<1>13. ASSUME CallLost(r) PROVE req'[r] = req[r] \/ ~Running(req'[r])
  <2>1. UNCHANGED req \/ \E ev : End(r, ev)
    BY <1>13 DEF CallLost
  <2> QED BY <1>2, <2>1
<1> QED BY <1>1, <1>3, <1>4, <1>5, <1>6, <1>7, <1>8, <1>9, <1>10, <1>11, <1>12,
           <1>13 DEF StartRequest, RequestStep, RequestFault

\* Time passes for a handler that runs.
Ages(r) ==
    /\ Tick /\ Running(req[r]) /\ req'[r].age = req[r].age + 1
    /\ req'[r].pc = req[r].pc /\ req'[r].op = req[r].op
    /\ req'[r].target = req[r].target /\ req'[r].seen = req[r].seen
    /\ req'[r].copy = req[r].copy /\ req'[r].then = req[r].then

\* Time changes nothing of a handler but its age.
LEMMA TimePasses ==
    ASSUME TypeOK, Tick, NEW q \in Requests
    PROVE  req'[q] = req[q] \/ Ages(q)
<1>1. req[q] \in Request
  BY DEF TypeOK
<1>2. req'[q] = IF Running(req[q]) THEN [req[q] EXCEPT !.age = @ + 1] ELSE req[q]
  BY DEF Tick
<1> QED BY <1>1, <1>2 DEF Ages, Request

\* What a step of the system does to a handler.
LEMMA RequestsMove ==
    ASSUME TypeOK, [Next]_vars, NEW q \in Requests
    PROVE  \/ req'[q] = req[q] \/ ~Running(req'[q])
           \/ Starts(q) \/ GoesOn(q) \/ Ages(q)
<1>1. ASSUME NEW r \in Requests, StartRequest(r) \/ RequestStep(r) \/ RequestFault(r)
      PROVE  req'[q] = req[q] \/ ~Running(req'[q]) \/ Starts(q) \/ GoesOn(q)
  BY <1>1, RequestPath
<1>2. ASSUME NEW c \in Comparisons, CompareStep(c) \/ CompareFault(c)
      PROVE  UNCHANGED req
  BY <1>2, QuietSteps DEF CompareStep, QuietCompare, Compare
<1>3. UNCHANGED vars \/ (\E edit \in Edits : ConsoleEdit(edit)) => UNCHANGED req
  BY DEF vars, ConsoleEdit
<1> QED BY <1>1, <1>2, <1>3, TimePasses DEF Next

\* Handlers stay on their operation's path.
LEMMA OnPathStep ==
    ASSUME TypeOK, OnPath, [Next]_vars
    PROVE  OnPath'
<1> SUFFICES ASSUME NEW q \in Requests, Running(req'[q])
             PROVE  req'[q].op \in Operations /\ req'[q].pc \in StepsOf(req'[q].op)
  BY DEF OnPath
<1>1. CASE req'[q] = req[q]
  BY <1>1 DEF OnPath
<1>2. CASE Starts(q)
  BY <1>2 DEF Starts, StepsOf
<1>3. CASE GoesOn(q)
  <2>1. Running(req[q])
    BY <1>3 DEF GoesOn, Passes, Running
  <2>2. /\ req[q].op \in Operations /\ req[q].pc \in StepsOf(req[q].op)
        /\ req[q].op \in AllOperations /\ req'[q].op = req[q].op
    BY <1>3, <2>1, InputAssumption DEF OnPath, GoesOn
  <2>3. CASE req[q].op = "status"
    BY <1>3, <2>2, <2>3 DEF GoesOn, Passes, StepsOf, AfterIntent
  <2>4. CASE req[q].op = "logout"
    BY <1>3, <2>2, <2>4 DEF GoesOn, Passes, StepsOf, AfterIntent
  <2>5. CASE req[q].op = "reset"
    BY <1>3, <2>2, <2>5 DEF GoesOn, Passes, StepsOf, AfterIntent
  <2>6. CASE req[q].op = "password"
    BY <1>3, <2>2, <2>6 DEF GoesOn, Passes, StepsOf, AfterIntent
  <2> QED BY <2>2, <2>3, <2>4, <2>5, <2>6 DEF AllOperations
<1>4. CASE Ages(q)
  BY <1>4 DEF Ages, OnPath
<1> QED BY <1>1, <1>2, <1>3, <1>4, RequestsMove

\* The operations' paths are kept from the start.
LEMMA AlwaysOnPath == Spec => []OnPath
<1>1. Init => OnPath
  BY DEF Init, OnPath, NoRequest, Running
<1>2. TypeOK /\ OnPath /\ [Next]_vars => OnPath'
  BY OnPathStep
<1> QED BY <1>1, <1>2, TypeCorrect, PTL DEF Spec

-----------------------------------------------------------------------------
(* What a step does to the passwords.                                      *)

\* A comparison between its list of Casdoor's users and its transaction.
Looking(c) == cmp[c].pc \in {"look", "compare"}

\* A password change in Casdoor, and the removal of the user.
ChangesPassword ==
    /\ user # Gone /\ user'.password = user.password + 1
    /\ owed' = (owed \/ row.password # None)
    /\ UNCHANGED <<row, cmp>>
    /\ "password" \in Edits \/ \E r \in Requests : req[r].pc = "setpw"
Removes == user' = Gone /\ UNCHANGED <<row, owed, cmp, req>>

\* A step leaves the password in Casdoor, changes it, or removes the user;
\* nobody brings a removed user back.
LEMMA CasdoorStep ==
    ASSUME TypeOK, [Next]_vars
    PROVE  \/ /\ user'.password = user.password /\ (user = Gone => user' = Gone)
              /\ owed' = owed \/ ~owed'
           \/ ChangesPassword \/ Removes
<1> DEFINE Stays == /\ user'.password = user.password /\ (user = Gone => user' = Gone)
                    /\ owed' = owed \/ ~owed'
<1>0. user \in User
  BY DEF TypeOK
<1>1. ASSUME NEW copy \in User, NEW forbidden \in BOOLEAN, user # Gone,
             user' = Written(copy, forbidden)
      PROVE  user'.password = user.password
  BY <1>0, <1>1 DEF Written, User
<1>2. ASSUME NEW r \in Requests, StartRequest(r) \/ RequestStep(r) \/ RequestFault(r)
      PROVE  Stays \/ ChangesPassword
  <2>1. req[r].copy \in User /\ (req[r].target # "active") \in BOOLEAN
    BY DEF TypeOK, Request
  <2>2. CASE WriteUser(r)
    BY <1>1, <2>1, <2>2 DEF WriteUser, local
  <2>3. CASE DeleteFactors(r)
    BY <1>0, <2>3 DEF DeleteFactors, local, User
  <2>4. CASE SetPassword(r)
    BY <1>0, <2>4 DEF SetPassword, NewPassword, User, ChangesPassword, At
  <2>5. CASE CallLost(r)
    BY <1>0, <1>1, <2>1, <2>5 DEF CallLost, NewPassword, User, ChangesPassword, At
  <2>6. ASSUME \/ SetStatus(r) \/ SecurityChange(r) \/ ResetFactors(r)
        PROVE  Stays
    BY <2>6 DEF SetStatus, SecurityChange, ResetFactors, ChangeEv
  <2>7. ASSUME \/ StartRequest(r) \/ Allowed(r) \/ Refused(r) \/ Intend(r) \/ Fence(r)
               \/ ReadUser(r) \/ NoUser(r) \/ StaleStatus(r) \/ RefusedPassword(r)
               \/ ReadBack(r) \/ Baseline(r) \/ Unsealed(r) \/ Fail(r) \/ Crash(r)
        PROVE  UNCHANGED <<user, owed>>
    BY <2>7 DEF StartRequest, StartStatus, StartLogout, StartReset, StartPassword,
       Allowed, Refused, Intend, Fence, ReadUser, NoUser, StaleStatus,
       RefusedPassword, ReadBack, Baseline, Unsealed, Fail, Crash, local
  <2> QED BY <1>2, <2>2, <2>3, <2>4, <2>5, <2>6, <2>7 DEF RequestStep, RequestFault
<1>3. ASSUME NEW c \in Comparisons, CompareStep(c) \/ CompareFault(c)
      PROVE  Stays
  <2>1. cmp[c].copy \in User
    BY DEF TypeOK, Comparison
  <2>2. CASE RollbackWrite(c) \/ RollbackLost(c)
    BY <1>1, <2>1, <2>2 DEF RollbackWrite, RollbackLost, local
  <2>3. CASE Compare(c)
    BY <2>3 DEF Compare
  <2>4. ASSUME \/ BeginCompare(c) \/ List(c) \/ ConsoleIntent(c) \/ RollbackRead(c)
               \/ RollbackNoUser(c) \/ Echo(c) \/ UnsealedIntent(c) \/ FailCompare(c)
               \/ CrashCompare(c)
        PROVE  UNCHANGED <<user, owed>>
    BY <2>4 DEF BeginCompare, List, ConsoleIntent, RollbackRead, RollbackNoUser,
       Echo, UnsealedIntent, FailCompare, CrashCompare, local
  <2> QED BY <1>3, <2>2, <2>3, <2>4 DEF CompareStep, CompareFault
<1>4. ASSUME NEW edit \in Edits, ConsoleEdit(edit)
      PROVE  Stays \/ ChangesPassword \/ Removes
  BY <1>0, <1>4 DEF ConsoleEdit, NewPassword, User, ChangesPassword, Removes
<1>5. CASE UNCHANGED vars \/ Tick
  BY <1>5 DEF vars, Tick
<1> QED BY <1>2, <1>3, <1>4, <1>5 DEF Next

\* A comparison looks at the user it has listed, or has listed the user as it is.
LEMMA LookStep ==
    ASSUME TypeOK, [Next]_vars, NEW c \in Comparisons, Looking(c)'
    PROVE  \/ Looking(c) /\ cmp'[c].u = cmp[c].u
           \/ cmp'[c].u = user /\ UNCHANGED <<user, row, owed>>
<1>0. cmp \in [Comparisons -> Comparison] /\ cmp[c] \in Comparison
  BY DEF TypeOK
<1>1. ASSUME cmp'[c] = cmp[c]
      PROVE  Looking(c) /\ cmp'[c].u = cmp[c].u
  BY <1>1 DEF Looking
<1>2. ASSUME NEW d \in Comparisons, CompareStep(d) \/ CompareFault(d), d # c
      PROVE  cmp'[c] = cmp[c]
  BY <1>0, <1>2 DEF CompareStep, CompareFault, BeginCompare, List, ConsoleIntent,
     Compare, RollbackRead, RollbackWrite, RollbackNoUser, Echo, UnsealedIntent,
     FailCompare, RollbackLost, CrashCompare, Stop
<1>3. ASSUME CompareStep(c) \/ CompareFault(c)
      PROVE  \/ Looking(c) /\ cmp'[c].u = cmp[c].u
             \/ cmp'[c].u = user /\ UNCHANGED <<user, row, owed>>
  <2>0. NoComparison \in Comparison
    BY IdleComparison, NewRowType DEF Phases
  <2>1. ASSUME NEW pc \in {"idle", "crashed"}, NEW ev, Stop(c, pc, ev)
        PROVE  FALSE
    BY <1>0, <2>0, <2>1 DEF Stop, Comparison, Looking
  <2>2. CASE BeginCompare(c)
    BY <1>0, <2>0, <2>2 DEF BeginCompare, Comparison, Looking
  <2>3. CASE List(c)
    BY <1>0, <2>3 DEF List, Comparison, local
  <2>4. CASE ConsoleIntent(c) \/ UnsealedIntent(c)
    BY <1>0, <2>4 DEF ConsoleIntent, UnsealedIntent, Comparison, Looking, Step
  <2>5. CASE Compare(c) \/ RollbackRead(c) \/ RollbackWrite(c)
    <3>1. Compare(c) => cmp'[c].pc \in {"read", "done"}
      BY <1>0 DEF Compare, Comparison
    <3>2. RollbackRead(c) => cmp'[c].pc = "write"
      BY <1>0 DEF RollbackRead, Comparison
    <3>3. RollbackWrite(c) => cmp'[c].pc = "done"
      <4>1. RollbackWrite(c) => cmp' = [cmp EXCEPT ![c].pc = "done"]
        BY DEF RollbackWrite
      <4> QED BY <1>0, <4>1 DEF Comparison
    <3> QED BY <2>5, <3>1, <3>2, <3>3 DEF Looking
  <2>6. CASE RollbackNoUser(c) \/ Echo(c) \/ FailCompare(c) \/ CrashCompare(c)
    BY <2>1, <2>6 DEF RollbackNoUser, Echo, FailCompare, CrashCompare
  <2>7. CASE RollbackLost(c)
    BY <1>1, <2>1, <2>7 DEF RollbackLost
  <2> QED BY <1>3, <2>2, <2>3, <2>4, <2>5, <2>6, <2>7 DEF CompareStep, CompareFault
<1>4. ASSUME NEW r \in Requests, StartRequest(r) \/ RequestStep(r) \/ RequestFault(r)
      PROVE  UNCHANGED cmp
  BY <1>4, QuietSteps DEF RequestStep, QuietRequest, SetStatus, SecurityChange,
     Baseline, ResetFactors
<1>5. CASE Tick
  <2>1. cmp'[c] = IF Running(cmp[c]) THEN [cmp[c] EXCEPT !.age = @ + 1] ELSE cmp[c]
    BY <1>5 DEF Tick
  <2> QED BY <1>0, <2>1 DEF Comparison, Looking
<1>6. UNCHANGED vars \/ (\E edit \in Edits : ConsoleEdit(edit)) => UNCHANGED cmp
  BY DEF vars, ConsoleEdit
<1> QED BY <1>1, <1>2, <1>3, <1>4, <1>5, <1>6 DEF Next

\* A step leaves the baseline and the status, or is one of those that write
\* them: a request's security change, a rebasing request, a comparison.
KeepsBaseline == row'.password = row.password /\ row'.status = row.status
Rebaselines(r) ==
    /\ req[r].pc = "baseline" /\ row'.status = row.status
    /\ row'.password \in {row.password, req[r].copy.password}
    /\ UNCHANGED <<user, owed>>
Compares(c) ==
    LET u == cmp[c].u
    IN  /\ cmp[c].pc = "compare" /\ UNCHANGED user
        /\ row'.password = u.password
        /\ \/ ~owed' /\ row'.status = row.status
           \/ ~owed' /\ row'.status = "disabled" /\ Off(u)
           \/ /\ owed' = owed /\ row'.status = row.status
              /\ \/ row.status # "active" /\ ~Off(u)
                 \/ row.password \in {None, u.password}
LEMMA BaselineStep ==
    ASSUME TypeOK, [Next]_vars
    PROVE  \/ KeepsBaseline
           \/ \E r \in Requests : SetStatus(r) /\ row'.password = row.password /\ ~owed'
           \/ \E r \in Requests : Rebaselines(r)
           \/ \E c \in Comparisons : Compares(c)
<1>0. row \in Row
  BY DEF TypeOK
<1>1. ASSUME NEW w \in Row, NEW k, NEW e, NEW keep, ChangeEv(w, keep, k, e)
      PROVE  /\ row'.password = w.password /\ row'.status = w.status /\ ~owed'
  BY <1>1 DEF ChangeEv, Changed, Row
<1>2. ASSUME NEW r \in Requests, SetStatus(r)
      PROVE  row'.password = row.password /\ ~owed'
  <2> DEFINE w == WithStatus(row, req[r].target, req[r].mark)
  <2>1. req[r].target \in Statuses /\ req[r].mark \in Marks
    BY DEF TypeOK, Request
  <2>2. w \in Row /\ w.password = row.password
    BY <1>0, <2>1 DEF WithStatus, Row
  <2>3. \E k, e : ChangeEv(w, {}, k, e)
    BY <1>2 DEF SetStatus
  <2> HIDE DEF w
  <2> QED BY <1>1, <2>2, <2>3
<1>3. ASSUME NEW r \in Requests, SecurityChange(r) \/ ResetFactors(r)
      PROVE  KeepsBaseline
  <2>1. CASE SecurityChange(r)
    BY <1>0, <1>1, <2>1 DEF SecurityChange, KeepsBaseline
  <2>2. CASE ResetFactors(r)
    <3> DEFINE w == [row EXCEPT !.factors = IF row.factors = None THEN None
                                            ELSE req[r].copy.factors]
    <3>1. w \in Row /\ w.status = row.status /\ w.password = row.password
      BY <1>0 DEF TypeOK, Request, User, Row
    <3>2. ChangeEv(w, {}, None, None)
      BY <2>2 DEF ResetFactors
    <3> HIDE DEF w
    <3> QED BY <1>1, <3>1, <3>2 DEF KeepsBaseline
  <2> QED BY <1>3, <2>1, <2>2
<1>4. ASSUME NEW r \in Requests, Baseline(r)
      PROVE  Rebaselines(r)
  <2>1. row' = [row EXCEPT !.password = IF row.password = None THEN None
                                        ELSE req[r].copy.password]
    BY <1>4 DEF Baseline
  <2>2. /\ row'.password \in {row.password, req[r].copy.password}
        /\ row'.status = row.status
    BY <1>0, <2>1 DEF Row
  <2> QED BY <1>4, <2>2 DEF Baseline, Rebaselines, At
<1>5. ASSUME NEW c \in Comparisons, Compare(c)
      PROVE  Compares(c)
  <2> DEFINE u == cmp[c].u
             recent == Recent(c)
             e == IF cmp[c].ev = "intent" THEN c ELSE None
             after == ComparedRow(row, u, recent, e)
             reason == CompareReason(row, u, recent)
  <2>1. recent \in BOOLEAN /\ e \in Writers \union {None} /\ u \in User
    BY WritersAssumption DEF Recent, TypeOK, Comparison
  <2>2. /\ row' = after /\ UNCHANGED user /\ cmp[c].pc = "compare"
        /\ IF reason = "none" THEN UNCHANGED owed ELSE ~owed'
    BY <1>5 DEF Compare, Step
  <2>3. /\ reason \in {"none", "disabled", "password", "second_factor"}
        /\ reason = "disabled" <=> TakesDisablement(row, u, recent)
    BY ReasonType
  <2>4. reason = "none" => SeesRollback(row, u, recent) \/ row.password \in {None, u.password}
    BY DEF CompareReason, PasswordChanged
  <2> HIDE DEF u, recent, e
  <2>5. after.password = u.password
    BY <1>0, <2>1, ComparedBaseline
  <2>6. /\ reason = "none" => after.status = row.status
        /\ reason = "disabled" => after.status = "disabled"
        /\ reason \in {"password", "second_factor"} => after.status = row.status
    BY <1>0, <2>1, ComparedRowFacts
  <2> HIDE DEF after, reason
  <2>7. CASE reason = "none"
    BY <2>2, <2>4, <2>5, <2>6, <2>7 DEF u, Compares, SeesRollback
  <2>8. CASE reason = "disabled"
    BY <2>2, <2>3, <2>5, <2>6, <2>8 DEF u, Compares, TakesDisablement
  <2>9. CASE reason \in {"password", "second_factor"}
    BY <2>2, <2>5, <2>6, <2>9 DEF u, Compares
  <2> QED BY <2>3, <2>7, <2>8, <2>9
<1>6. ASSUME UNCHANGED row PROVE KeepsBaseline
  BY <1>6 DEF KeepsBaseline
<1>7. ASSUME NEW r \in Requests, StartRequest(r) \/ RequestStep(r) \/ RequestFault(r)
      PROVE  \/ KeepsBaseline
             \/ SetStatus(r) /\ row'.password = row.password /\ ~owed'
             \/ Rebaselines(r)
  <2>1. \/ QuietRequest(r) \/ SetStatus(r) \/ SecurityChange(r)
        \/ Baseline(r) \/ ResetFactors(r)
    BY <1>7 DEF RequestStep, QuietRequest
  <2> QED BY <1>2, <1>3, <1>4, <1>6, <2>1, QuietSteps
<1>8. ASSUME NEW c \in Comparisons, CompareStep(c) \/ CompareFault(c)
      PROVE  KeepsBaseline \/ Compares(c)
  <2>1. QuietCompare(c) \/ Compare(c)
    BY <1>8 DEF CompareStep, QuietCompare
  <2> QED BY <1>5, <1>6, <2>1, QuietSteps
<1>9. UNCHANGED vars \/ Tick \/ (\E edit \in Edits : ConsoleEdit(edit)) => KeepsBaseline
  BY <1>6 DEF vars, Tick, ConsoleEdit
<1> QED BY <1>7, <1>8, <1>9 DEF Next

-----------------------------------------------------------------------------
(* No password change is missed.                                           *)

\* A ChangePassword between its security change and its new baseline, and a
\* step that changes no password in Casdoor meanwhile.
Rebasing(r) == req[r].op = "password" /\ req[r].pc \in {"readback", "baseline"}
NoChangeInBetween ==
    user'.password > user.password => \A r \in Requests : ~Rebasing(r)

\* Password stamps grow: what was read of Casdoor is no newer than Casdoor, and
\* only a user that is gone has none.
Counted(u) == u = Gone \/ u.password >= 1
Known(p) == p >= 1 /\ p <= user.password
Stamps ==
    /\ Counted(user)
    /\ \A c \in Comparisons : Looking(c) => Counted(cmp[c].u)
    /\ user # Gone =>
         /\ row.password = None \/ Known(row.password)
         /\ \A c \in Comparisons : Looking(c) => Known(cmp[c].u.password)
         /\ \A r \in Requests : req[r].pc = "baseline" => Known(req[r].copy.password)

\* Only a compared account is owed a security change, and none whose password
\* change has just made one.
OwedCompared ==
    /\ owed => row.password # None
    /\ \A r \in Requests : Rebasing(r) => ~owed

\* While the account is active, a password change that no security change
\* followed is still to be seen by the next comparison.
SeenWhileActive == owed /\ row.status = "active" => row.password # user.password

\* The stamps, as natural numbers.
LEMMA StampTypes ==
    ASSUME TypeOK
    PROVE  /\ user \in User /\ user.password \in Nat
           /\ row.password \in Nat \union {None} /\ None \notin Nat /\ Gone.password = 0
           /\ \A c \in Comparisons : cmp[c].u \in User /\ cmp[c].u.password \in Nat
           /\ \A r \in Requests : req[r].copy.password \in Nat
  BY NoneAssumption DEF TypeOK, User, Row, Comparison, Request, Gone

\* A handler about to baseline has read the password, and is past its change.
LEMMA RebasingStep ==
    ASSUME TypeOK, OnPath, [Next]_vars, NEW r \in Requests
    PROVE  /\ req'[r].pc = "baseline" =>
                \/ req[r].pc = "baseline" /\ req'[r].copy = req[r].copy
                \/ req'[r].copy = user /\ UNCHANGED user
           /\ Rebasing(r)' => Rebasing(r) \/ ~owed'
<1>0. req[r].op \in AllOperations
  BY DEF TypeOK, Request
<1>1. CASE req'[r] = req[r]
  BY <1>1 DEF Rebasing
<1>2. CASE ~Running(req'[r]) \/ Starts(r)
  BY <1>2 DEF Running, Starts, Rebasing
<1>3. CASE GoesOn(r)
  <2>1. req[r].pc = "delete" => req[r].op = "reset"
    BY DEF OnPath, Running, StepsOf
  <2> QED BY <1>0, <1>3, <2>1 DEF GoesOn, Passes, Rebasing, AfterIntent, AllOperations
<1>4. CASE Ages(r)
  BY <1>4 DEF Ages, Rebasing
<1> QED BY <1>1, <1>2, <1>3, <1>4, RequestsMove

\* Stamps only grow.
LEMMA StampsStep ==
    ASSUME TypeOK, TypeOK', OnPath, Stamps, [Next]_vars
    PROVE  Stamps'
<1>0. user'.password \in Nat /\ user.password \in Nat
  BY DEF TypeOK, User
<1>1. \/ user'.password = user.password /\ (user = Gone => user' = Gone)
      \/ user # Gone /\ user'.password = user.password + 1
      \/ user' = Gone
  BY CasdoorStep DEF ChangesPassword, Removes
<1>2. Counted(user)'
  BY <1>1, StampTypes DEF Stamps, Counted
<1>3. user' # Gone => user # Gone /\ user'.password >= user.password
  BY <1>1, StampTypes
<1>4. ASSUME NEW c \in Comparisons, Looking(c)'
      PROVE  Counted(cmp'[c].u) /\ (user' # Gone => Known(cmp[c].u.password)')
  <2>1. CASE Looking(c) /\ cmp'[c].u = cmp[c].u
    <3>1. Counted(cmp[c].u) /\ (user # Gone => Known(cmp[c].u.password))
      BY <2>1 DEF Stamps
    <3> QED BY <1>0, <1>3, <2>1, <3>1, StampTypes DEF Counted, Known
  <2>2. CASE cmp'[c].u = user /\ UNCHANGED user
    BY <1>2, <2>2, StampTypes DEF Counted, Known
  <2> QED BY <1>4, <2>1, <2>2, LookStep
<1>5. ASSUME NEW r \in Requests, req'[r].pc = "baseline", user' # Gone
      PROVE  Known(req[r].copy.password)'
  <2>1. CASE req[r].pc = "baseline" /\ req'[r].copy = req[r].copy
    <3>1. Known(req[r].copy.password)
      BY <1>3, <1>5, <2>1 DEF Stamps
    <3> QED BY <1>0, <1>3, <1>5, <2>1, <3>1, StampTypes DEF Known
  <2>2. CASE req'[r].copy = user /\ UNCHANGED user
    BY <1>2, <1>5, <2>2, StampTypes DEF Counted, Known
  <2> QED BY <1>5, <2>1, <2>2, RebasingStep
<1>6. ASSUME user' # Gone PROVE row'.password = None \/ Known(row.password)'
  <2>0. /\ row.password = None \/ Known(row.password)
        /\ \A c \in Comparisons : Looking(c) => Known(cmp[c].u.password)
        /\ \A r \in Requests : req[r].pc = "baseline" => Known(req[r].copy.password)
        /\ user'.password >= user.password
    BY <1>3, <1>6 DEF Stamps
  <2>1. CASE row'.password = row.password
    BY <1>0, <2>0, <2>1, StampTypes DEF Known
  <2>2. ASSUME NEW r \in Requests, Rebaselines(r)
        PROVE  row'.password = None \/ Known(row.password)'
    BY <2>0, <2>2, StampTypes DEF Rebaselines, Known
  <2>3. ASSUME NEW c \in Comparisons, Compares(c)
        PROVE  row'.password = None \/ Known(row.password)'
    BY <2>0, <2>3, StampTypes DEF Compares, Looking, Known
  <2> QED BY <2>1, <2>2, <2>3, BaselineStep DEF KeepsBaseline
<1> QED BY <1>2, <1>4, <1>5, <1>6 DEF Stamps

\* An account that is owed a security change has been compared, and no handler
\* is about to rebaseline it.
LEMMA OwedStep ==
    ASSUME TypeOK, OnPath, OwedCompared, [Next]_vars, NoChangeInBetween
    PROVE  OwedCompared'
<1>0. \/ owed' = owed \/ ~owed'
      \/ owed' = (owed \/ row.password # None) /\ UNCHANGED row /\ \A r \in Requests : ~Rebasing(r)
  <2>1. ChangesPassword => \A r \in Requests : ~Rebasing(r)
    BY StampTypes DEF ChangesPassword, NoChangeInBetween
  <2> QED BY <2>1, CasdoorStep DEF ChangesPassword, Removes
<1>1. ASSUME NEW r \in Requests, Rebasing(r)' PROVE ~owed'
  BY <1>0, <1>1, RebasingStep DEF OwedCompared
<1>2. ASSUME owed' PROVE row'.password # None
  <2>1. CASE row'.password = row.password
    BY <1>0, <1>2, <2>1 DEF OwedCompared
  <2>2. ASSUME NEW r \in Requests, Rebaselines(r) PROVE row'.password # None
    BY <1>2, <2>2, StampTypes DEF Rebaselines, OwedCompared
  <2>3. ASSUME NEW c \in Comparisons, Compares(c) PROVE row'.password # None
    BY <2>3, StampTypes DEF Compares
  <2> QED BY <2>1, <2>2, <2>3, BaselineStep DEF KeepsBaseline
<1> QED BY <1>1, <1>2 DEF OwedCompared

\* A step that leaves the baseline leaves a change that is owed to be seen.
LEMMA KeptBaselineSees ==
    ASSUME TypeOK, Stamps, OwedCompared, [Next]_vars, KeepsBaseline,
           owed => row.password # user.password, owed'
    PROVE  row'.password # user'.password
<1>1. CASE user'.password = user.password /\ (owed' = owed \/ ~owed')
  BY <1>1 DEF KeepsBaseline
<1>2. CASE ChangesPassword
  BY <1>2, StampTypes DEF ChangesPassword, Stamps, Known
<1>3. CASE Removes /\ user # Gone
  BY <1>3, StampTypes DEF Removes, Stamps, Known, OwedCompared
<1>4. CASE Removes /\ user = Gone
  BY <1>4 DEF KeepsBaseline, Removes
<1> QED BY <1>1, <1>2, <1>3, <1>4, CasdoorStep

\* A handler that baselines the account is one that is rebasing it.
LEMMA OwedNotRebaselined ==
    ASSUME TypeOK, OnPath, OwedCompared, NEW r \in Requests, Rebaselines(r)
    PROVE  ~owed'
<1>1. Rebasing(r)
  BY InputAssumption DEF Rebaselines, OnPath, Running, StepsOf, Rebasing, AllOperations
<1> QED BY <1>1 DEF Rebaselines, OwedCompared

\* A change made while the account is active stays to be seen.
LEMMA SeenWhileActiveStep ==
    ASSUME TypeOK, OnPath, Stamps, OwedCompared, SeenWhileActive, [Next]_vars
    PROVE  SeenWhileActive'
<1> SUFFICES ASSUME owed', row'.status = "active" PROVE row'.password # user'.password
  BY DEF SeenWhileActive
<1>1. CASE KeepsBaseline
  <2>1. owed => row.password # user.password
    BY <1>1 DEF KeepsBaseline, SeenWhileActive
  <2> QED BY <1>1, <2>1, KeptBaselineSees
<1>2. ASSUME NEW c \in Comparisons, Compares(c) PROVE row'.password # user'.password
  BY <1>2 DEF Compares, OwedCompared, SeenWhileActive
<1> QED BY <1>1, <1>2, BaselineStep, OwedNotRebaselined

\* What holds of an account that was just bound.
LEMMA StampsInit == Init => Stamps /\ OwedCompared /\ SeenWhileActive
<1> SUFFICES ASSUME Init PROVE Stamps /\ OwedCompared /\ SeenWhileActive
  OBVIOUS
<1>1. /\ user.password = 1 /\ row.password = None /\ owed = FALSE
      /\ \A c \in Comparisons : cmp[c].pc = "idle"
      /\ \A r \in Requests : req[r].pc = "idle"
  BY DEF Init, NewRow, NoRequest, NoComparison
<1> QED BY <1>1 DEF Stamps, Counted, Looking, OwedCompared, Rebasing, SeenWhileActive

\* As long as nobody else changes the password between a ChangePassword's
\* security change and its new baseline, a password change in Casdoor, by the
\* console or by a ChangePassword that failed half way, is still to be seen by
\* the next comparison of an active account: no comparison, however old its
\* user list, no reset and no rebaselining takes it for the baseline
\* (sessions.go ownPassword, store.go BaselinePassword, ResetFactors, Compare).
THEOREM ActiveChangesAreSeen ==
    Spec /\ [][NoChangeInBetween]_vars => []SeenWhileActive
<1> DEFINE Inv == OnPath /\ Stamps /\ OwedCompared /\ SeenWhileActive
<1>1. Init => Inv
  BY StampsInit DEF Init, OnPath, NoRequest, Running
<1>2. TypeOK /\ TypeOK' /\ Inv /\ [Next]_vars /\ [NoChangeInBetween]_vars => Inv'
  <2> SUFFICES ASSUME TypeOK, TypeOK', Inv, [Next]_vars, [NoChangeInBetween]_vars
               PROVE  Inv'
    OBVIOUS
  <2>1. NoChangeInBetween
    BY StampTypes DEF vars, NoChangeInBetween
  <2> QED BY <2>1, OnPathStep, StampsStep, OwedStep, SeenWhileActiveStep
<1> QED BY <1>1, <1>2, TypeCorrect, PTL DEF Spec

\* Nobody makes an account active or lets its user in again; and whoever
\* changes passwords, the member or the console, does it one at a time.
NobodyEnables == "status" \notin Operations /\ "allow" \notin Edits
OnePasswordWriter ==
    \/ "password" \notin Operations
    \/ "password" \notin Edits /\ \A p, q \in Requests : p = q

\* With one writer, no password changes during a rebaselining.
LEMMA OneWriter ==
    ASSUME TypeOK, OnPath, OnePasswordWriter, [Next]_vars
    PROVE  NoChangeInBetween
<1> SUFFICES ASSUME user'.password > user.password, NEW r \in Requests, Rebasing(r)
             PROVE  FALSE
  BY DEF NoChangeInBetween
<1>1. ChangesPassword
  <2>1. user.password \in Nat /\ Gone.password = 0
    BY StampTypes
  <2> QED BY <2>1, CasdoorStep DEF Removes
<1>2. "password" \in Operations
  BY DEF Rebasing, OnPath, Running
<1>3. PICK p \in Requests : req[p].pc = "setpw"
  BY <1>1, <1>2 DEF ChangesPassword, OnePasswordWriter
<1> QED BY <1>2, <1>3 DEF OnePasswordWriter, Rebasing

\* An account that is not active has its user refused in Casdoor; so has one
\* whose user a comparison has listed as refused; and a comparison that has
\* not, of an account that is not active, holds a password from before.
Refusals ==
    /\ row.status # "active" => Off(user)
    /\ \A c \in Comparisons : Looking(c) /\ Off(cmp[c].u) => Off(user)
    /\ \A c \in Comparisons :
         Looking(c) /\ ~Off(cmp[c].u) /\ row.status # "active" /\ owed
            => cmp[c].u.password # user.password

\* With nobody to enable it, a refused user stays refused.
LEMMA OffStays ==
    ASSUME TypeOK, OnPath, NobodyEnables, [Next]_vars, Off(user)
    PROVE  Off(user)'
<1>0. user \in User
  BY DEF TypeOK
<1>1. \A r \in Requests : req[r].pc # "write"
  BY InputAssumption DEF OnPath, Running, StepsOf, NobodyEnables, AllOperations
<1>2. ASSUME NEW copy \in User, user' = Written(copy, TRUE) PROVE Off(user)'
  BY <1>2 DEF Written, User, Off
<1>3. ASSUME UNCHANGED user PROVE Off(user)'
  BY <1>3 DEF Off
<1>4. ASSUME NEW r \in Requests, StartRequest(r) \/ RequestStep(r) \/ RequestFault(r)
      PROVE  Off(user)'
  <2>1. CASE SetPassword(r) \/ DeleteFactors(r) \/ CallLost(r)
    BY <1>0, <1>1, <2>1 DEF SetPassword, DeleteFactors, CallLost, NewPassword, At, User, Off
  <2>2. ~WriteUser(r)
    BY <1>1 DEF WriteUser, At
  <2>3. ASSUME ~(SetPassword(r) \/ DeleteFactors(r) \/ CallLost(r)) PROVE UNCHANGED user
    BY <1>4, <2>2, <2>3 DEF StartRequest, RequestStep, RequestFault, StartStatus,
       StartLogout, StartReset, StartPassword, Allowed, Refused, Intend, Fence,
       ReadUser, NoUser, SetStatus, StaleStatus, SecurityChange, RefusedPassword,
       ReadBack, Baseline, ResetFactors, Unsealed, Fail, Crash
  <2> QED BY <1>3, <2>1, <2>3
<1>5. ASSUME NEW c \in Comparisons, CompareStep(c) \/ CompareFault(c)
      PROVE  Off(user)'
  <2>1. cmp[c].copy \in User
    BY DEF TypeOK, Comparison
  <2>2. CASE RollbackWrite(c) \/ RollbackLost(c)
    BY <1>2, <2>1, <2>2 DEF RollbackWrite, RollbackLost
  <2>3. ASSUME ~(RollbackWrite(c) \/ RollbackLost(c)) PROVE UNCHANGED user
    BY <1>5, <2>3 DEF CompareStep, CompareFault, BeginCompare, List, ConsoleIntent,
       Compare, RollbackRead, RollbackNoUser, Echo, UnsealedIntent, FailCompare,
       CrashCompare
  <2> QED BY <1>3, <2>2, <2>3
<1>6. ASSUME NEW edit \in Edits, ConsoleEdit(edit) PROVE Off(user)'
  BY <1>0, <1>6 DEF ConsoleEdit, NewPassword, NobodyEnables, User, Off, Gone
<1>7. CASE UNCHANGED vars \/ Tick
  BY <1>3, <1>7 DEF vars, Tick
<1> QED BY <1>4, <1>5, <1>6, <1>7 DEF Next

\* The status changes only by a comparison that has listed the user as refused.
LEMMA OnlyRefused ==
    ASSUME TypeOK, OnPath, NobodyEnables, [Next]_vars, row'.status # row.status
    PROVE  ~owed' /\ \E c \in Comparisons : Compares(c) /\ Off(cmp[c].u)
<1>1. \A r \in Requests : ~SetStatus(r)
  BY InputAssumption DEF SetStatus, At, OnPath, Running, StepsOf, NobodyEnables, AllOperations
<1>2. PICK c \in Comparisons : Compares(c)
  BY <1>1, BaselineStep DEF KeepsBaseline, Rebaselines
<1> QED BY <1>2 DEF Compares

\* Every step keeps the refusals.
LEMMA RefusalsStep ==
    ASSUME TypeOK, OnPath, NobodyEnables, Stamps, Refusals, [Next]_vars
    PROVE  Refusals'
<1>1. row'.status # "active" => Off(user)'
  <2>1. CASE row'.status = row.status
    BY <2>1, OffStays DEF Refusals
  <2>2. CASE row'.status # row.status
    BY <2>2, OnlyRefused, OffStays DEF Compares, Looking, Refusals
  <2> QED BY <2>1, <2>2
<1>2. ASSUME NEW c \in Comparisons, Looking(c)', Off(cmp'[c].u)
      PROVE  Off(user)'
  BY <1>2, LookStep, OffStays DEF Refusals, Off
<1>3. ASSUME NEW c \in Comparisons, Looking(c)', ~Off(cmp'[c].u),
             row'.status # "active", owed'
      PROVE  cmp'[c].u.password # user'.password
  <2>1. row'.status = row.status
    BY <1>3, OnlyRefused
  <2>2. Looking(c) /\ cmp'[c].u = cmp[c].u
    BY <1>3, <2>1, LookStep DEF Refusals
  <2>3. CASE user'.password = user.password /\ (owed' = owed \/ ~owed')
    BY <1>3, <2>1, <2>2, <2>3 DEF Refusals
  <2>4. CASE ChangesPassword
    BY <2>2, <2>4, StampTypes DEF ChangesPassword, Stamps, Known
  <2>5. CASE Removes
    <3>1. cmp[c].u # Gone
      BY <1>3, <2>2 DEF Off, Gone
    <3> QED BY <2>2, <2>5, <3>1, StampTypes DEF Removes, Stamps, Counted
  <2> QED BY <2>3, <2>4, <2>5, CasdoorStep
<1> QED BY <1>1, <1>2, <1>3 DEF Refusals

\* Where nobody enables, a rollback's baseline hides no change either.
LEMMA NeverMissedStep ==
    ASSUME TypeOK, OnPath, NobodyEnables, Stamps, OwedCompared, Refusals,
           NeverAMissedChange, [Next]_vars
    PROVE  NeverAMissedChange'
<1> SUFFICES ASSUME owed' PROVE row'.password # user'.password
  BY DEF NeverAMissedChange
<1>1. CASE KeepsBaseline
  BY <1>1, KeptBaselineSees DEF NeverAMissedChange
<1>2. ASSUME NEW c \in Comparisons, Compares(c) PROVE row'.password # user'.password
  BY <1>2 DEF Compares, Looking, OwedCompared, NeverAMissedChange, Refusals
<1> QED BY <1>1, <1>2, BaselineStep, OwedNotRebaselined

\* Where nobody makes the account active again and passwords have one writer,
\* no password change in Casdoor is ever missed, whatever the account's status,
\* however many handlers and comparisons run and whatever fails: it is still to
\* be seen by the next comparison until a security change followed it.
THEOREM NoChangeIsMissed ==
    ASSUME NobodyEnables, OnePasswordWriter
    PROVE  Spec => []NeverAMissedChange
<1> DEFINE Inv == OnPath /\ Stamps /\ OwedCompared /\ Refusals /\ NeverAMissedChange
<1>1. Init => Inv
  <2> SUFFICES ASSUME Init PROVE Inv
    OBVIOUS
  <2>1. OnPath
    BY DEF Init, OnPath, NoRequest, Running
  <2>2. row.status = "active" /\ owed = FALSE /\ \A c \in Comparisons : cmp[c].pc = "idle"
    BY DEF Init, NewRow, NoComparison
  <2>3. Refusals /\ NeverAMissedChange
    BY <2>2 DEF Refusals, Looking, NeverAMissedChange
  <2> QED BY <2>1, <2>3, StampsInit
<1>2. TypeOK /\ TypeOK' /\ Inv /\ [Next]_vars => Inv'
  <2> SUFFICES ASSUME TypeOK, TypeOK', Inv, [Next]_vars
               PROVE  Inv'
    OBVIOUS
  <2>1. NoChangeInBetween
    BY OneWriter
  <2> QED BY <2>1, OnPathStep, StampsStep, OwedStep, RefusalsStep, NeverMissedStep
<1> QED BY <1>1, <1>2, TypeCorrect, PTL DEF Spec

-----------------------------------------------------------------------------
(* What this member wrote is not taken for the console's.                  *)

\* One handler of the account at a time.
OneAtATime == \A p, q \in Requests : Running(req[p]) /\ Running(req[q]) => p = q

\* No budget is above its start.
Budgets == left.edits <= MaxEdits /\ left.faults <= MaxFaults

\* A step that is neither the console's nor a failure.
CalmNext ==
    \/ \E r \in Requests : StartRequest(r) \/ RequestStep(r)
    \/ \E c \in Comparisons : CompareStep(c)
    \/ Tick
    \/ UNCHANGED vars

\* The budgets only fall; after a step that leaves them full, nothing but the
\* member and time has taken a step.
LEMMA BudgetStep ==
    ASSUME TypeOK, Budgets, [Next]_vars
    PROVE  Budgets' /\ (Undisturbed' => Undisturbed /\ CalmNext)
<1>0. /\ left \in [requests : Nat, edits : Nat, faults : Nat]
      /\ left.edits \in Nat /\ left.faults \in Nat /\ MaxEdits \in Nat /\ MaxFaults \in Nat
  BY BoundAssumption DEF TypeOK
<1>1. ASSUME UNCHANGED left \/ Spend("requests"), CalmNext
      PROVE  Budgets' /\ (Undisturbed' => Undisturbed /\ CalmNext)
  BY <1>0, <1>1 DEF Spend, Budgets, Undisturbed
<1>2. ASSUME Spend("edits") \/ Spend("faults")
      PROVE  Budgets' /\ ~Undisturbed'
  BY <1>0, <1>2 DEF Spend, Budgets, Undisturbed
<1>3. ASSUME NEW r \in Requests, StartRequest(r)
      PROVE  Spend("requests")
  BY <1>3 DEF StartRequest, StartStatus, StartLogout, StartReset, StartPassword
<1>4. ASSUME NEW r \in Requests, RequestStep(r)
      PROVE  UNCHANGED left
  BY <1>4 DEF RequestStep, Allowed, Refused, Intend, Fence, ReadUser,
     WriteUser, NoUser, SetStatus, StaleStatus, SecurityChange, SetPassword,
     RefusedPassword, DeleteFactors, ReadBack, Baseline, ResetFactors
<1>5. ASSUME NEW c \in Comparisons, CompareStep(c)
      PROVE  UNCHANGED left
  BY <1>5 DEF CompareStep, BeginCompare, List, ConsoleIntent, Compare,
     RollbackRead, RollbackWrite, RollbackNoUser, Echo
<1>6. ASSUME NEW r \in Requests, RequestFault(r) PROVE Spend("faults")
  BY <1>6 DEF RequestFault, Unsealed, Fail, CallLost, Crash
<1>7. ASSUME NEW c \in Comparisons, CompareFault(c) PROVE Spend("faults")
  BY <1>7 DEF CompareFault, UnsealedIntent, FailCompare, RollbackLost, CrashCompare
<1>8. ASSUME NEW edit \in Edits, ConsoleEdit(edit) PROVE Spend("edits")
  BY <1>8 DEF ConsoleEdit
<1>9. UNCHANGED vars \/ Tick => UNCHANGED left
  BY DEF vars, Tick
<1>10. CalmNext \/ Spend("edits") \/ Spend("faults")
  BY <1>6, <1>7, <1>8 DEF Next, CalmNext
<1>11. CalmNext => UNCHANGED left \/ Spend("requests")
  BY <1>3, <1>4, <1>5, <1>9 DEF CalmNext
<1> QED BY <1>1, <1>2, <1>10, <1>11

\* A user as this member leaves it: the console has changed neither its
\* password nor its second factors, and has not deleted it.
AsBound(u) == ~u.deleted /\ u.password = 1 /\ u.factors = NoFactors

\* Until something disturbs it, Casdoor's user differs from the one that was
\* bound by what this member refuses only, and no comparison finds a rollback.
Calm ==
    /\ AsBound(user)
    /\ row.password \in {None, 1} /\ row.factors \in {None, NoFactors}
    /\ \A r \in Requests : req[r].pc \in {"write", "reset"} =>
         ~req[r].copy.deleted /\ req[r].copy.factors = NoFactors
    /\ \A c \in Comparisons : cmp[c].pc \notin {"read", "write"}
    /\ \A c \in Comparisons : Looking(c) => AsBound(cmp[c].u)

\* Casdoor's user is let in exactly when the account is active.
Matches(u) == (row.status = "active") = ~u.forbidden

\* What a running request's order says of the account and of the user.
Own(r) == Running(req[r]) /\ req[r].op = "status"
Orders ==
    \A r \in Requests : Own(r) =>
      /\ req[r].pc \in {"ask", "intend", "fence", "set"} \/ req[r].then = "set"
           => req[r].seen.version = row.version
      /\ req[r].pc \in {"read", "write"} /\ req[r].then = "end"
           => req[r].target = row.status
      /\ req[r].pc = "fence" \/ req[r].then = "set" => req[r].target = "active"
      /\ req[r].pc = "intend" => req[r].target # "active"
      /\ req[r].pc = "set" => (req[r].then = "set" <=> req[r].target = "active")
      /\ req[r].pc = "set" /\ req[r].then = "set" => ~user.forbidden

\* A handler between its two writes, the account's row and Casdoor's user.
Behind(r) ==
    /\ Own(r) /\ since <= req[r].age
    /\ \/ req[r].pc \in {"read", "write"} /\ req[r].then = "end"
       \/ req[r].pc = "set" /\ req[r].then = "set"
Agrees == Matches(user) \/ \E r \in Requests : Behind(r)

\* A comparison's list agrees with the account, or is too young to judge it.
Looks == \A c \in Comparisons : Looking(c) => Recent(c) \/ Matches(cmp[c].u)

\* The effects of the requests' steps in the calm.
Writes(r) ==
    /\ WriteUser(r) /\ req[r].op = "status" /\ AsBound(user)'
    /\ user'.forbidden = (req[r].target # "active")
    /\ req[r].pc = "write" /\ UNCHANGED <<row, since, kept, cmp>>
    /\ IF req[r].then = "set" THEN Passes(r, "write", "set") ELSE ~Running(req'[r])
Commits(r) ==
    /\ SetStatus(r) /\ req[r].op = "status"
    /\ row'.status = req[r].target /\ row'.password = row.password /\ row'.factors = row.factors
    /\ since' = 0 /\ kept'.source = "adapter" /\ UNCHANGED <<user, cmp>>
    /\ req[r].pc = "set"
    /\ req[r].target # "active" => Passes(r, "set", "read") /\ req'[r].then = "end"
Secures(r) ==
    /\ req[r].pc \in {"change", "reset"} /\ req[r].op # "status"
    /\ row'.status = row.status /\ row'.password = row.password
    /\ row'.factors \in {row.factors, NoFactors}
    /\ UNCHANGED <<since, kept, user, cmp>>
Fences(r) == req[r].pc = "fence" /\ since' = 0 /\ UNCHANGED <<row, kept, user, cmp>>
Waits(r) ==
    /\ req[r].pc = "set" => req[r].seen.version # row.version
    /\ UNCHANGED <<row, since, kept, user, cmp>>
    /\ StartRequest(r) \/ req[r].pc # "write"
    /\ req[r].pc = "read" => StartRequest(r) \/ Passes(r, "read", "write")
CalmRequest(r) == Writes(r) \/ Commits(r) \/ Secures(r) \/ Fences(r) \/ Waits(r)

\* In the calm a request writes the user, commits a status, makes a security
\* change of another kind, fences or changes nothing shared.
LEMMA CalmRequestSteps ==
    ASSUME TypeOK, OnPath, "password" \notin Operations, Calm,
           NEW r \in Requests, StartRequest(r) \/ RequestStep(r)
    PROVE  CalmRequest(r)
<1>0. /\ user \in User /\ row \in Row /\ req[r] \in Request
      /\ req[r].copy \in User /\ AsBound(user) /\ user # Gone
  BY DEF TypeOK, Request, Calm, AsBound, Gone
<1>1. /\ req[r].pc \in {"ask", "fence", "read", "write", "set"} => req[r].op = "status"
      /\ req[r].pc \in {"change", "reset"} => req[r].op # "status"
      /\ req[r].pc \notin {"setpw", "baseline"}
  BY InputAssumption DEF OnPath, Running, StepsOf, AllOperations
<1>2. ASSUME NEW w \in Row, NEW k, NEW e, NEW keep, ChangeEv(w, keep, k, e)
      PROVE  /\ row'.password = w.password /\ row'.status = w.status
             /\ row'.factors = w.factors
  BY <1>2 DEF ChangeEv, Changed, Row
<1>12. ASSUME NEW ev, End(r, ev) PROVE ~Running(req'[r])
  BY <1>12 DEF End, TypeOK, NoRequest, Running
<1>3. CASE WriteUser(r)
  <2>1. req[r].pc = "write" /\ ~req[r].copy.deleted /\ req[r].copy.factors = NoFactors
    BY <1>3 DEF WriteUser, At, Calm
  <2>2. /\ user' = Written(req[r].copy, req[r].target # "active")
        /\ UNCHANGED <<row, since, kept, cmp>>
    BY <1>3 DEF WriteUser, local
  <2>3. AsBound(user)' /\ user'.forbidden = (req[r].target # "active")
    BY <1>0, <2>1, <2>2 DEF Written, User, AsBound
  <2>4. IF req[r].then = "set" THEN req'[r].pc = "set" ELSE ~Running(req'[r])
    <3>1. CASE req[r].then = "set"
      BY <1>0, <1>3, <3>1 DEF WriteUser, Goto, TypeOK, Request
    <3>2. CASE req[r].then # "set"
      BY <1>3, <1>12, <3>2 DEF WriteUser
    <3> QED BY <3>1, <3>2
  <2> QED BY <1>1, <1>3, <2>1, <2>2, <2>3, <2>4 DEF Writes, CalmRequest, Passes
<1>4. CASE SetStatus(r)
  <2> DEFINE w == WithStatus(row, req[r].target, req[r].mark)
  <2>1. req[r].target \in Statuses /\ req[r].mark \in Marks
    BY DEF TypeOK, Request
  <2>2. /\ w \in Row /\ w.password = row.password /\ w.factors = row.factors
        /\ w.status = req[r].target
    BY <1>0, <2>1 DEF WithStatus, Row
  <2>3. \E k, e : ChangeEv(w, {}, k, e)
    BY <1>4 DEF SetStatus
  <2>4. /\ req[r].pc = "set" /\ since' = 0 /\ kept'.source = "adapter"
        /\ UNCHANGED <<user, cmp>>
    BY <1>4 DEF SetStatus, At
  <2> HIDE DEF w
  <2>5. /\ row'.status = req[r].target /\ row'.password = row.password
        /\ row'.factors = row.factors
    BY <1>2, <2>2, <2>3
  <2>6. ASSUME req[r].target # "active"
        PROVE  req'[r].pc = "read" /\ req'[r].then = "end"
    <3>1. req' = [req EXCEPT ![r].pc = "read", ![r].then = "end", ![r].ev = Concluded(@)]
      BY <1>4, <2>6 DEF SetStatus
    <3> QED BY <1>0, <3>1 DEF TypeOK, Request
  <2> QED BY <1>1, <1>4, <2>4, <2>5, <2>6 DEF Commits, CalmRequest, Passes
<1>5. CASE SecurityChange(r)
  <2>1. /\ row'.password = row.password /\ row'.status = row.status
        /\ row'.factors = row.factors
    BY <1>0, <1>2, <1>5 DEF SecurityChange
  <2> QED BY <1>1, <1>5, <2>1 DEF SecurityChange, At, Secures, CalmRequest
<1>6. CASE ResetFactors(r)
  <2> DEFINE f == IF row.factors = None THEN None ELSE req[r].copy.factors
             w == [row EXCEPT !.factors = f]
  <2>1. req[r].pc = "reset" /\ UNCHANGED <<since, kept, user, cmp>>
    BY <1>6 DEF ResetFactors, At
  <2>2. f \in {row.factors, NoFactors} /\ f \in Factors \union {None}
    BY <1>0, <2>1, NoFactorsAssumption DEF Calm
  <2>3. w \in Row /\ w.status = row.status /\ w.password = row.password /\ w.factors = f
    BY <1>0, <2>2 DEF Row
  <2>4. ChangeEv(w, {}, None, None)
    BY <1>6 DEF ResetFactors
  <2> HIDE DEF w, f
  <2>5. /\ row'.password = row.password /\ row'.status = row.status /\ row'.factors = f
    BY <1>2, <2>3, <2>4
  <2> QED BY <1>1, <2>1, <2>2, <2>5 DEF Secures, CalmRequest
<1>7. CASE Fence(r)
  BY <1>7 DEF Fence, Fences, CalmRequest, At
<1>8. CASE DeleteFactors(r)
  <2>1. user' = user
    BY <1>0, <1>8 DEF DeleteFactors, AsBound, User
  <2>2. req[r].pc = "delete" /\ UNCHANGED <<row, since, kept, cmp>>
    BY <1>8 DEF DeleteFactors, At, local
  <2> QED BY <2>1, <2>2 DEF Waits, CalmRequest
<1>9. CASE StartRequest(r)
  <2>1. UNCHANGED <<row, since, kept, user, cmp>> /\ ~Running(req[r])
    BY <1>9 DEF StartRequest, StartStatus, StartLogout, StartReset, StartPassword,
       local, Free
  <2> QED BY <1>9, <2>1 DEF Running, Waits, CalmRequest
<1>10. ASSUME SetPassword(r) \/ RefusedPassword(r) \/ Baseline(r) \/ NoUser(r) PROVE FALSE
  BY <1>0, <1>1, <1>10 DEF SetPassword, RefusedPassword, Baseline, NoUser, At
<1>11. ASSUME \/ Allowed(r) \/ Refused(r) \/ Intend(r) \/ StaleStatus(r) \/ ReadBack(r)
       PROVE  CalmRequest(r)
  BY <1>11 DEF Allowed, Refused, Intend, StaleStatus, Fresh, ReadBack, At, local, Waits, CalmRequest
<1>13. CASE ReadUser(r)
  <2>1. req'[r].pc = "write"
    BY <1>0, <1>13 DEF ReadUser, TypeOK, Request
  <2> QED BY <1>13, <2>1 DEF ReadUser, At, local, Waits, Passes, CalmRequest
<1> QED BY <1>3, <1>4, <1>5, <1>6, <1>7, <1>8, <1>9, <1>10, <1>11,
           <1>13 DEF RequestStep

\* In the calm a comparison changes at most the baselines: it takes in no
\* disablement, sees no rollback and finds no other change.
LEMMA CalmCompareSteps ==
    ASSUME TypeOK, Calm, Looks, NEW c \in Comparisons, CompareStep(c)
    PROVE  /\ UNCHANGED <<since, kept, user, req>>
           /\ row'.status = row.status /\ row'.version = row.version
           /\ row'.password \in {row.password, 1} /\ row'.factors \in {row.factors, NoFactors}
           /\ \A d \in Comparisons : cmp'[d].pc \notin {"read", "write"}
           /\ \A d \in Comparisons : Looking(d)' => cmp'[d].age = cmp[d].age
<1>0. /\ cmp \in [Comparisons -> Comparison] /\ cmp[c] \in Comparison
      /\ cmp[c].u \in User /\ user \in User /\ row \in Row /\ user # Gone
      /\ NoComparison \in Comparison
  BY IdleComparison, NewRowType DEF TypeOK, Comparison, Calm, AsBound, Gone, Phases
<1>1. \A d \in Comparisons : d # c => cmp'[d] = cmp[d]
  BY <1>0 DEF CompareStep, BeginCompare, List, ConsoleIntent, Compare, RollbackRead,
     RollbackWrite, RollbackNoUser, Echo, Stop
<1>2. ASSUME cmp'[c].pc \notin {"read", "write"}, Looking(c)' => cmp'[c].age = cmp[c].age
      PROVE  /\ \A d \in Comparisons : cmp'[d].pc \notin {"read", "write"}
             /\ \A d \in Comparisons : Looking(d)' => cmp'[d].age = cmp[d].age
  BY <1>1, <1>2 DEF Calm
<1>3. ASSUME cmp'[c].pc \notin {"read", "write"}, Looking(c)' => cmp'[c].age = cmp[c].age,
             UNCHANGED <<row, since, kept, user, req>>
      PROVE  /\ UNCHANGED <<since, kept, user, req>>
             /\ row'.status = row.status /\ row'.version = row.version
             /\ row'.password \in {row.password, 1} /\ row'.factors \in {row.factors, NoFactors}
             /\ \A d \in Comparisons : cmp'[d].pc \notin {"read", "write"}
             /\ \A d \in Comparisons : Looking(d)' => cmp'[d].age = cmp[d].age
  BY <1>2, <1>3
<1>4. CASE BeginCompare(c)
  <2>1. cmp'[c].pc = "list"
    BY <1>0, <1>4 DEF BeginCompare, Comparison
  <2> QED BY <1>3, <1>4, <2>1 DEF BeginCompare, Looking, local
<1>5. CASE List(c)
  <2>1. cmp'[c].pc = "look" /\ cmp'[c].age = cmp[c].age
    BY <1>0, <1>5 DEF List, Comparison
  <2> QED BY <1>3, <1>5, <2>1 DEF List, local
<1>6. CASE ConsoleIntent(c)
  <2>1. cmp'[c].pc = "compare" /\ cmp'[c].age = cmp[c].age
    BY <1>0, <1>6 DEF ConsoleIntent, Comparison
  <2> QED BY <1>3, <1>6, <2>1 DEF ConsoleIntent, local
<1>7. CASE Echo(c)
  <2>1. cmp'[c].pc = "idle"
    BY <1>0, <1>7 DEF Echo, Stop, Comparison
  <2> QED BY <1>3, <1>7, <2>1 DEF Echo, Looking, local
<1>8. ~(RollbackRead(c) \/ RollbackWrite(c) \/ RollbackNoUser(c))
  BY DEF RollbackRead, RollbackWrite, RollbackNoUser, Step, Calm
<1>9. CASE Compare(c)
  <2> DEFINE u == cmp[c].u
             recent == Recent(c)
             e == IF cmp[c].ev = "intent" THEN c ELSE None
             after == ComparedRow(row, u, recent, e)
             reason == CompareReason(row, u, recent)
             rollback == SeesRollback(row, u, recent)
  <2>1. /\ recent \in BOOLEAN /\ e \in Writers \union {None} /\ u \in User
        /\ AsBound(u) /\ (recent \/ Matches(u))
    BY <1>9, WritersAssumption DEF Recent, TypeOK, Comparison, Compare, Step, Calm, Looks, Looking
  <2> HIDE DEF u, recent, e
  <2>2. ~TakesDisablement(row, u, recent) /\ ~rollback
    BY <2>1 DEF AsBound, Matches, TakesDisablement, SeesRollback, Off
  <2>3. ~PasswordChanged(row, u) /\ ~FactorsChanged(row, u)
    BY <2>1 DEF AsBound, PasswordChanged, FactorsChanged, Calm
  <2>4. reason = "none"
    BY <2>2, <2>3 DEF CompareReason
  <2>5. /\ after.password = 1 /\ after.factors = NoFactors
        /\ after.status = row.status /\ after.version = row.version
    BY <1>0, <2>1, <2>4, ComparedBaseline, ComparedRowFacts DEF AsBound
  <2>6. row' = after /\ UNCHANGED <<since, user, req>>
    BY <1>9 DEF Compare, u, recent, e
  <2>7. UNCHANGED kept
    BY <1>9, <2>2, <2>4 DEF Compare, u, recent, e
  <2>8. cmp'[c].pc = "done"
    BY <1>0, <1>9, <2>2 DEF Compare, u, recent, Comparison
  <2> HIDE DEF after
  <2> QED BY <1>2, <2>5, <2>6, <2>7, <2>8 DEF Looking
<1> QED BY <1>4, <1>5, <1>6, <1>7, <1>8, <1>9 DEF CompareStep

\* Time in the calm.
LEMMA CalmTick ==
    ASSUME TypeOK, Tick
    PROVE  /\ UNCHANGED <<row, kept, user>> /\ since' <= since + 1
           /\ \A c \in Comparisons :
                /\ cmp'[c].pc = cmp[c].pc /\ cmp'[c].u = cmp[c].u
                /\ Looking(c) => cmp'[c].age = cmp[c].age + 1
<1>1. since' <= since + 1
  BY TimeAssumption DEF Tick, TypeOK, Old
<1>2. ASSUME NEW c \in Comparisons
      PROVE  /\ cmp'[c].pc = cmp[c].pc /\ cmp'[c].u = cmp[c].u
             /\ Looking(c) => cmp'[c].age = cmp[c].age + 1
  <2>1. cmp[c] \in Comparison
    BY DEF TypeOK
  <2>2. cmp'[c] = IF Running(cmp[c]) THEN [cmp[c] EXCEPT !.age = @ + 1] ELSE cmp[c]
    BY DEF Tick
  <2> QED BY <2>1, <2>2 DEF Comparison, Looking, Running
<1> QED BY <1>1, <1>2 DEF Tick

\* The calm lasts.
LEMMA CalmKept ==
    ASSUME TypeOK, OnPath, "password" \notin Operations, Calm, Looks, [Next]_vars, CalmNext
    PROVE  Calm'
<1> DEFINE Shared ==
             /\ AsBound(user)' /\ row'.password \in {None, 1} /\ row'.factors \in {None, NoFactors}
             /\ \A c \in Comparisons : cmp'[c].pc \notin {"read", "write"}
<1>1. ASSUME NEW r \in Requests, StartRequest(r) \/ RequestStep(r)
      PROVE  Shared
  <2>1. CalmRequest(r)
    BY <1>1, CalmRequestSteps
  <2>2. UNCHANGED cmp /\ AsBound(user)'
    BY <2>1 DEF CalmRequest, Writes, Commits, Secures, Fences, Waits, Calm, AsBound
  <2>3. row'.password = row.password /\ row'.factors \in {row.factors, NoFactors}
    BY <2>1 DEF CalmRequest, Writes, Commits, Secures, Fences, Waits
  <2> QED BY <2>2, <2>3 DEF Calm
<1>2. ASSUME NEW c \in Comparisons, CompareStep(c)
      PROVE  Shared
  BY <1>2, CalmCompareSteps DEF Calm, AsBound
<1>3. ASSUME Tick PROVE Shared
  BY <1>3, CalmTick DEF Calm, AsBound
<1>4. ASSUME UNCHANGED vars PROVE Shared
  BY <1>4 DEF vars, Calm, AsBound
<1>5. Shared
  BY <1>1, <1>2, <1>3, <1>4 DEF CalmNext
<1> HIDE DEF Shared
<1>6. ASSUME NEW c \in Comparisons, Looking(c)' PROVE AsBound(cmp[c].u)'
  BY <1>6, LookStep DEF Calm, AsBound
<1>7. ASSUME NEW r \in Requests, req'[r].pc \in {"write", "reset"}
      PROVE  ~req'[r].copy.deleted /\ req'[r].copy.factors = NoFactors
  <2>1. CASE req'[r] = req[r]
    BY <1>7, <2>1 DEF Calm
  <2>2. CASE ~Running(req'[r]) \/ Starts(r)
    BY <1>7, <2>2 DEF Running, Starts
  <2>3. CASE GoesOn(r)
    <3>1. req[r].op \in AllOperations
      BY DEF TypeOK, Request
    <3>2. req'[r].copy = user
      BY <1>7, <2>3, <3>1 DEF GoesOn, Passes, AfterIntent, AllOperations
    <3> QED BY <3>2 DEF Calm, AsBound
  <2>4. CASE Ages(r)
    BY <1>7, <2>4 DEF Ages, Calm
  <2> QED BY <2>1, <2>2, <2>3, <2>4, RequestsMove
<1> QED BY <1>5, <1>6, <1>7 DEF Calm, Shared

\* A step of a request in the calm is a start or the step of a handler that
\* runs; it is the only one that runs, then.
LEMMA OneRunner ==
    ASSUME OneAtATime, NEW r \in Requests, StartRequest(r) \/ RequestStep(r)
    PROVE  /\ StartRequest(r) => ~Running(req[r]) /\ UNCHANGED <<row, since, user>>
           /\ ~StartRequest(r) => \A q \in Requests : Running(req[q]) => q = r
<1>1. StartRequest(r) => ~Running(req[r]) /\ UNCHANGED <<row, since, user>>
  BY DEF StartRequest, StartStatus, StartLogout, StartReset, StartPassword, Free, local
<1>2. RequestStep(r) => Running(req[r])
  BY DEF RequestStep, Allowed, Refused, Intend, Fence, ReadUser, WriteUser,
     NoUser, SetStatus, StaleStatus, SecurityChange, SetPassword, RefusedPassword,
     DeleteFactors, ReadBack, Baseline, ResetFactors, At, Running
<1> QED BY <1>1, <1>2 DEF OneAtATime

\* One request's order.
Order(r) ==
      /\ req[r].pc \in {"ask", "intend", "fence", "set"} \/ req[r].then = "set"
           => req[r].seen.version = row.version
      /\ req[r].pc \in {"read", "write"} /\ req[r].then = "end"
           => req[r].target = row.status
      /\ req[r].pc = "fence" \/ req[r].then = "set" => req[r].target = "active"
      /\ req[r].pc = "intend" => req[r].target # "active"
      /\ req[r].pc = "set" => (req[r].then = "set" <=> req[r].target = "active")
      /\ req[r].pc = "set" /\ req[r].then = "set" => ~user.forbidden

\* A running request's order is kept.
LEMMA OrdersStep ==
    ASSUME TypeOK, RequestShape, OnPath, "password" \notin Operations, OneAtATime,
           Calm, Looks, Orders, [Next]_vars, CalmNext
    PROVE  Orders'
<1> SUFFICES ASSUME NEW q \in Requests, Own(q)' PROVE Order(q)'
  BY DEF Orders, Order
<1>0. Own(q) => Order(q)
  BY DEF Orders, Order
<1>1. ASSUME req'[q] = req[q] \/ Ages(q), row'.status = row.status,
             row'.version = row.version, UNCHANGED user
      PROVE  Order(q)'
  <2>1. CASE req'[q] = req[q]
    BY <1>0, <1>1, <2>1 DEF Own, Order
  <2>2. CASE Ages(q)
    BY <1>0, <1>1, <2>2 DEF Ages, Own, Order
  <2> QED BY <1>1, <2>1, <2>2
<1>2. ASSUME NEW r \in Requests, StartRequest(r) \/ RequestStep(r), q # r
      PROVE  Order(q)'
  <2>1. req'[q] = req[q] /\ Running(req[q])
    BY <1>2, RequestPath DEF Own
  <2>2. StartRequest(r) /\ UNCHANGED <<row, user>>
    BY <1>2, <2>1, OneRunner
  <2> QED BY <1>1, <2>1, <2>2
<1>3. ASSUME StartRequest(q) \/ RequestStep(q)
      PROVE  Order(q)'
  <2>1. CalmRequest(q)
    BY <1>3, CalmRequestSteps
  <2>2. Starts(q) \/ GoesOn(q)
    BY <1>3, RequestPath DEF Own
  <2>3. CASE Starts(q)
    <3>1. UNCHANGED <<row, user>>
      BY <2>1, <2>3 DEF Starts, Running, CalmRequest, Writes, Commits, Secures, Fences, Waits
    <3> QED BY <2>3, <3>1 DEF Starts, Seen, Own, Order
  <2>4. CASE GoesOn(q)
    <3>1. Own(q) /\ Order(q) /\ req[q].op = "status"
      BY <1>0, <2>4 DEF Own, GoesOn, Passes, Running
    <3>2. req[q].pc \in {"ask", "intend", "fence", "read", "write", "set"}
      BY <3>1 DEF OnPath, Own, StepsOf
    <3>3. /\ req'[q].target = req[q].target /\ req'[q].seen = req[q].seen
          /\ req[q].then \in {"set", "end"}
      BY <2>4 DEF GoesOn, TypeOK, Request
    <3>4. CASE req[q].pc \in {"ask", "intend"}
      <4>1. UNCHANGED <<row, user>>
        BY <2>1, <3>4 DEF CalmRequest, Writes, Commits, Secures, Fences, Waits
      <4>2. /\ req'[q].then = "end"
            /\ \/ Passes(q, "ask", IF req[q].target = "active" THEN "fence" ELSE "intend")
               \/ Passes(q, "intend", "set")
        BY <2>4, <3>1, <3>4 DEF GoesOn, Passes, AfterIntent, RequestShape
      <4> QED BY <3>1, <3>3, <4>1, <4>2 DEF Passes, Order
    <3>5. CASE req[q].pc = "fence"
      <4>1. UNCHANGED <<row, user>>
        BY <2>1, <3>5 DEF CalmRequest, Writes, Commits, Secures, Fences, Waits
      <4>2. Passes(q, "fence", "read") /\ req'[q].then = "set"
        BY <2>4, <3>5 DEF GoesOn, Passes
      <4> QED BY <3>1, <3>3, <4>1, <4>2 DEF Passes, Order
    <3>6. CASE req[q].pc = "read"
      <4>1. UNCHANGED <<row, user>>
        BY <2>1, <3>6 DEF CalmRequest, Writes, Commits, Secures, Fences, Waits
      <4>2. Passes(q, "read", "write") /\ req'[q].then = req[q].then
        BY <2>4, <3>6 DEF GoesOn, Passes
      <4> QED BY <3>1, <3>3, <4>1, <4>2 DEF Passes, Order
    <3>7. CASE req[q].pc = "write"
      <4>1. UNCHANGED row /\ user'.forbidden = (req[q].target # "active")
        <5>1. ~StartRequest(q)
          BY <3>7, OneRunner DEF Running
        <5> QED BY <2>1, <3>7, <5>1 DEF CalmRequest, Writes, Commits, Secures, Fences, Waits
      <4>2. Passes(q, "write", "set") /\ req[q].then = "set" /\ req'[q].then = "set"
        BY <2>4, <3>7 DEF GoesOn, Passes
      <4> QED BY <3>1, <3>3, <4>1, <4>2 DEF Passes, Order
    <3>8. CASE req[q].pc = "set"
      <4>1. row'.status = req[q].target
        BY <2>1, <3>1, <3>8 DEF CalmRequest, Writes, Commits, Secures, Fences, Waits, Order
      <4>2. Passes(q, "set", "read") /\ req'[q].then = "end"
        BY <2>4, <3>8 DEF GoesOn, Passes
      <4> QED BY <3>1, <3>3, <4>1, <4>2 DEF Passes, Order
    <3> QED BY <3>2, <3>4, <3>5, <3>6, <3>7, <3>8
  <2> QED BY <2>2, <2>3, <2>4
<1>4. ASSUME NEW c \in Comparisons, CompareStep(c)
      PROVE  Order(q)'
  BY <1>1, <1>4, CalmCompareSteps
<1>5. CASE Tick
  <2>1. req'[q] = req[q] \/ Ages(q)
    BY <1>5, TimePasses
  <2> QED BY <1>1, <1>5, <2>1, CalmTick
<1>6. CASE UNCHANGED vars
  BY <1>1, <1>6 DEF vars
<1> QED BY <1>2, <1>3, <1>4, <1>5, <1>6 DEF CalmNext

\* Casdoor agrees with the account, or the handler between its two writes
\* brings it to.
LEMMA AgreesStep ==
    ASSUME TypeOK, FenceYoung, OnPath, "password" \notin Operations, OneAtATime,
           Calm, Looks, Orders, Agrees, [Next]_vars, CalmNext
    PROVE  Agrees'
<1>0. /\ since \in Nat /\ \A q \in Requests : req[q].age \in Nat /\ req[q].then \in {"set", "end"}
      /\ Calm'
  BY CalmKept, TimeAssumption DEF TypeOK, Old, Request
<1>1. ASSUME row'.status = row.status, UNCHANGED <<user, since>>,
             \A q \in Requests : Behind(q) => req'[q] = req[q]
      PROVE  Agrees'
  <2>1. CASE Matches(user)
    BY <1>1, <2>1 DEF Agrees, Matches
  <2>2. ASSUME NEW q \in Requests, Behind(q) PROVE Behind(q)'
    BY <1>1, <2>2 DEF Behind, Own
  <2> QED BY <2>1, <2>2 DEF Agrees
<1>2. ASSUME NEW r \in Requests, StartRequest(r)
      PROVE  Agrees'
  <2>1. ~Running(req[r]) /\ UNCHANGED <<row, since, user>>
    BY <1>2, OneRunner
  <2>2. \A q \in Requests : Behind(q) => req'[q] = req[q]
    BY <1>2, <2>1, RequestPath DEF Behind, Own
  <2> QED BY <1>1, <2>1, <2>2
<1>3. ASSUME NEW r \in Requests, RequestStep(r), ~StartRequest(r)
      PROVE  Agrees'
  <2>1. CalmRequest(r) /\ \A q \in Requests : Running(req[q]) => q = r
    BY <1>3, CalmRequestSteps, OneRunner
  <2>2. Matches(user) \/ Behind(r)
    BY <2>1 DEF Agrees, Behind, Own
  <2>3. ASSUME NEW from, NEW to \in RequestSteps \ {"idle", "crashed"}, Passes(r, from, to),
               from \in RequestSteps \ {"idle", "crashed"}
        PROVE  /\ req'[r].op = req[r].op /\ req'[r].age = req[r].age
               /\ Running(req[r]) /\ Running(req'[r])
               /\ from \in {"read", "write"} /\ to \in {"write", "set"} => req'[r].then = req[r].then
    <3>1. Running(req[r]) /\ Running(req'[r])
      BY <2>3 DEF Passes, Running
    <3>2. GoesOn(r)
      BY <1>3, <3>1, RequestPath DEF Starts
    <3> QED BY <2>3, <3>1, <3>2 DEF GoesOn, Passes, RequestSteps
  <2>4. CASE Writes(r)
    <3>1. Own(r) /\ Order(r)
      BY <2>4 DEF Writes, Own, Running, Orders, Order
    <3>2. CASE req[r].then = "set"
      <4>1. Enabling(r)
        BY <2>4, <3>1, <3>2 DEF Writes, Order, Enabling
      <4>2. Passes(r, "write", "set") /\ UNCHANGED since
        BY <2>4, <3>2 DEF Writes
      <4>3. /\ req'[r].op = req[r].op /\ req'[r].age = req[r].age
            /\ Running(req'[r]) /\ req'[r].then = "set"
        BY <2>3, <3>2, <4>2 DEF RequestSteps
      <4>4. since <= req[r].age
        BY <4>1 DEF FenceYoung
      <4>5. Behind(r)'
        BY <3>1, <4>2, <4>3, <4>4 DEF Behind, Own, Passes
      <4> QED BY <4>5 DEF Agrees
    <3>3. CASE req[r].then = "end"
      <4>1. Matches(user)'
        BY <2>4, <3>1, <3>3 DEF Writes, Order, Matches
      <4> QED BY <4>1 DEF Agrees
    <3> QED BY <1>0, <3>2, <3>3
  <2>5. CASE Commits(r)
    <3>1. Own(r) /\ Order(r)
      BY <2>5 DEF Commits, Own, Running, Orders, Order
    <3>2. CASE req[r].target = "active"
      <4>1. Matches(user)'
        BY <2>5, <3>1, <3>2 DEF Commits, Order, Matches
      <4> QED BY <4>1 DEF Agrees
    <3>3. CASE req[r].target # "active"
      <4>1. Passes(r, "set", "read") /\ req'[r].then = "end" /\ since' = 0
        BY <2>5, <3>3 DEF Commits
      <4>2. req'[r].op = req[r].op /\ req'[r].age = req[r].age /\ Running(req'[r])
        BY <2>3, <4>1 DEF RequestSteps
      <4>3. Behind(r)'
        BY <1>0, <3>1, <4>1, <4>2 DEF Behind, Own, Passes
      <4> QED BY <4>3 DEF Agrees
    <3> QED BY <3>2, <3>3
  <2>6. CASE Secures(r) \/ Fences(r)
    <3>1. ~Behind(r) /\ row'.status = row.status /\ UNCHANGED user
      BY <2>6 DEF Secures, Fences, Behind, Own
    <3> QED BY <2>2, <3>1 DEF Agrees, Matches
  <2>7. CASE Waits(r)
    <3>0. UNCHANGED <<row, since, user>>
      BY <2>7 DEF Waits
    <3>1. CASE Matches(user)
      BY <3>0, <3>1 DEF Agrees, Matches
    <3>2. CASE Behind(r)
      <4>1. req[r].pc = "read" /\ req[r].then = "end"
        BY <1>3, <2>7, <3>2 DEF Waits, Behind, Orders
      <4>2. Passes(r, "read", "write")
        BY <1>3, <2>7, <4>1 DEF Waits
      <4>3. /\ req'[r].op = req[r].op /\ req'[r].age = req[r].age /\ Running(req'[r])
            /\ req'[r].then = "end"
        BY <2>3, <4>1, <4>2 DEF RequestSteps
      <4>4. Behind(r)'
        BY <3>0, <3>2, <4>2, <4>3 DEF Behind, Own, Passes
      <4> QED BY <4>4 DEF Agrees
    <3> QED BY <2>2, <3>1, <3>2
  <2> QED BY <2>1, <2>4, <2>5, <2>6, <2>7 DEF CalmRequest
<1>4. ASSUME NEW c \in Comparisons, CompareStep(c)
      PROVE  Agrees'
  BY <1>1, <1>4, CalmCompareSteps
<1>5. ASSUME Tick PROVE Agrees'
  <2>1. UNCHANGED <<row, user>> /\ since' <= since + 1 /\ since' \in Nat
    BY <1>0, <1>5, CalmTick, TimeAssumption DEF Tick, Old
  <2>2. ASSUME NEW q \in Requests, Behind(q) PROVE Behind(q)'
    <3>1. Running(req[q]) /\ since <= req[q].age
      BY <2>2 DEF Behind, Own
    <3>2. Ages(q)
      <4>1. req[q] \in Request /\ req[q].age + 1 # req[q].age
        BY <1>0 DEF TypeOK
      <4>2. req'[q].age = req[q].age + 1
        BY <1>5, <3>1, <4>1 DEF Tick, Request
      <4> QED BY <1>5, <4>1, <4>2, TimePasses
    <3> QED BY <1>0, <2>1, <2>2, <3>1, <3>2 DEF Behind, Own, Ages, Running
  <2> QED BY <2>1, <2>2 DEF Agrees, Matches
<1>6. ASSUME UNCHANGED vars PROVE Agrees'
  BY <1>1, <1>6 DEF vars
<1> QED BY <1>2, <1>3, <1>4, <1>5, <1>6 DEF CalmNext

\* A user list taken in the calm agrees with the account or is too young.
LEMMA LooksStep ==
    ASSUME TypeOK, OnPath, "password" \notin Operations,
           Calm, Looks, Agrees, [Next]_vars, CalmNext
    PROVE  Looks'
<1> SUFFICES ASSUME NEW c \in Comparisons, Looking(c)'
             PROVE  Recent(c)' \/ Matches(cmp[c].u)'
  BY DEF Looks
<1>0. /\ since \in Nat /\ cmp[c].age \in Nat /\ InFlight \in Nat /\ Deadline \in Nat
      /\ Deadline < InFlight /\ \A q \in Requests : req[q].age \in Nat /\ req[q].age <= Deadline
  BY TimeAssumption DEF TypeOK, Old, Request, Comparison
<1>1. ASSUME Looking(c), cmp'[c].u = cmp[c].u, row'.status = row.status,
             since' - cmp'[c].age <= since - cmp[c].age,
             since' \in Nat, cmp'[c].age \in Nat
      PROVE  Recent(c)' \/ Matches(cmp[c].u)'
  <2>1. CASE Matches(cmp[c].u)
    BY <1>1, <2>1 DEF Matches
  <2>2. CASE since < cmp[c].age + InFlight
    <3>1. since' < cmp'[c].age + InFlight
      BY <1>0, <1>1, <2>2
    <3> QED BY <3>1 DEF Recent
  <2> QED BY <1>1, <2>1, <2>2 DEF Looks, Recent
<1>2. ASSUME NEW r \in Requests, StartRequest(r) \/ RequestStep(r)
      PROVE  Recent(c)' \/ Matches(cmp[c].u)'
  <2>1. CalmRequest(r) /\ UNCHANGED cmp
    BY <1>2, CalmRequestSteps DEF CalmRequest, Writes, Commits, Secures, Fences, Waits
  <2>2. CASE since' = 0
    <3>1. since' < cmp'[c].age + InFlight
      BY <1>0, <2>1, <2>2
    <3> QED BY <3>1 DEF Recent
  <2>3. CASE since' # 0
    <3>1. UNCHANGED since /\ row'.status = row.status
      BY <2>1, <2>3 DEF CalmRequest, Writes, Commits, Secures, Fences, Waits
    <3> QED BY <1>0, <1>1, <2>1, <3>1 DEF Looking
  <2> QED BY <2>2, <2>3
<1>3. ASSUME NEW d \in Comparisons, CompareStep(d)
      PROVE  Recent(c)' \/ Matches(cmp[c].u)'
  <2>1. cmp'[c].age = cmp[c].age /\ UNCHANGED since /\ row'.status = row.status
    BY <1>3, CalmCompareSteps
  <2>2. CASE Looking(c) /\ cmp'[c].u = cmp[c].u
    BY <1>0, <1>1, <2>1, <2>2
  <2>3. CASE cmp'[c].u = user
    <3>1. CASE Matches(user)
      BY <2>1, <2>3, <3>1 DEF Matches
    <3>2. ASSUME NEW r \in Requests, Behind(r) PROVE Recent(c)'
      <4>1. since <= req[r].age /\ req[r].age <= Deadline
        BY <1>0, <3>2 DEF Behind
      <4>2. since' < cmp'[c].age + InFlight
        BY <1>0, <2>1, <4>1
      <4> QED BY <4>2 DEF Recent
    <3> QED BY <3>1, <3>2 DEF Agrees
  <2> QED BY <2>2, <2>3, LookStep
<1>4. ASSUME Tick PROVE Recent(c)' \/ Matches(cmp[c].u)'
  <2>1. /\ UNCHANGED row /\ since' <= since + 1 /\ Looking(c)
        /\ cmp'[c].u = cmp[c].u /\ cmp'[c].age = cmp[c].age + 1
    BY <1>4, CalmTick DEF Looking
  <2>2. since' \in Nat
    BY <1>0, <1>4, TimeAssumption DEF Tick, Old
  <2> QED BY <1>0, <1>1, <2>1, <2>2
<1>5. ASSUME UNCHANGED vars PROVE Recent(c)' \/ Matches(cmp[c].u)'
  BY <1>0, <1>1, <1>5 DEF vars, Looking
<1> QED BY <1>2, <1>3, <1>4, <1>5 DEF CalmNext

\* What holds as long as nothing but this member has changed anything.
CalmInv == Calm /\ Orders /\ Agrees /\ Looks

\* An account just bound is calm.
LEMMA CalmInit == Init => Budgets /\ OnPath /\ CalmInv
<1> SUFFICES ASSUME Init PROVE Budgets /\ OnPath /\ CalmInv
  OBVIOUS
<1>1. /\ row.status = "active" /\ row.password = None /\ row.factors = None
      /\ ~user.forbidden /\ AsBound(user)
      /\ \A r \in Requests : req[r].pc = "idle"
      /\ \A c \in Comparisons : cmp[c].pc = "idle"
  BY DEF Init, NewRow, NoRequest, NoComparison, AsBound
<1>2. Budgets
  BY BoundAssumption DEF Init, Budgets
<1>3. Calm
  BY <1>1 DEF Calm, Looking
<1>4. OnPath /\ Orders /\ Agrees /\ Looks
  BY <1>1 DEF OnPath, Orders, Own, Running, Agrees, Matches, Looks, Looking
<1> QED BY <1>2, <1>3, <1>4 DEF CalmInv

\* One handler at a time, the calm and what it brings last until the console
\* changes something or a call fails.
LEMMA CalmWhileUndisturbed ==
    ASSUME "password" \notin Operations
    PROVE  Spec /\ []OneAtATime => [](OnPath /\ (Undisturbed => CalmInv))
<1> DEFINE Inv == Budgets /\ OnPath /\ (Undisturbed => CalmInv)
<1>1. Init => Inv
  BY CalmInit
<1>2. IInv /\ OneAtATime /\ Inv /\ [Next]_vars => Inv'
  <2> SUFFICES ASSUME IInv, OneAtATime, Inv, [Next]_vars PROVE Inv'
    OBVIOUS
  <2>1. TypeOK /\ RequestShape /\ FenceYoung
    BY DEF IInv
  <2>2. Budgets' /\ OnPath' /\ (Undisturbed' => Undisturbed /\ CalmNext)
    BY <2>1, BudgetStep, OnPathStep
  <2>3. ASSUME Undisturbed' PROVE CalmInv'
    <3>1. CalmNext /\ Calm /\ Orders /\ Agrees /\ Looks
      BY <2>2, <2>3 DEF CalmInv
    <3> QED BY <2>1, <3>1, CalmKept, OrdersStep, AgreesStep, LooksStep DEF CalmInv
  <2> QED BY <2>2, <2>3
<1> QED BY <1>1, <1>2, Inductive, PTL DEF Spec

\* Evidence of a status written meanwhile is of this member's own change.
LEMMA OwnEvidence ==
    ASSUME TypeOK, OnPath, "password" \notin Operations, CalmInv, [Next]_vars, kept' # kept
    PROVE  kept'.source = "adapter"
<1>1. ASSUME NEW r \in Requests, StartRequest(r) \/ RequestStep(r)
      PROVE  kept'.source = "adapter"
  <2>1. CalmRequest(r)
    BY <1>1, CalmRequestSteps DEF CalmInv
  <2> QED BY <2>1 DEF CalmRequest, Writes, Commits, Secures, Fences, Waits
<1>2. ASSUME NEW c \in Comparisons, CompareStep(c) PROVE FALSE
  BY <1>2, CalmCompareSteps DEF CalmInv
<1>3. ASSUME NEW r \in Requests, RequestFault(r) PROVE FALSE
  BY <1>3, QuietSteps DEF QuietRequest
<1>4. ASSUME NEW c \in Comparisons, CompareFault(c) PROVE FALSE
  BY <1>4, QuietSteps DEF QuietCompare
<1>5. UNCHANGED vars \/ Tick \/ (\E edit \in Edits : ConsoleEdit(edit)) => UNCHANGED kept
  BY DEF vars, Tick, ConsoleEdit
<1> QED BY <1>1, <1>2, <1>3, <1>4, <1>5 DEF Next

\* With the account's handlers one at a time and none of them changing a
\* password, however many comparisons run beside them and however old their user
\* lists: until the console changes something or a call fails, no comparison
\* takes in a disablement, which could only be this member's own write.
THEOREM OwnWritesAreNoConsoleChange ==
    ASSUME "password" \notin Operations
    PROVE  Spec /\ []OneAtATime => OwnWriteIsNoConsoleChange
<1>1. TypeOK /\ OnPath /\ (Undisturbed => CalmInv) /\ [Next]_vars
        => [kept' # kept /\ Undisturbed => kept'.source # "console"]_vars
  BY OwnEvidence
<1> QED BY <1>1, CalmWhileUndisturbed, TypeCorrect, PTL DEF Spec, OwnWriteIsNoConsoleChange

\* Nor does a comparison see a rollback where this member has just let the user
\* in again, or refuses one it has just enabled.
THEOREM OwnWritesAreNoRollback ==
    ASSUME "password" \notin Operations
    PROVE  Spec /\ []OneAtATime => OwnWriteIsNoRollback
<1>1. TypeOK /\ OnPath /\ (Undisturbed => CalmInv) /\ [Next]_vars
        => [kept' # kept /\ Undisturbed => kept'.source # "rollback"]_vars
  BY OwnEvidence
<1> QED BY <1>1, CalmWhileUndisturbed, TypeCorrect, PTL DEF Spec, OwnWriteIsNoRollback
=============================================================================
