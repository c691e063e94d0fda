------------------------ MODULE SessionPromises_proofs ------------------------
(***************************************************************************)
(* Sessions implements SessionPromises, for any number of sessions and     *)
(* calls and any lifetimes: the initial states map to an initial state and *)
(* every step to a step of the promises.                                   *)
(***************************************************************************)
EXTENDS Sessions_proofs

\* The edge knows no end that was not announced.
KnownOver == edge.known \subseteq Announced

PInv == IInv /\ KnownOver

\* What is announced is what ended (EndedOnce).
LEMMA AnnouncedEnds ==
    ASSUME IInv
    PROVE  /\ Announced = {s \in Callbacks : session[s].state = "ended"}
           /\ \A i \in DOMAIN stream : stream[i] \subseteq Announced
<1>1. \A i \in DOMAIN stream : stream[i] \subseteq Callbacks
  BY DEF IInv, TypeOK
<1>2. \A s \in Callbacks :
         session[s].state = "ended" <=> \E i \in DOMAIN stream : s \in stream[i]
  BY DEF IInv, EndedOnce
<1> QED BY <1>1, <1>2 DEF Announced

\* What becomes of the sessions, by the kind of step.
LEMMA KeptMaps ==
    ASSUME IInv, IInv', Kept
    PROVE  Live' = Live /\ Announced' = Announced
  BY AnnouncedEnds DEF Kept, Live, Announced

LEMMA OpenMaps ==
    ASSUME IInv, IInv', NEW b \in Callbacks, Open(b)
    PROVE  /\ b \notin Live \union Announced
           /\ Live' = Live \union {b} /\ Announced' = Announced
<1>1. /\ session[b].state = "none" /\ session[b] \in Session
      /\ session' = [session EXCEPT ![b].state = "live"] /\ stream' = stream
      /\ session \in [Callbacks -> Session]
  BY DEF Open, IInv, SessionShape, TypeOK, Callback, Session
<1>2. /\ session'[b].state = "live"
      /\ \A s \in Callbacks \ {b} : session'[s] = session[s]
  BY <1>1 DEF Session
<1> QED BY <1>1, <1>2, AnnouncedEnds DEF Live, Announced

LEMMA EndMaps ==
    ASSUME IInv, IInv', NEW S, NEW reason, EndAll(S, reason)
    PROVE  /\ Live' = Live \ S
           /\ Announced' = Announced \union (S \intersect Live)
<1> DEFINE over == S \intersect Live
<1>1. \A s \in Callbacks :
         /\ s \in over => session'[s].state = "ended"
         /\ s \notin over => session'[s] = session[s]
  BY EndAllEffect DEF IInv, Live
<1>2. Live' = Live \ S
  BY <1>1 DEF Live
<1>3. Announced' = {s \in Callbacks : session'[s].state = "ended"}
  <2>1. IInv'
    OBVIOUS
  <2>2. \A i \in DOMAIN stream' : stream'[i] \subseteq Callbacks
    BY DEF IInv, TypeOK
  <2>3. \A s \in Callbacks :
           session'[s].state = "ended" <=> \E i \in DOMAIN stream' : s \in stream'[i]
    BY DEF IInv, EndedOnce
  <2> QED BY <2>2, <2>3 DEF Announced
<1> QED BY <1>1, <1>2, <1>3, AnnouncedEnds DEF Live

\* What becomes of the tokens.
LEMMA TokensLapse ==
    ASSUME \A y \in Exchanges : Current(y)' => Current(y) /\ exch'[y].session = exch[y].session
    PROVE  Holders' \subseteq Holders
  BY DEF Holders

LEMMA SameTokens ==
    ASSUME exch' = exch, account'.version = account.version
    PROVE  Holders' = Holders
  BY DEF Holders, Current

LEMMA TokensGo ==
    ASSUME IInv, account'.version = account.version + 1,
           \A y \in Exchanges : exch'[y] = exch[y] \/ exch'[y].pc = "done"
    PROVE  Holders' = {}
<1>1. ASSUME NEW y \in Exchanges PROVE ~Current(y)'
  <2>1. /\ exch[y].version \in Nat /\ account.version \in Nat
        /\ exch[y].version <= account.version
    BY FieldTypes DEF IInv, CallsOK, CallOK
  <2> QED BY <2>1 DEF Current
<1> QED BY <1>1 DEF Holders

\* A change of the account takes its sessions and its tokens.
LEMMA ChangeMaps ==
    ASSUME IInv, IInv', NEW status, NEW reason, NEW keep \in SUBSET Callbacks,
           Change(status, reason, keep), edge' = edge,
           \A y \in Exchanges : exch'[y] = exch[y] \/ exch'[y].pc = "done",
           keep # {} => status = account.status,
           keep \in {{}} \union {{s} : s \in Callbacks}
    PROVE  Promises!Next
<1>1. account'.version = account.version + 1 /\ account'.status = status
  BY FieldTypes DEF Change, Account, IInv
<1>2. EndAll(Callbacks \ keep, reason)
  BY DEF Change
<1>3. /\ Live' = Live \ (Callbacks \ keep) /\ Live \subseteq Callbacks
      /\ Announced' = Announced \union ((Callbacks \ keep) \intersect Live)
  BY <1>2, EndMaps DEF Live
<1>4. Holders' = {}
  BY <1>1, TokensGo
<1>5. Live' = Live \intersect keep /\ Announced' = Announced \union (Live \ keep)
  BY <1>3
<1>6. Promises!Change(keep)
  BY <1>1, <1>4, <1>5 DEF Promises!Change
<1> QED BY <1>6 DEF Promises!Next

\* A step that leaves sessions and edge alone, and gives no token.
LEMMA LapseMaps ==
    ASSUME IInv, IInv', Kept, edge' = edge, account'.status = account.status,
           Holders' \subseteq Holders
    PROVE  Promises!Next
<1>1. Promises!Lapse
  BY KeptMaps DEF Promises!Lapse
<1> QED BY <1>1 DEF Promises!Next

LEMMA EndingMaps ==
    ASSUME IInv, IInv', NEW S \in SUBSET Callbacks, NEW reason, EndAll(S, reason),
           edge' = edge, account' = account, Holders' = Holders
    PROVE  Promises!Next
<1>1. Promises!End(S)
  BY EndMaps DEF Promises!End
<1> QED BY <1>1 DEF Promises!Next
-----------------------------------------------------------------------------
(* Every step is a step of the promises.                                   *)

LEMMA LoginMaps ==
    ASSUME IInv, IInv', NEW b \in Callbacks, LoginStep(b)
    PROVE  Promises!Next
<1>0. /\ account \in Account /\ \A s \in Callbacks : session[s] \in Session
      /\ session \in [Callbacks -> Session] /\ exch' = exch /\ edge' = edge
  BY DEF IInv, TypeOK, LoginStep, Take, SignedIn, Insert, Open, Abandon, Logout
<1>1. ASSUME account'.version = account.version, account'.status = account.status, Kept
      PROVE  Promises!Next
  BY <1>0, <1>1, SameTokens, LapseMaps
<1>2. CASE Open(b)
  <2>1. account' = account
    BY <1>2 DEF Open
  <2>2. Promises!Open(b)
    BY <1>0, <1>2, <2>1, OpenMaps, SameTokens DEF Promises!Open
  <2> QED BY <2>2 DEF Promises!Next
<1>3. CASE Logout(b)
  <2>1. EndAll({b}, "logout") /\ account' = account
    BY <1>3 DEF Logout
  <2> QED BY <1>0, <2>1, SameTokens, EndingMaps
<1>4. CASE SignedIn(b)
  <2>1. account'.version = account.version /\ account'.status = account.status
    BY <1>0, <1>4 DEF SignedIn, Account
  <2>2. Kept
    BY <1>4 DEF SignedIn, Kept
  <2> QED BY <1>1, <2>1, <2>2
<1>5. CASE Insert(b)
  <2>1. session[b].state = "none" /\ account' = account
    BY <1>5 DEF Insert, IInv, SessionShape
  <2>2. Kept
    BY <1>0, <1>5, <2>1 DEF Insert, Kept, Session
  <2> QED BY <1>1, <2>1, <2>2
<1>6. CASE Abandon(b) \/ \E l \in Logins : Take(b, l)
  <2>1. account' = account /\ UNCHANGED <<session, stream>>
    BY <1>6 DEF Abandon, Take
  <2> QED BY <1>1, <2>1 DEF Kept
<1> QED BY <1>2, <1>3, <1>4, <1>5, <1>6 DEF LoginStep

\* A token counts from here on, though it is yet to be signed.
LEMMA UseMaps ==
    ASSUME IInv, IInv', NEW x \in Exchanges, NEW s \in Callbacks,
           NEW op \in {"exchange", "password"}, NEW renew, Use(x, s, op, renew)
    PROVE  Promises!Next
<1>1. /\ exch[x].pc = "idle" /\ exch \in [Exchanges -> Exchange]
      /\ UNCHANGED <<account, edge, stream>> /\ session[s].state = "live"
      /\ s \in Live /\ account.version \in Nat
  BY FieldTypes DEF Use, InTime, Live, IInv, TypeOK
<1>2. /\ exch'[x].pc = IF op = "password" THEN "change" ELSE "issue"
      /\ exch'[x].session = s /\ exch'[x].version = account.version
      /\ \A y \in Exchanges \ {x} : exch'[y] = exch[y]
  BY <1>1 DEF Use, NoExchange
<1>3. Kept
  <2>1. session' = [session EXCEPT ![s].seen = IF Renews(op, renew) THEN 0 ELSE session[s].seen]
    BY DEF Use
  <2>2. \A t \in Callbacks : session[t] \in Session
    BY DEF IInv, TypeOK
  <2> QED BY <1>1, <2>1, <2>2 DEF Kept, IInv, TypeOK, Session
<1>4. \A y \in Exchanges \ {x} : Current(y)' = Current(y)
  BY <1>1, <1>2 DEF Current
<1>5. ~Current(x)
  BY <1>1 DEF Current
<1>6. CASE op = "password"
  <2>1. ~Current(x)'
    BY <1>2, <1>6 DEF Current
  <2>2. Holders' \subseteq Holders
    BY <1>2, <1>4, <2>1, TokensLapse
  <2> QED BY <1>1, <1>3, <2>2, LapseMaps
<1>7. CASE op = "exchange"
  <2>1. Current(x)'
    BY <1>1, <1>2, <1>7 DEF Current
  <2>2. Holders' = Holders \union {<<x, s>>}
    BY <1>2, <1>4, <1>5, <2>1 DEF Holders
  <2>3. \A t \in Holders : t[1] # x
    BY <1>5 DEF Holders
  <2>4. s # None
    BY NamesAssumption
  <2>5. Promises!Grant(x, s)
    BY <1>1, <1>3, <2>2, <2>3, <2>4, KeptMaps DEF Promises!Grant
  <2> QED BY <2>5 DEF Promises!Next
<1> QED BY <1>6, <1>7

LEMMA CallMaps ==
    ASSUME IInv, IInv', NEW x \in Exchanges, CallStep(x)
    PROVE  Promises!Next
<1>0. /\ exch \in [Exchanges -> Exchange] /\ exch[x] \in Exchange /\ account \in Account
      /\ account.version \in Nat
  BY FieldTypes DEF IInv, TypeOK
<1>1. ASSUME NEW s \in Callbacks, NEW op \in {"exchange", "password"}, NEW renew,
             Use(x, s, op, renew)
      PROVE  Promises!Next
  BY <1>1, UseMaps
<1>2. ASSUME account'.version = account.version, account'.status = account.status,
             edge' = edge, UNCHANGED <<session, stream>>,
             \A y \in Exchanges \ {x} : exch'[y] = exch[y],
             Current(x)' => Current(x) /\ exch'[x].session = exch[x].session
      PROVE  Promises!Next
  <2>1. \A y \in Exchanges : Current(y)' => Current(y) /\ exch'[y].session = exch[y].session
    BY <1>2 DEF Current
  <2>2. Kept
    BY <1>2 DEF Kept
  <2> QED BY <1>2, <2>1, <2>2, TokensLapse, LapseMaps
<1>3. NoToken.pc = "done"
  BY DEF NoToken, NoExchange
<1>4. ASSUME NEW s \in Callbacks, NEW op, UseTooLate(x, s, op) PROVE Promises!Next
  <2>1. PICK reason : EndAll({s}, reason)
    BY <1>4 DEF UseTooLate
  <2>2. /\ account' = account /\ edge' = edge /\ exch[x].pc = "idle" /\ exch'[x].pc = "done"
        /\ \A y \in Exchanges \ {x} : exch'[y] = exch[y]
    BY <1>0, <1>3, <1>4 DEF UseTooLate
  <2>3. \A y \in Exchanges : Current(y)' = Current(y) /\ (Current(y) => exch'[y] = exch[y])
    BY <2>2 DEF Current
  <2>4. Holders' = Holders
    BY <2>3 DEF Holders
  <2> QED BY <2>1, <2>2, <2>4, EndingMaps
<1>5. CASE DevSignIn(x)
  <2>1. /\ account'.version = account.version /\ account'.status = account.status
        /\ edge' = edge /\ UNCHANGED <<session, stream>> /\ exch[x].pc = "idle"
        /\ \A y \in Exchanges \ {x} : exch'[y] = exch[y]
    BY <1>0, <1>5 DEF DevSignIn, Account
  <2>2. CASE account.status = "active"
    <3>1. exch'[x].pc = "issue" /\ exch'[x].version = account.version /\ exch'[x].session = None
      BY <1>0, <1>5, <2>2 DEF DevSignIn, NoExchange
    <3>2. /\ Current(x)' /\ ~Current(x)
          /\ \A y \in Exchanges \ {x} : Current(y)' = Current(y)
      BY <2>1, <3>1 DEF Current
    <3>3. Holders' = Holders \union {<<x, None>>} /\ \A t \in Holders : t[1] # x
      BY <2>1, <3>1, <3>2 DEF Holders
    <3>4. Kept
      BY <2>1 DEF Kept
    <3>5. Promises!Grant(x, None)
      BY <2>1, <2>2, <3>3, <3>4, KeptMaps DEF Promises!Grant
    <3> QED BY <3>5 DEF Promises!Next
  <2>3. CASE account.status # "active"
    <3>1. ~Current(x)'
      BY <1>0, <1>3, <1>5, <2>3 DEF DevSignIn, Current
    <3> QED BY <1>2, <2>1, <3>1
  <2> QED BY <2>2, <2>3
<1>6. CASE Issue(x)
  <2>1. PICK left : exch' = [exch EXCEPT ![x] =
          IF left = 0 THEN NoToken ELSE [@ EXCEPT !.pc = "issued", !.left = left, !.until = 0]]
    BY <1>6 DEF Issue
  <2>2. /\ exch'[x].pc = "done" \/ (exch'[x].session = exch[x].session
                                     /\ exch'[x].version = exch[x].version)
        /\ \A y \in Exchanges \ {x} : exch'[y] = exch[y]
    <3>1. CASE left = 0
      BY <1>0, <1>3, <2>1, <3>1
    <3>2. CASE left # 0
      BY <1>0, <2>1, <3>2 DEF Exchange
    <3> QED BY <3>1, <3>2
  <2>3. UNCHANGED <<account, edge, session, stream>> /\ exch[x].pc = "issue"
    BY <1>6 DEF Issue
  <2>4. Current(x)' => Current(x) /\ exch'[x].session = exch[x].session
    BY <2>2, <2>3 DEF Current
  <2> QED BY <1>2, <2>2, <2>3, <2>4
<1>7. CASE GiveUp(x)
  <2>1. /\ UNCHANGED <<account, edge, session, stream>> /\ exch'[x].pc = "done"
        /\ \A y \in Exchanges \ {x} : exch'[y] = exch[y]
    BY <1>0, <1>3, <1>7 DEF GiveUp
  <2> QED BY <1>2, <2>1 DEF Current
<1>8. CASE PasswordChange(x)
  <2>1. /\ Change(account.status, "password", {exch[x].session}) /\ edge' = edge
        /\ exch[x].pc = "change"
        /\ \A y \in Exchanges : exch'[y] = exch[y] \/ exch'[y].pc = "done"
    BY <1>0, <1>3, <1>8 DEF PasswordChange
  <2>2. CASE exch[x].session \in Callbacks
    BY <2>1, <2>2, ChangeMaps
  <2>3. CASE exch[x].session \notin Callbacks
    <3>1. Callbacks \ {exch[x].session} = Callbacks \ {}
      BY <2>3
    <3>2. Change(account.status, "password", {})
      BY <2>1, <3>1 DEF Change
    <3> QED BY <2>1, <3>2, ChangeMaps
  <2> QED BY <2>2, <2>3
<1> QED BY <1>1, <1>4, <1>5, <1>6, <1>7, <1>8 DEF CallStep

\* The edge's reading: from the stream, or of all that ended.
LEMMA EndedMaps ==
    ASSUME PInv, Ended
    PROVE  \E S \in SUBSET Callbacks : edge'.known = edge.known \union (S \intersect Announced)
<1>0. /\ Announced = {s \in Callbacks : session[s].state = "ended"}
      /\ \A i \in DOMAIN stream : stream[i] \subseteq Announced
      /\ edge.known \subseteq Announced
      /\ edge.at \in 0 .. Len(stream) /\ edge.known \subseteq Callbacks
      /\ stream \in Seq(SUBSET Callbacks)
      /\ edge \in [epoch : Nat, at : 0 .. Len(stream), known : SUBSET Callbacks]
  BY AnnouncedEnds DEF PInv, KnownOver, IInv, TypeOK
<1>1. CASE edge.epoch # generation
  <2>1. edge'.known = Announced
    BY <1>0, <1>1 DEF Ended
  <2> QED BY <1>0, <2>1
<1>2. CASE edge.epoch = generation
  <2>1. edge.at + 1 \in DOMAIN stream
    BY <1>0, <1>2 DEF Ended
  <2>2. edge'.known = edge.known \union stream[edge.at + 1]
    BY <1>0, <1>2 DEF Ended
  <2>3. stream[edge.at + 1] \subseteq Announced /\ stream[edge.at + 1] \subseteq Callbacks
    BY <1>0, <2>1
  <2> QED BY <2>2, <2>3
<1> QED BY <1>1, <1>2

LEMMA StepMaps ==
    ASSUME PInv, IInv', [Next]_vars
    PROVE  [Promises!Next]_Promises!vars
<1>0. IInv
  BY DEF PInv
<1>1. ASSUME UNCHANGED <<account, session, stream, edge, exch>> PROVE UNCHANGED Promises!vars
  BY <1>1 DEF Promises!vars, Live, Announced, Holders, Current
<1>2. ASSUME NEW l \in Logins, Begin(l) PROVE UNCHANGED Promises!vars
  BY <1>1, <1>2 DEF Begin
<1>3. ASSUME NEW b \in Callbacks, LoginStep(b) PROVE Promises!Next
  BY <1>0, <1>3, LoginMaps
<1>4. ASSUME NEW x \in Exchanges, CallStep(x) PROVE Promises!Next
  BY <1>0, <1>4, CallMaps
<1>5. ASSUME NEW reason \in Changes, SecurityChange(reason) PROVE Promises!Next
  <2>1. Change(account.status, reason, {}) /\ edge' = edge /\ exch' = exch
    BY <1>5 DEF SecurityChange
  <2> QED BY <1>0, <2>1, ChangeMaps
<1>6. ASSUME NEW target \in Targets, SetStatus(target) PROVE Promises!Next
  <2>1. Change(target, ReasonFor(target), {}) /\ edge' = edge /\ exch' = exch
    BY <1>6 DEF SetStatus
  <2> QED BY <1>0, <2>1, ChangeMaps
<1>7. CASE Ended
  <2>1. PICK S \in SUBSET Callbacks : edge'.known = edge.known \union (S \intersect Announced)
    BY <1>7, EndedMaps
  <2>2. UNCHANGED <<account, session, stream, exch>>
    BY <1>7 DEF Ended
  <2>3. Promises!Learn(S)
    BY <2>1, <2>2 DEF Promises!Learn, Live, Announced, Holders, Current
  <2> QED BY <2>3 DEF Promises!Next
<1>8. ASSUME NEW phase, Start(phase) PROVE Promises!Next
  <2>1. /\ EndAll({s \in Callbacks : session[s].generation < generation}, "recovery")
        /\ UNCHANGED <<account, edge, exch>>
    BY <1>8 DEF Start
  <2>2. Holders' = Holders
    BY <2>1, SameTokens
  <2> QED BY <1>0, <2>1, <2>2, EndingMaps
<1>9. CASE Tick
  <2>1. Kept
    <3>1. \A s \in Callbacks : session[s] \in Session
      BY <1>0 DEF IInv, TypeOK
    <3> QED BY <1>9, <3>1 DEF Tick, Kept, Session
  <2>2. UNCHANGED <<account, edge>>
    BY <1>9 DEF Tick
  <2>3. NoToken.pc = "done"
    BY DEF NoToken, NoExchange
  <2>4. \A y \in Exchanges : Current(y)' => Current(y) /\ exch'[y].session = exch[y].session
    <3> SUFFICES ASSUME NEW y \in Exchanges, Current(y)'
                 PROVE  Current(y) /\ exch'[y].session = exch[y].session
      OBVIOUS
    <3>1. exch'[y].pc # "done" /\ exch[y] \in Exchange
      BY <1>0 DEF Current, IInv, TypeOK
    <3>2. exch'[y] = [exch[y] EXCEPT !.until = Minus(@), !.left = Minus(@)]
      BY <1>9, <2>3, <3>1 DEF Tick
    <3>3. /\ exch'[y].pc = exch[y].pc /\ exch'[y].session = exch[y].session
          /\ exch'[y].version = exch[y].version
      BY <3>1, <3>2 DEF Exchange
    <3> QED BY <2>2, <3>3 DEF Current
  <2> QED BY <1>0, <2>1, <2>2, <2>4, TokensLapse, LapseMaps
<1>10. CASE Advance \/ UNCHANGED vars
  BY <1>1, <1>10 DEF Advance, vars
<1> QED BY <1>2, <1>3, <1>4, <1>5, <1>6, <1>7, <1>8, <1>9, <1>10 DEF Next

LEMMA InitMaps == Init => Promises!Init /\ KnownOver
<1> SUFFICES ASSUME Init PROVE Promises!Init /\ KnownOver
  OBVIOUS
<1>1. Live = {} /\ Holders = {}
  BY DEF Init, NoSession, NoExchange, Live, Holders, Current
<1>2. Announced = {}
  BY DEF Init, Announced
<1> QED BY <1>1, <1>2 DEF Init, KnownOver, Promises!Init

\* No step of the promises takes an announcement back.
LEMMA KnownStep ==
    ASSUME PInv, IInv', [Next]_vars
    PROVE  KnownOver'
<1>1. edge'.known \subseteq Announced' \/ edge'.known = edge.known
  <2>1. CASE Ended
    <3>1. Announced' = Announced
      BY <2>1 DEF Ended, Announced
    <3> QED BY <2>1, <3>1, EndedMaps DEF PInv, KnownOver
  <2>2. ASSUME NEW b \in Callbacks, LoginStep(b) PROVE edge' = edge
    BY <2>2 DEF LoginStep, Take, SignedIn, Insert, Open, Abandon, Logout
  <2>3. ASSUME NEW x \in Exchanges, CallStep(x) PROVE edge' = edge
    BY <2>3 DEF CallStep, Use, UseTooLate, DevSignIn, Issue, PasswordChange, GiveUp
  <2>4. ASSUME NEW n, Begin(n) \/ SecurityChange(n) \/ SetStatus(n) \/ Start(n)
        PROVE  edge' = edge
    BY <2>4 DEF Begin, SecurityChange, SetStatus, Start
  <2>5. CASE Advance \/ Tick \/ UNCHANGED vars
    BY <2>5 DEF Advance, Tick, vars
  <2> QED BY <2>1, <2>2, <2>3, <2>4, <2>5 DEF Next
<1>2. Announced \subseteq Announced'
  BY StepMaps DEF Promises!Next, Promises!vars, Promises!Open, Promises!Grant, Promises!Lapse,
                  Promises!End, Promises!Change, Promises!Learn
<1> QED BY <1>1, <1>2 DEF KnownOver, PInv

\* Whatever the calls, the logins, the changes and the starts do, and in whatever
\* order, the sessions and the tokens keep the promises (SessionPromises).
THEOREM SessionsKeepPromises == Spec => Promised
<1>1. PInv /\ IInv' /\ [Next]_vars => PInv' /\ [Promises!Next]_Promises!vars
  BY StepMaps, KnownStep DEF PInv
<1>2. Init => PInv /\ Promises!Init
  BY InvInit, InitMaps DEF PInv
<1> QED BY <1>1, <1>2, Invariance, PTL DEF Spec, Promised, Promises!Spec
=============================================================================
