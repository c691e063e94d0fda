--------------------------- MODULE Sessions_proofs ---------------------------
(***************************************************************************)
(* The invariants and step properties of Sessions, for any number of       *)
(* logins, sessions and calls, and any lifetimes.                          *)
(***************************************************************************)
EXTENDS Sessions, TLAPS

-----------------------------------------------------------------------------
(* What the steps share.                                                   *)

\* One more batch at the end of the stream.
LEMMA OneMore ==
    ASSUME NEW T, NEW q \in Seq(T), NEW e \in T
    PROVE  /\ Append(q, e) \in Seq(T)
           /\ Len(q) \in Nat /\ Len(Append(q, e)) = Len(q) + 1
           /\ DOMAIN q = 1 .. Len(q) /\ DOMAIN Append(q, e) = 1 .. Len(q) + 1
           /\ \A i \in 1 .. Len(q) : Append(q, e)[i] = q[i]
           /\ Append(q, e)[Len(q) + 1] = e
  OBVIOUS

\* What ends sessions keeps the types and the sessions' other fields.
LEMMA EndAllTypes ==
    ASSUME TypeOK, NEW S, NEW reason \in Reasons, EndAll(S, reason)
    PROVE  /\ session' \in [Callbacks -> Session]
           /\ \A s \in Callbacks : session'[s].generation = session[s].generation
           /\ stream' \in Seq(SUBSET Callbacks) /\ Len(stream') >= Len(stream)
<1> DEFINE over == S \intersect Live
<1>1. over \in SUBSET Callbacks
  BY DEF Live
<1>2. stream' \in Seq(SUBSET Callbacks) /\ Len(stream') >= Len(stream)
  <2>1. stream \in Seq(SUBSET Callbacks) /\ Len(stream) \in Nat
    BY DEF TypeOK
  <2>2. stream' = stream \/ stream' = Append(stream, over)
    BY DEF EndAll
  <2> HIDE DEF over
  <2> QED BY <1>1, <2>1, <2>2, OneMore
<1>3. /\ session' \in [Callbacks -> Session]
      /\ \A s \in Callbacks : session'[s].generation = session[s].generation
  BY ZenonT(60) DEF EndAll, TypeOK, Session
<1> QED BY <1>2, <1>3

LEMMA ReasonTypes ==
    /\ \A target \in Statuses : ReasonFor(target) \in ChangeReasons
    /\ \A reason \in AllChanges : reason \in ChangeReasons
    /\ ChangeReasons \subseteq Reasons /\ OwnReasons \subseteq Reasons
    /\ "logout" \in OwnReasons /\ "recovery" \in OwnReasons
    /\ None \notin Callbacks /\ None \notin ChangeReasons
    /\ ChangeReasons \intersect OwnReasons = {}
  BY NamesAssumption DEF ReasonFor, ChangeReasons, OwnReasons, Reasons, AllChanges, Statuses

\* A call's record may be replaced by any other.
LEMMA CallUpdate ==
    ASSUME TypeOK, NEW x \in Exchanges, NEW p \in Exchange,
           exch' = [exch EXCEPT ![x] = p]
    PROVE  exch' \in [Exchanges -> Exchange]
  BY DEF TypeOK

LEMMA NoExchangeType ==
    NoExchange \in Exchange /\ NoToken \in Exchange
  BY DEF NoExchange, NoToken, Exchange, AllOperations

LEMMA LeastIs ==
    ASSUME NEW a \in Nat, NEW b \in Nat
    PROVE  /\ Least(a, b) \in Nat /\ Least(a, b) \in {a, b}
           /\ Least(a, b) <= a /\ Least(a, b) <= b
  BY DEF Least

LEMMA MinusIs ==
    ASSUME NEW n \in Nat
    PROVE  /\ Minus(n) \in Nat /\ Minus(n) <= n
           /\ n > 0 => Minus(n) = n - 1
           /\ n = 0 => Minus(n) = 0
  BY DEF Minus

\* One more tick of an age, not counted beyond the first past its timeout.
LEMMA Aged ==
    ASSUME NEW limit \in Nat, NEW age \in 0 .. limit + 1
    PROVE  /\ Least(age + 1, limit + 1) \in 0 .. limit + 1
           /\ Least(age + 1, limit + 1) <= age + 1
  BY DEF Least

\* The updates the steps make of each record keep its type.
LEMMA LoginUpdates ==
    ASSUME NEW r \in Login
    PROVE  /\ [r EXCEPT !.state = "gone"] \in Login
           /\ \A n \in 0 .. LoginTTL + 1 : [r EXCEPT !.age = n] \in Login
  BY DEF Login

LEMMA AccountUpdates ==
    ASSUME NEW r \in Account, NEW status \in Statuses
    PROVE  /\ r.status \in Statuses /\ r.version \in Nat
           /\ [r EXCEPT !.bound = TRUE] \in Account
           /\ [r EXCEPT !.status = status, !.version = @ + 1] \in Account
<1>1. r.status \in Statuses /\ r.version \in Nat /\ r.version + 1 \in Nat
  BY DEF Account
<1>2. [r EXCEPT !.bound = TRUE] \in Account
  BY DEF Account
<1>3. \A n \in Nat : [r EXCEPT !.status = status, !.version = n] \in Account
  BY DEF Account
<1> QED BY <1>1, <1>2, <1>3

LEMMA SessionUpdates ==
    ASSUME NEW r \in Session
    PROVE  /\ r.state \in {"none", "live", "ended"} /\ r.reason \in Reasons \union {None}
           /\ r.created \in 0 .. Absolute + 1 /\ r.seen \in 0 .. Idle + 1
           /\ r.generation \in Nat
           /\ [r EXCEPT !.state = "live"] \in Session
           /\ \A n \in Nat : [r EXCEPT !.generation = n] \in Session
           /\ \A n \in 0 .. Idle + 1 : [r EXCEPT !.seen = n] \in Session
           /\ \A m \in 0 .. Absolute + 1, n \in 0 .. Idle + 1 :
                 [r EXCEPT !.created = m, !.seen = n] \in Session
  BY DEF Session

LEMMA ExchangeUpdates ==
    ASSUME NEW r \in Exchange
    PROVE  /\ r.pc \in {"idle", "change", "issue", "issued", "done"}
           /\ r.op \in AllOperations /\ r.session \in Callbacks \union {None}
           /\ r.version \in Nat /\ r.until \in Nat /\ r.left \in Nat
           /\ \A m, n \in Nat : [r EXCEPT !.until = m, !.left = n] \in Exchange
           /\ \A n \in Nat : [r EXCEPT !.pc = "issued", !.left = n, !.until = 0] \in Exchange
  BY DEF Exchange
-----------------------------------------------------------------------------
(* Types.                                                                  *)

\* The step of a use, a logout, a change or a sweep: the sessions and the stream
\* by EndAll, the account and the calls by the step.
LEMMA EndingTypes ==
    ASSUME TypeOK, NEW S, NEW reason \in Reasons, EndAll(S, reason),
           account' \in Account, exch' \in [Exchanges -> Exchange],
           closed' \in BOOLEAN, swept' \in 0 .. generation,
           UNCHANGED <<generation, login, call, edge>>
    PROVE  TypeOK'
<1>1. edge' \in [epoch : Nat, at : 0 .. Len(stream'), known : SUBSET Callbacks]
  BY EndAllTypes DEF TypeOK
<1> QED BY <1>1, EndAllTypes DEF TypeOK

LEMMA LoginTypes ==
    ASSUME TypeOK, NEW b \in Callbacks, LoginStep(b)
    PROVE  TypeOK'
<1> USE LifetimeAssumption
<1>1. CASE Logout(b)
  BY <1>1, ReasonTypes, EndingTypes DEF Logout, TypeOK
<1>2. ASSUME NEW l \in Logins, Take(b, l) PROVE TypeOK'
  <2>1. login' \in [Logins -> Login]
    BY <1>2, LoginUpdates DEF Take, TypeOK
  <2>2. call' \in [Callbacks -> Callback]
    <3>1. [pc |-> "taken", login |-> l] \in Callback
      BY DEF Callback
    <3>2. [call[b] EXCEPT !.pc = "done"] \in Callback
      BY DEF TypeOK, Callback
    <3> QED BY <1>2, <3>1, <3>2 DEF Take, TypeOK
  <2> QED BY <1>2, <2>1, <2>2 DEF Take, TypeOK
<1>3. CASE SignedIn(b)
  <2>1. account' \in Account /\ call' \in [Callbacks -> Callback]
    BY <1>3, ZenonT(60) DEF SignedIn, TypeOK, Account, Callback
  <2> QED BY <1>3, <2>1 DEF SignedIn, TypeOK
<1>4. CASE Insert(b)
  <2>1. generation \in Nat /\ session' = [session EXCEPT ![b].generation = generation]
    BY <1>4 DEF Insert, TypeOK
  <2>2. \A s \in Callbacks : session[s] \in Session
    BY DEF TypeOK
  <2>3. [session[b] EXCEPT !.generation = generation] \in Session
    BY <2>1, <2>2, SessionUpdates
  <2>4. session' \in [Callbacks -> Session]
    BY <2>1, <2>3 DEF TypeOK
  <2>5. \A s \in Callbacks : session'[s].generation <= generation
    BY <2>1, <2>2 DEF TypeOK, Session
  <2>6. call' \in [Callbacks -> Callback]
    BY <1>4 DEF Insert, TypeOK, Callback
  <2> QED BY <1>4, <2>4, <2>5, <2>6 DEF Insert, TypeOK
<1>5. CASE Open(b)
  <2>1. \A s \in Callbacks : session[s] \in Session
    BY DEF TypeOK
  <2>2. session' \in [Callbacks -> Session]
    BY <1>5, <2>1, SessionUpdates DEF Open, TypeOK
  <2>3. \A s \in Callbacks : session'[s].generation = session[s].generation
    BY <1>5, <2>1 DEF Open, TypeOK, Session
  <2>4. call' \in [Callbacks -> Callback]
    BY <1>5 DEF Open, TypeOK, Callback
  <2> QED BY <1>5, <2>2, <2>3, <2>4 DEF Open, TypeOK
<1>6. CASE Abandon(b)
  <2>1. call' \in [Callbacks -> Callback]
    BY <1>6 DEF Abandon, TypeOK, Callback
  <2> QED BY <1>6, <2>1 DEF Abandon, TypeOK
<1> QED BY <1>1, <1>2, <1>3, <1>4, <1>5, <1>6 DEF LoginStep

LEMMA CallTypes ==
    ASSUME TypeOK, NEW x \in Exchanges, CallStep(x)
    PROVE  TypeOK'
<1> USE LifetimeAssumption, NoExchangeType
<1>1. ASSUME NEW s \in Callbacks, NEW op \in {"exchange", "password"},
             NEW renew \in BOOLEAN, Use(x, s, op, renew)
      PROVE  TypeOK'
  <2> DEFINE seen == IF Renews(op, renew) THEN 0 ELSE session[s].seen
             rest == Until(s, seen)
  <2>1. /\ session[s] \in Session /\ seen \in 0 .. Idle
        /\ session[s].created \in 0 .. Absolute
    BY <1>1 DEF Use, InTime, TypeOK, Session
  <2>2. rest \in Nat
    BY <2>1 DEF Until, Least
  <2>3. session' \in [Callbacks -> Session]
    <3>1. seen \in 0 .. Idle + 1
      BY <2>1
    <3>2. [session[s] EXCEPT !.seen = seen] \in Session
      BY <2>1, <3>1, SessionUpdates
    <3> QED BY <1>1, <3>2 DEF Use, TypeOK
  <2>4. \A t \in Callbacks : session'[t].generation = session[t].generation
    BY <1>1 DEF Use, TypeOK, Session
  <2>5. PICK p : /\ exch' = [exch EXCEPT ![x] = p]
                 /\ p = [NoExchange EXCEPT
                           !.pc = IF op = "password" THEN "change" ELSE "issue", !.op = op,
                           !.session = s, !.version = account.version, !.until = rest]
    BY <1>1 DEF Use
  <2>6. p \in Exchange
    BY <2>2, <2>5 DEF NoExchange, Exchange, AllOperations, TypeOK, Account
  <2> HIDE DEF rest
  <2> QED BY <1>1, <2>3, <2>4, <2>5, <2>6, CallUpdate DEF Use, TypeOK
<1>2. ASSUME NEW s \in Callbacks, NEW op \in {"exchange", "password"},
             UseTooLate(x, s, op)
      PROVE  TypeOK'
  <2>1. PICK reason \in Reasons : EndAll({s}, reason)
    BY <1>2 DEF UseTooLate, Reasons, OwnReasons
  <2>2. exch' \in [Exchanges -> Exchange]
    BY <1>2, CallUpdate DEF UseTooLate
  <2> QED BY <1>2, <2>1, <2>2, EndingTypes DEF UseTooLate, TypeOK
<1>3. CASE DevSignIn(x)
  <2>1. account' \in Account /\ exch' \in [Exchanges -> Exchange]
    BY <1>3 DEF DevSignIn, TypeOK, Account, NoExchange, NoToken, Exchange, AllOperations
  <2> QED BY <1>3, <2>1 DEF DevSignIn, TypeOK
<1>4. CASE Issue(x)
  <2> DEFINE left == IF exch[x].op = "dev" THEN TTL ELSE Least(TTL, exch[x].until)
  <2>1. exch[x] \in Exchange /\ left \in Nat
    BY DEF TypeOK, Exchange, Least
  <2>2. [exch[x] EXCEPT !.pc = "issued", !.left = left, !.until = 0] \in Exchange
    BY <2>1 DEF Exchange
  <2>3. exch' \in [Exchanges -> Exchange]
    BY <1>4, <2>2 DEF Issue, TypeOK
  <2> QED BY <1>4, <2>3 DEF Issue, TypeOK
<1>5. CASE PasswordChange(x)
  <2>1. account' \in Account /\ EndAll(Callbacks \ {exch[x].session}, "password")
    <3>1. account \in Account /\ account.status \in Statuses
      BY DEF TypeOK, Account
    <3> QED BY <1>5, <3>1, AccountUpdates DEF PasswordChange, Change
  <2>2. exch' \in [Exchanges -> Exchange]
    BY <1>5, CallUpdate DEF PasswordChange
  <2>3. "password" \in Reasons
    BY DEF Reasons, ChangeReasons, AllChanges
  <2> QED BY <1>5, <2>1, <2>2, <2>3, EndingTypes DEF PasswordChange, TypeOK
<1>6. CASE GiveUp(x)
  <2>1. exch' \in [Exchanges -> Exchange]
    BY <1>6, CallUpdate DEF GiveUp
  <2> QED BY <1>6, <2>1 DEF GiveUp, TypeOK
<1> QED BY <1>1, <1>2, <1>3, <1>4, <1>5, <1>6 DEF CallStep

\* Every step keeps the types.
LEMMA TypeStep ==
    ASSUME TypeOK, [Next]_vars
    PROVE  TypeOK'
<1> USE SessionInputAssumption, LifetimeAssumption
<1>1. ASSUME NEW l \in Logins, Begin(l) PROVE TypeOK'
  <2>1. [state |-> "begun", age |-> 0] \in Login
    BY DEF Login
  <2>2. login' \in [Logins -> Login]
    BY <1>1, <2>1, LoginUpdates DEF Begin, TypeOK
  <2> QED BY <1>1, <2>2 DEF Begin, TypeOK
<1>2. ASSUME NEW reason \in Changes, SecurityChange(reason) PROVE TypeOK'
  <2>0. account \in Account /\ account.status \in Statuses
    BY DEF TypeOK, Account
  <2>1. /\ account' \in Account /\ EndAll(Callbacks \ {}, reason)
        /\ reason \in Reasons
    BY <1>2, <2>0, ReasonTypes, AccountUpdates DEF SecurityChange, Change
  <2> QED BY <1>2, <2>1, EndingTypes DEF SecurityChange, TypeOK
<1>3. ASSUME NEW target \in Targets, SetStatus(target) PROVE TypeOK'
  <2>1. /\ account' \in Account /\ EndAll(Callbacks \ {}, ReasonFor(target))
        /\ ReasonFor(target) \in Reasons
    BY <1>3, ReasonTypes, AccountUpdates DEF SetStatus, Change, TypeOK
  <2> QED BY <1>3, <2>1, EndingTypes DEF SetStatus, TypeOK
<1>4. CASE Ended
  <2>1. Len(stream) \in Nat /\ DOMAIN stream = 1 .. Len(stream)
    BY DEF TypeOK
  <2>2. edge' \in [epoch : Nat, at : 0 .. Len(stream), known : SUBSET Callbacks]
    <3>1. CASE edge.epoch # generation
      BY <1>4, <2>1, <3>1 DEF Ended, TypeOK
    <3>2. CASE edge.epoch = generation
      <4>1. edge.at + 1 \in 1 .. Len(stream)
        BY <1>4, <2>1, <3>2 DEF Ended, TypeOK
      <4>2. stream[edge.at + 1] \in SUBSET Callbacks
        BY <2>1, <4>1 DEF TypeOK
      <4>3. edge' = [edge EXCEPT !.at = @ + 1, !.known = @ \union stream[edge.at + 1]]
        BY <1>4, <3>2 DEF Ended
      <4>4. edge.known \union stream[edge.at + 1] \in SUBSET Callbacks
        BY <4>2 DEF TypeOK
      <4>5. edge.at + 1 \in 0 .. Len(stream)
        BY <2>1, <4>1
      <4> QED BY <4>3, <4>4, <4>5 DEF TypeOK
    <3> QED BY <3>1, <3>2
  <2> QED BY <1>4, <2>2 DEF Ended, TypeOK
<1>5. CASE Advance
  BY <1>5 DEF Advance, TypeOK, Session
<1>6. ASSUME NEW phase \in Phases, Start(phase) PROVE TypeOK'
  <2>1. closed' \in BOOLEAN /\ swept' \in 0 .. generation
    BY <1>6 DEF Start, TypeOK
  <2> QED BY <1>6, <2>1, ReasonTypes, EndingTypes DEF Start, TypeOK
<1>7. CASE Tick
  <2>1. login' \in [Logins -> Login]
    <3>1. ASSUME NEW l \in Logins
          PROVE  [login[l] EXCEPT !.age = Least(@ + 1, LoginTTL + 1)] \in Login
      <4>1. login[l] \in Login /\ login[l].age \in 0 .. LoginTTL + 1
        BY DEF TypeOK, Login
      <4> QED BY <4>1, Aged, LoginUpdates
    <3> QED BY <1>7, <3>1 DEF Tick, TypeOK
  <2>2. session' \in [Callbacks -> Session]
    <3>1. ASSUME NEW t \in Callbacks
          PROVE  [session[t] EXCEPT !.created = Least(@ + 1, Absolute + 1),
                                    !.seen = Least(@ + 1, Idle + 1)] \in Session
      <4>1. session[t] \in Session
        BY DEF TypeOK
      <4> QED BY <4>1, Aged, SessionUpdates
    <3> QED BY <1>7, <3>1 DEF Tick, TypeOK
  <2>3. \A t \in Callbacks : session'[t].generation = session[t].generation
    <3>1. \A t \in Callbacks : session[t] \in Session
      BY DEF TypeOK
    <3> QED BY <1>7, <3>1 DEF Tick, Session
  <2>4. exch' \in [Exchanges -> Exchange]
    <3>1. ASSUME NEW y \in Exchanges
          PROVE  [exch[y] EXCEPT !.until = Minus(@), !.left = Minus(@)] \in Exchange
      <4>1. exch[y] \in Exchange
        BY DEF TypeOK
      <4> QED BY <4>1, MinusIs, ExchangeUpdates
    <3> QED BY <1>7, <3>1, NoExchangeType DEF Tick, TypeOK
  <2> QED BY <1>7, <2>1, <2>2, <2>3, <2>4 DEF Tick, TypeOK
<1>8. CASE UNCHANGED vars
  BY <1>8 DEF vars, TypeOK
<1> QED BY <1>1, <1>2, <1>3, <1>4, <1>5, <1>6, <1>7, <1>8, LoginTypes, CallTypes DEF Next

LEMMA TypeInit == Init => TypeOK
<1> SUFFICES ASSUME Init PROVE TypeOK
  OBVIOUS
<1> USE LifetimeAssumption
<1>1. account \in Account /\ generation = 0 /\ swept = 0 /\ closed \in BOOLEAN
  BY DEF Init, Account, Statuses
<1>2. login \in [Logins -> Login] /\ call \in [Callbacks -> Callback]
  BY DEF Init, Login, Callback
<1>3. NoSession \in Session /\ NoSession.generation = 0
  BY DEF Session, NoSession
<1>4. stream \in Seq(SUBSET Callbacks) /\ Len(stream) = 0
  BY DEF Init
<1>5. edge \in [epoch : Nat, at : 0 .. Len(stream), known : SUBSET Callbacks]
  BY <1>4 DEF Init
<1> QED BY <1>1, <1>2, <1>3, <1>4, <1>5, NoExchangeType DEF Init, TypeOK

\* The variables keep their types, for any number of logins, sessions and calls
\* and any lifetimes: no age, version or generation leaves its range.
THEOREM SessionTypesCorrect == Spec => []TypeOK
  BY TypeInit, TypeStep, PTL DEF Spec
-----------------------------------------------------------------------------
(* The inductive invariant.                                                *)

\* A session that has not ended has no reason, and one that is there was opened
\* by its callback's last step.
SessionShape ==
    \A s \in Callbacks :
        /\ session[s].state \in {"none", "live"} => session[s].reason = None
        /\ session[s].state # "none" => call[s].pc = "done"

\* A callback's login is gone.
LoginShape ==
    \A b \in Callbacks : call[b].login # None =>
        call[b].login \in Logins /\ login[call[b].login].state = "gone"

\* The ticks a call's token may have, before and after its signing.
Rest(x) == IF exch[x].pc = "issued" THEN exch[x].left ELSE exch[x].until

OfSession(x) == exch[x].pc \in {"change", "issue", "issued"} /\ exch[x].op # "dev"

\* What holds of a call between its use of a session and its token's end.
CallOK(x) ==
    /\ exch[x].version <= account.version
    /\ exch[x].left > 0 => exch[x].pc = "issued"
    /\ exch[x].session # None =>
          exch[x].session \in Callbacks /\ session[exch[x].session].state # "none"
    /\ OfSession(x) => exch[x].session # None
    /\ Current(x) =>
          IF exch[x].op = "dev" THEN account.status = "active"
          ELSE session[exch[x].session].reason \notin ChangeReasons
    /\ OfSession(x) /\ Rest(x) > 0 =>
          /\ session[exch[x].session].created + Rest(x) <= Absolute
          /\ session[exch[x].session].seen + Rest(x) <= Idle

CallsOK == \A x \in Exchanges : CallOK(x)

IInv ==
    /\ TypeOK
    /\ SessionShape
    /\ LoginShape
    /\ OneCallbackPerLogin
    /\ EndedOnce
    /\ NoneLeftBehind
    /\ CallsOK
-----------------------------------------------------------------------------
(* What a step does to the sessions: it ends some, opens one, or neither.   *)

Ends == \E S \in SUBSET Callbacks, reason \in Reasons : EndAll(S, reason)

Kept ==
    /\ stream' = stream
    /\ \A s \in Callbacks : /\ session'[s].state = session[s].state
                            /\ session'[s].reason = session[s].reason
                            /\ session[s].state # "none" =>
                                  session'[s].generation = session[s].generation

\* EndAll ends the live sessions of its set and leaves all the others.
LEMMA EndAllEffect ==
    ASSUME TypeOK, NEW S, NEW reason, EndAll(S, reason), NEW s \in Callbacks
    PROVE  /\ s \in S /\ session[s].state = "live" =>
                session'[s].state = "ended" /\ session'[s].reason = reason
           /\ ~(s \in S /\ session[s].state = "live") => session'[s] = session[s]
           /\ session'[s].created = session[s].created
           /\ session'[s].seen = session[s].seen
           /\ session'[s].generation = session[s].generation
<1>1. session[s] \in Session
  BY DEF TypeOK
<1> QED BY <1>1 DEF EndAll, Live, Session

LEMMA EndsBy ==
    ASSUME NEW S \in SUBSET Callbacks, NEW reason \in Reasons, EndAll(S, reason)
    PROVE  Ends
  BY DEF Ends

\* The steps by what they do to the sessions.
LEMMA SessionSteps ==
    ASSUME TypeOK, SessionShape, [Next]_vars
    PROVE  \/ Kept
           \/ Ends
           \/ \E b \in Callbacks : Open(b)
<1>0. \A s \in Callbacks : session[s] \in Session
  BY DEF TypeOK
<1>1. ASSUME UNCHANGED <<session, stream>> PROVE Kept
  BY <1>1 DEF Kept
<1>2. ASSUME NEW l \in Logins, Begin(l) PROVE Kept
  BY <1>1, <1>2 DEF Begin
<1>3. ASSUME NEW b \in Callbacks, LoginStep(b)
      PROVE  Kept \/ Ends \/ Open(b)
  <2>1. CASE Insert(b)
    <3>1. call[b].pc = "signed" /\ session[b].state = "none"
      BY <2>1 DEF Insert, SessionShape
    <3> QED BY <1>0, <2>1, <3>1 DEF Insert, Kept, Session
  <2> QED BY <1>1, <1>3, <2>1, ReasonTypes, EndsBy DEF LoginStep, Take, SignedIn, Abandon,
                                                      Logout
<1>4. ASSUME NEW x \in Exchanges, CallStep(x)
      PROVE  Kept \/ Ends
  <2>1. ASSUME NEW s \in Callbacks, NEW op, NEW renew, Use(x, s, op, renew) PROVE Kept
    BY <1>0, <2>1 DEF Use, Kept, Session
  <2>2. ASSUME NEW s \in Callbacks, NEW op, UseTooLate(x, s, op)
        PROVE  Ends
    BY <2>2, EndsBy DEF UseTooLate, Reasons, OwnReasons
  <2>3. ASSUME PasswordChange(x)
        PROVE  Ends
    BY <2>3, EndsBy DEF PasswordChange, Change, Reasons, ChangeReasons, AllChanges
  <2>4. ASSUME DevSignIn(x) \/ Issue(x) \/ GiveUp(x) PROVE Kept
    BY <1>1, <2>4 DEF DevSignIn, Issue, GiveUp
  <2> QED BY <1>4, <2>1, <2>2, <2>3, <2>4 DEF CallStep
<1>5. ASSUME NEW reason \in Changes, SecurityChange(reason)
      PROVE  Ends
  BY <1>5, ReasonTypes, SessionInputAssumption, EndsBy DEF SecurityChange, Change
<1>6. ASSUME NEW target \in Targets, SetStatus(target)
      PROVE  Ends
  BY <1>6, ReasonTypes, SessionInputAssumption, EndsBy DEF SetStatus, Change
<1>7. ASSUME NEW phase, Start(phase)
      PROVE  Ends
  BY <1>7, ReasonTypes, EndsBy DEF Start
<1>8. CASE Tick
  BY <1>0, <1>8 DEF Tick, Kept, Session
<1>9. CASE Ended \/ Advance \/ UNCHANGED vars
  BY <1>1, <1>9 DEF Ended, Advance, vars
<1> QED BY <1>2, <1>3, <1>4, <1>5, <1>6, <1>7, <1>8, <1>9 DEF Next

\* A callback that returned has returned for good.
LEMMA DoneStays ==
    ASSUME TypeOK, [Next]_vars, NEW b \in Callbacks, call[b].pc = "done"
    PROVE  call'[b].pc = "done"
<1>0. call \in [Callbacks -> Callback] /\ call[b] \in Callback
  BY DEF TypeOK
<1>1. ASSUME UNCHANGED call PROVE call'[b].pc = "done"
  BY <1>1
<1>2. ASSUME NEW c \in Callbacks, LoginStep(c) PROVE call'[b].pc = "done"
  BY <1>0, <1>2 DEF LoginStep, Take, SignedIn, Insert, Open, Abandon, Logout, Callback
<1>3. ASSUME NEW x \in Exchanges, CallStep(x) PROVE UNCHANGED call
  BY <1>3 DEF CallStep, Use, UseTooLate, DevSignIn, Issue, PasswordChange, GiveUp
<1>4. ASSUME NEW l \in Logins, Begin(l) PROVE UNCHANGED call
  BY <1>4 DEF Begin
<1>5. ASSUME NEW n, SecurityChange(n) \/ SetStatus(n) \/ Start(n) PROVE UNCHANGED call
  BY <1>5 DEF SecurityChange, SetStatus, Start
<1>6. CASE Ended \/ Advance \/ Tick \/ UNCHANGED vars
  BY <1>1, <1>6 DEF Ended, Advance, Tick, vars
<1> QED BY <1>1, <1>2, <1>3, <1>4, <1>5, <1>6 DEF Next

LEMMA SessionShapeStep ==
    ASSUME TypeOK, SessionShape, [Next]_vars
    PROVE  SessionShape'
<1> SUFFICES ASSUME NEW s \in Callbacks
             PROVE  /\ session'[s].state \in {"none", "live"} => session'[s].reason = None
                    /\ session'[s].state # "none" => call'[s].pc = "done"
  BY DEF SessionShape
<1>1. CASE Kept
  BY <1>1, DoneStays DEF Kept, SessionShape
<1>2. ASSUME NEW S \in SUBSET Callbacks, NEW reason \in Reasons, EndAll(S, reason)
      PROVE  /\ session'[s].state \in {"none", "live"} => session'[s].reason = None
             /\ session'[s].state # "none" => call'[s].pc = "done"
  BY <1>2, DoneStays, EndAllEffect DEF SessionShape
<1>3. ASSUME NEW b \in Callbacks, Open(b)
      PROVE  /\ session'[s].state \in {"none", "live"} => session'[s].reason = None
             /\ session'[s].state # "none" => call'[s].pc = "done"
  <2>1. CASE s = b
    <3>1. session[s] \in Session /\ call[s] \in Callback
      BY DEF TypeOK
    <3> QED BY <1>3, <2>1, <3>1 DEF Open, TypeOK, SessionShape, Session, Callback
  <2>2. CASE s # b
    BY <1>3, <2>2, DoneStays DEF Open, TypeOK, SessionShape
  <2> QED BY <2>1, <2>2
<1> QED BY <1>1, <1>2, <1>3, SessionSteps DEF Ends

\* Each end is written once: EndAll ends sessions no batch names yet.
LEMMA EndedOnceStep ==
    ASSUME TypeOK, SessionShape, EndedOnce, [Next]_vars
    PROVE  EndedOnce'
<1>1. CASE Kept
  BY <1>1 DEF Kept, EndedOnce
<1>2. ASSUME NEW S, NEW reason \in Reasons, EndAll(S, reason) PROVE EndedOnce'
  <2> DEFINE over == S \intersect Live
  <2>0. \A s \in Callbacks :
            /\ s \in over => session[s].state = "live" /\ session'[s].state = "ended"
            /\ s \notin over => session'[s].state = session[s].state
    BY <1>2, EndAllEffect DEF Live
  <2>1. CASE over = {}
    BY <1>2, <2>0, <2>1 DEF EndAll, EndedOnce
  <2>2. CASE over # {}
    <3> DEFINE n == Len(stream)
    <3>1. over \in SUBSET Callbacks /\ stream' = Append(stream, over)
      BY <1>2, <2>2 DEF EndAll, Live
    <3>2. /\ n \in Nat /\ DOMAIN stream = 1 .. n /\ DOMAIN stream' = 1 .. n + 1
          /\ \A i \in 1 .. n : stream'[i] = stream[i]
          /\ stream'[n + 1] = over
      BY <3>1, OneMore DEF TypeOK
    <3> HIDE DEF over, n
    <3>3. \A i \in 1 .. n : stream[i] \subseteq Callbacks /\ stream[i] \intersect over = {}
      BY <2>0, <3>1, <3>2 DEF TypeOK, EndedOnce
    <3>4. \A i \in 1 .. n + 1 : i \in 1 .. n \/ i = n + 1
      BY <3>2
    <3>5. n + 1 \in 1 .. n + 1 /\ 1 .. n \subseteq 1 .. n + 1
      BY <3>2
    <3>6. ASSUME NEW s \in Callbacks
          PROVE  session'[s].state = "ended" <=> \E i \in 1 .. n + 1 : s \in stream'[i]
      <4>1. CASE s \in over
        <5>1. session'[s].state = "ended"
          BY <2>0, <4>1
        <5>2. \E i \in 1 .. n + 1 : s \in stream'[i]
          BY <3>2, <3>5, <4>1
        <5> QED BY <5>1, <5>2
      <4>2. CASE s \notin over
        <5>1. (\E i \in 1 .. n + 1 : s \in stream'[i]) <=> \E i \in 1 .. n : s \in stream[i]
          BY <3>2, <3>4, <3>5, <4>2
        <5> QED BY <2>0, <3>2, <4>2, <5>1 DEF EndedOnce
      <4> QED BY <4>1, <4>2
    <3>7. ASSUME NEW i \in 1 .. n + 1, NEW j \in 1 .. n + 1,
                 stream'[i] \intersect stream'[j] # {}
          PROVE  i = j
      <4>1. CASE i \in 1 .. n /\ j \in 1 .. n
        BY <3>2, <3>7, <4>1 DEF EndedOnce
      <4>2. CASE i = n + 1 \/ j = n + 1
        BY <3>2, <3>3, <3>4, <3>7, <4>2
      <4> QED BY <3>4, <4>1, <4>2
    <3> QED
      <4>1. DOMAIN stream' = 1 .. n + 1
        BY <3>2
      <4>2. \A s \in Callbacks :
                session'[s].state = "ended" <=> \E i \in DOMAIN stream' : s \in stream'[i]
        BY <3>6, <4>1
      <4>3. \A i, j \in DOMAIN stream' : stream'[i] \intersect stream'[j] # {} => i = j
        BY <3>7, <4>1
      <4> QED BY <4>2, <4>3 DEF EndedOnce
  <2> QED BY <2>1, <2>2
<1>3. ASSUME NEW b \in Callbacks, Open(b) PROVE EndedOnce'
  <2>1. session[b].state = "none" /\ session'[b].state = "live"
    BY <1>3 DEF Open, TypeOK, Callback, Session, SessionShape
  <2>2. stream' = stream /\ \A s \in Callbacks \ {b} : session'[s] = session[s]
    BY <1>3 DEF Open, TypeOK
  <2> QED BY <2>1, <2>2 DEF EndedOnce
<1> QED BY <1>1, <1>2, <1>3, SessionSteps DEF Ends
-----------------------------------------------------------------------------
(* The logins, the sweep, and the calls.                                   *)

\* A login taken is gone for good, and a callback that takes one finds it there.
LEMMA LoginStepsOnce ==
    ASSUME TypeOK, LoginShape, OneCallbackPerLogin, [Next]_vars
    PROVE  LoginShape' /\ OneCallbackPerLogin'
<1>0. /\ call \in [Callbacks -> Callback] /\ login \in [Logins -> Login]
      /\ \A b \in Callbacks : call[b] \in Callback
      /\ \A l \in Logins : login[l] \in Login
  BY DEF TypeOK
<1>1. ASSUME \A b \in Callbacks : call'[b].login = call[b].login,
             \A l \in Logins : login[l].state = "gone" => login'[l].state = "gone"
      PROVE  LoginShape' /\ OneCallbackPerLogin'
  BY <1>1 DEF LoginShape, OneCallbackPerLogin
<1>2. ASSUME NEW l \in Logins, Begin(l) PROVE LoginShape' /\ OneCallbackPerLogin'
  BY <1>0, <1>1, <1>2 DEF Begin, Login
<1>3. ASSUME NEW b \in Callbacks, NEW l \in Logins, Take(b, l)
      PROVE  LoginShape' /\ OneCallbackPerLogin'
  <2>1. CASE login[l].state = "begun" /\ login[l].age <= LoginTTL
    <3>1. /\ call' = [call EXCEPT ![b] = [pc |-> "taken", login |-> l]]
          /\ login' = [login EXCEPT ![l].state = "gone"]
      BY <1>3, <2>1 DEF Take
    <3>2. \A c \in Callbacks : call[c].login # l
      BY <2>1, NamesAssumption DEF LoginShape
    <3>3. /\ login'[l].state = "gone"
          /\ \A k \in Logins : login[k].state = "gone" => login'[k].state = "gone"
      BY <1>0, <3>1 DEF Login
    <3>4. /\ call'[b].login = l
          /\ \A c \in Callbacks \ {b} : call'[c].login = call[c].login
      BY <1>0, <3>1
    <3>5. LoginShape'
      BY <3>3, <3>4 DEF LoginShape
    <3>6. OneCallbackPerLogin'
      BY <3>2, <3>4 DEF OneCallbackPerLogin
    <3> QED BY <3>5, <3>6
  <2>2. CASE ~(login[l].state = "begun" /\ login[l].age <= LoginTTL)
    <3>1. call' = [call EXCEPT ![b].pc = "done"] /\ login' = login
      BY <1>3, <2>2 DEF Take
    <3> QED BY <1>0, <1>1, <3>1 DEF Callback
  <2> QED BY <2>1, <2>2
<1>4. ASSUME NEW b \in Callbacks, SignedIn(b) \/ Insert(b) \/ Open(b) \/ Abandon(b) \/ Logout(b)
      PROVE  LoginShape' /\ OneCallbackPerLogin'
  BY <1>0, <1>1, <1>4 DEF SignedIn, Insert, Open, Abandon, Logout, Callback
<1>5. ASSUME NEW x \in Exchanges, CallStep(x) PROVE UNCHANGED <<call, login>>
  BY <1>5 DEF CallStep, Use, UseTooLate, DevSignIn, Issue, PasswordChange, GiveUp
<1>6. ASSUME NEW n, SecurityChange(n) \/ SetStatus(n) \/ Start(n)
      PROVE  UNCHANGED <<call, login>>
  BY <1>6 DEF SecurityChange, SetStatus, Start
<1>7. CASE Tick
  <2>1. \A l \in Logins : login[l].state = "gone" => login'[l].state = "gone"
    BY <1>0, <1>7 DEF Tick, Login
  <2> QED BY <1>1, <1>7, <2>1 DEF Tick
<1>8. CASE Ended \/ Advance \/ UNCHANGED vars
  BY <1>1, <1>8 DEF Ended, Advance, vars
<1> QED BY <1>1, <1>2, <1>3, <1>4, <1>5, <1>6, <1>7, <1>8 DEF Next, LoginStep

\* The generation only rises, a start's sweep ends what lives of before it, and a
\* session opened after it is used only if it is of this generation.
LEMMA NoneLeftStep ==
    ASSUME TypeOK, TypeOK', SessionShape, CallsOK, NoneLeftBehind, [Next]_vars
    PROVE  NoneLeftBehind'
<1> SUFFICES ASSUME NEW s \in Callbacks, session'[s].state = "live",
                    session'[s].generation < swept', NEW x \in Exchanges
             PROVE  exch'[x].session # s
  BY DEF NoneLeftBehind, Live
<1>0. /\ session[s] \in Session /\ session[s].generation \in Nat
      /\ session'[s].generation \in Nat /\ session[s].generation <= generation
      /\ generation \in Nat /\ swept \in Nat /\ swept <= generation
      /\ exch \in [Exchanges -> Exchange] /\ None # s
  BY NamesAssumption DEF TypeOK, Session
<1>1. ASSUME NEW phase, Start(phase) PROVE FALSE
  <2> DEFINE before == {t \in Callbacks : session[t].generation < generation}
  <2>1. EndAll(before, "recovery") /\ swept' = generation
    BY <1>1 DEF Start
  <2>2. s \notin before
    BY <2>1, EndAllEffect
  <2>3. session'[s].generation = session[s].generation
    BY <2>1, EndAllEffect
  <2> QED BY <1>0, <2>1, <2>2, <2>3
<1>2. ASSUME UNCHANGED swept PROVE exch[x].session # s
  <2>1. ASSUME session[s].state = "live", session'[s].generation = session[s].generation
        PROVE  exch[x].session # s
    BY <1>2, <2>1 DEF NoneLeftBehind, Live
  <2>2. CASE Kept
    BY <2>1, <2>2 DEF Kept
  <2>3. ASSUME NEW S \in SUBSET Callbacks, NEW reason \in Reasons, EndAll(S, reason)
        PROVE  exch[x].session # s
    BY <2>1, <2>3, EndAllEffect
  <2>4. ASSUME NEW b \in Callbacks, Open(b) PROVE exch[x].session # s
    <3>1. CASE s = b
      <4>1. session[s].state = "none"
        BY <2>4, <3>1 DEF Open, SessionShape
      <4> QED BY <1>0, <4>1 DEF CallsOK, CallOK
    <3>2. CASE s # b
      BY <2>1, <2>4, <3>2 DEF Open, TypeOK
    <3> QED BY <3>1, <3>2
  <2> QED BY <2>2, <2>3, <2>4, SessionSteps DEF Ends
<1>3. ASSUME NEW y \in Exchanges, CallStep(y) PROVE exch'[x].session # s
  <2>1. UNCHANGED swept
    BY <1>3 DEF CallStep, Use, UseTooLate, DevSignIn, Issue, PasswordChange, GiveUp
  <2>2. ASSUME exch'[x].session \in {exch[x].session, None} PROVE exch'[x].session # s
    BY <1>0, <1>2, <2>1, <2>2
  <2>3. ASSUME NEW t \in Callbacks, NEW op, NEW renew, Use(y, t, op, renew)
        PROVE  exch'[x].session # s
    <3>1. session[t].generation >= generation /\ swept' = swept
      BY <2>3 DEF Use, InTime
    <3>2. session'[t].generation = session[t].generation
      BY <2>3 DEF Use, TypeOK, Session
    <3>3. t # s
      BY <1>0, <3>1, <3>2
    <3>4. exch'[x].session \in {exch[x].session, t}
      BY <1>0, <2>3 DEF Use, NoExchange
    <3> QED BY <2>2, <3>3, <3>4
  <2>4. ASSUME DevSignIn(y) \/ Issue(y) \/ PasswordChange(y) \/ GiveUp(y)
        PROVE  exch'[x].session \in {exch[x].session, None}
    <3>1. NoExchange.session = None /\ NoToken.session = None
      BY DEF NoExchange, NoToken
    <3>2. CASE DevSignIn(y)
      BY <1>0, <3>1, <3>2 DEF DevSignIn, NoExchange
    <3>3. CASE Issue(y)
      BY <1>0, <3>1, <3>3 DEF Issue, Exchange
    <3>4. CASE PasswordChange(y) \/ GiveUp(y)
      BY <1>0, <3>1, <3>4 DEF PasswordChange, GiveUp
    <3> QED BY <2>4, <3>2, <3>3, <3>4
  <2>5. ASSUME NEW t, NEW op, UseTooLate(y, t, op)
        PROVE  exch'[x].session \in {exch[x].session, None}
    BY <1>0, <2>5 DEF UseTooLate, NoExchange, NoToken, Exchange
  <2> QED BY <1>3, <2>2, <2>3, <2>4, <2>5 DEF CallStep
<1>4. ASSUME NEW l \in Logins, Begin(l) PROVE UNCHANGED <<swept, exch>>
  BY <1>4 DEF Begin
<1>5. ASSUME NEW b \in Callbacks, LoginStep(b) PROVE UNCHANGED <<swept, exch>>
  BY <1>5 DEF LoginStep, Take, SignedIn, Insert, Open, Abandon, Logout
<1>6. ASSUME NEW n, SecurityChange(n) \/ SetStatus(n) PROVE UNCHANGED <<swept, exch>>
  BY <1>6 DEF SecurityChange, SetStatus
<1>7. CASE Ended \/ Advance \/ UNCHANGED vars
  BY <1>2, <1>7 DEF Ended, Advance, vars
<1>8. CASE Tick
  <2>1. exch'[x].session \in {exch[x].session, None} /\ swept' = swept
    BY <1>0, <1>8 DEF Tick, NoExchange, NoToken, Exchange
  <2> QED BY <1>0, <1>2, <2>1
<1> QED BY <1>1, <1>2, <1>3, <1>4, <1>5, <1>6, <1>7, <1>8 DEF Next

\* What every step but Tick grants to the calls it does not make: their sessions
\* stay, grow no older, and if the version stays nothing revoked them.
Calm ==
    /\ account'.version >= account.version
    /\ account'.version = account.version => account'.status = account.status
    /\ \A s \in Callbacks : session[s].state # "none" =>
          /\ session'[s].state # "none"
          /\ session'[s].created <= session[s].created /\ session'[s].seen <= session[s].seen
          /\ account'.version = account.version /\ session[s].reason \notin ChangeReasons =>
                session'[s].reason \notin ChangeReasons

\* The fields the calls' facts compare.
LEMMA FieldTypes ==
    ASSUME TypeOK
    PROVE  /\ account \in Account /\ account.version \in Nat /\ account.status \in Statuses
           /\ \A s \in Callbacks : /\ session[s] \in Session
                                   /\ session[s].created \in Nat /\ session[s].seen \in Nat
           /\ \A x \in Exchanges : /\ exch[x] \in Exchange /\ exch[x].version \in Nat
                                   /\ exch[x].until \in Nat /\ exch[x].left \in Nat
                                   /\ Rest(x) \in Nat
<1>1. \A x \in Exchanges : exch[x].until \in Nat /\ exch[x].left \in Nat
  BY DEF TypeOK, Exchange
<1> QED BY <1>1, LifetimeAssumption DEF TypeOK, Account, Session, Exchange, Rest

\* A session's ages are numbers before a step and after it.
LEMMA SessionAges ==
    ASSUME TypeOK, TypeOK', NEW s \in Callbacks
    PROVE  /\ session[s].created \in Nat /\ session[s].seen \in Nat
           /\ session'[s].created \in Nat /\ session'[s].seen \in Nat
<1>1. session[s] \in Session /\ session'[s] \in Session
  BY DEF TypeOK
<1>2. \A r \in Session : r.created \in Nat /\ r.seen \in Nat
  BY LifetimeAssumption DEF Session
<1> QED BY <1>1, <1>2

\* A change raises the version; any other end of a session is its own.
LEMMA EndingCalm ==
    ASSUME TypeOK, SessionShape, NEW S, NEW reason, EndAll(S, reason),
           \/ account'.version = account.version + 1
           \/ /\ account'.version = account.version /\ account'.status = account.status
              /\ reason \in OwnReasons
    PROVE  Calm
<1>1. ASSUME NEW s \in Callbacks, session[s].state # "none"
      PROVE  /\ session'[s].state # "none"
             /\ session'[s].created <= session[s].created /\ session'[s].seen <= session[s].seen
             /\ reason \in OwnReasons /\ session[s].reason \notin ChangeReasons =>
                   session'[s].reason \notin ChangeReasons
  BY <1>1, FieldTypes, EndAllEffect, ReasonTypes
<1> QED BY <1>1, FieldTypes DEF Calm

LEMMA CalmSteps ==
    ASSUME TypeOK, SessionShape, [Next]_vars, ~Tick
    PROVE  Calm
<1>0. ASSUME account'.version = account.version, account'.status = account.status,
             \A s \in Callbacks : session[s].state # "none" => session'[s] = session[s]
      PROVE  Calm
  BY <1>0, FieldTypes DEF Calm
<1>1. ASSUME NEW l \in Logins, Begin(l) PROVE Calm
  BY <1>0, <1>1 DEF Begin
<1>2. ASSUME NEW b \in Callbacks, LoginStep(b) PROVE Calm
  <2>1. ASSUME (\E l \in Logins : Take(b, l)) \/ Abandon(b) PROVE Calm
    BY <1>0, <2>1 DEF Take, Abandon
  <2>2. CASE SignedIn(b)
    <3>1. account'.version = account.version /\ account'.status = account.status
      BY <2>2, FieldTypes DEF SignedIn, Account
    <3> QED BY <1>0, <2>2, <3>1 DEF SignedIn
  <2>3. CASE Open(b)
    <3>1. \A s \in Callbacks : session[s].state # "none" => session'[s] = session[s]
      BY <2>3 DEF Open, TypeOK, Callback, SessionShape
    <3> QED BY <1>0, <2>3, <3>1 DEF Open
  <2>4. CASE Logout(b)
    BY <2>4, EndingCalm, ReasonTypes DEF Logout
  <2>5. CASE Insert(b)
    <3>1. \A s \in Callbacks : session[s].state # "none" => session'[s] = session[s]
      BY <2>5 DEF Insert, TypeOK, Callback, SessionShape
    <3> QED BY <1>0, <2>5, <3>1 DEF Insert
  <2> QED BY <1>2, <2>1, <2>2, <2>3, <2>4, <2>5 DEF LoginStep
<1>3. ASSUME NEW x \in Exchanges, CallStep(x) PROVE Calm
  <2>1. ASSUME NEW s \in Callbacks, NEW op, NEW renew, Use(x, s, op, renew) PROVE Calm
    <3> DEFINE seen == IF Renews(op, renew) THEN 0 ELSE session[s].seen
    <3>1. seen <= session[s].seen /\ session' = [session EXCEPT ![s].seen = seen]
      BY <2>1, FieldTypes DEF Use
    <3> HIDE DEF seen
    <3>2. \A t \in Callbacks :
              /\ session'[t].state = session[t].state /\ session'[t].reason = session[t].reason
              /\ session'[t].created = session[t].created
              /\ session'[t].seen <= session[t].seen
      <4>1. session'[s] = [session[s] EXCEPT !.seen = seen]
        BY <3>1 DEF TypeOK
      <4>2. \A t \in Callbacks \ {s} : session'[t] = session[t]
        BY <3>1 DEF TypeOK
      <4>3. session[s] \in Session
        BY FieldTypes
      <4>4. /\ session'[s].state = session[s].state /\ session'[s].reason = session[s].reason
            /\ session'[s].created = session[s].created /\ session'[s].seen = seen
        BY <4>1, <4>3 DEF Session
      <4> QED BY <3>1, <4>2, <4>4, FieldTypes
    <3> QED BY <2>1, <3>2, FieldTypes DEF Use, Calm
  <2>2. ASSUME NEW s \in Callbacks, NEW op, UseTooLate(x, s, op) PROVE Calm
    <3>1. PICK reason \in OwnReasons : EndAll({s}, reason)
      BY <2>2 DEF UseTooLate, OwnReasons
    <3> QED BY <2>2, <3>1, EndingCalm DEF UseTooLate
  <2>3. CASE DevSignIn(x)
    <3>1. account'.version = account.version /\ account'.status = account.status
      BY <2>3, FieldTypes DEF DevSignIn, Account
    <3> QED BY <1>0, <2>3, <3>1 DEF DevSignIn
  <2>4. CASE PasswordChange(x)
    <3>1. account'.version = account.version + 1
      BY <2>4, FieldTypes DEF PasswordChange, Change, Account
    <3> QED BY <2>4, <3>1, EndingCalm DEF PasswordChange, Change
  <2>5. CASE Issue(x) \/ GiveUp(x)
    BY <1>0, <2>5 DEF Issue, GiveUp
  <2> QED BY <1>3, <2>1, <2>2, <2>3, <2>4, <2>5 DEF CallStep
<1>4. ASSUME NEW n, SecurityChange(n) \/ SetStatus(n) PROVE Calm
  <2>1. PICK status, reason : Change(status, reason, {})
    BY <1>4 DEF SecurityChange, SetStatus
  <2>2. account'.version = account.version + 1
    BY <2>1, FieldTypes DEF Change, Account
  <2> QED BY <2>1, <2>2, EndingCalm DEF Change
<1>5. ASSUME NEW phase, Start(phase) PROVE Calm
  BY <1>5, EndingCalm, ReasonTypes DEF Start
<1>6. CASE Ended \/ Advance \/ UNCHANGED vars
  BY <1>0, <1>6 DEF Ended, Advance, vars
<1> QED BY <1>1, <1>2, <1>3, <1>4, <1>5, <1>6 DEF Next

\* A call that a calm step does not make.
LEMMA Undisturbed ==
    ASSUME TypeOK, TypeOK', SessionShape, Calm, NEW x \in Exchanges, CallOK(x),
           exch'[x] = exch[x]
    PROVE  CallOK(x)'
<1> DEFINE s == exch[x].session
<1>0. /\ account.version \in Nat /\ account'.version \in Nat /\ exch[x].version \in Nat
      /\ account'.version >= account.version /\ Rest(x) \in Nat /\ Rest(x)' = Rest(x)
      /\ Absolute \in Nat /\ Idle \in Nat
  BY FieldTypes, LifetimeAssumption DEF Calm, Rest, TypeOK, Account
<1>1. exch'[x].version <= account'.version
  BY <1>0 DEF CallOK
<1>2. exch'[x].left > 0 => exch'[x].pc = "issued"
  BY DEF CallOK
<1>3. /\ OfSession(x)' => s # None
      /\ s # None => s \in Callbacks /\ session[s].state # "none" /\ session'[s].state # "none"
  BY DEF OfSession, CallOK, Calm
<1>4. Current(x)' => Current(x) /\ account'.version = account.version
  BY <1>0 DEF Current, CallOK
<1>5. Current(x)' => IF exch'[x].op = "dev" THEN account'.status = "active"
                    ELSE session'[exch'[x].session].reason \notin ChangeReasons
  <2>1. CASE exch[x].op = "dev"
    BY <1>4, <2>1 DEF CallOK, Calm
  <2>2. CASE exch[x].op # "dev"
    BY <1>3, <1>4, <2>2 DEF CallOK, Calm, Current, OfSession
  <2> QED BY <2>1, <2>2
<1>6. ASSUME OfSession(x)', Rest(x)' > 0
      PROVE  /\ session'[s].created + Rest(x)' <= Absolute
             /\ session'[s].seen + Rest(x)' <= Idle
  <2>1. OfSession(x) /\ s \in Callbacks
    BY <1>3, <1>6 DEF OfSession
  <2>2. session[s].created + Rest(x) <= Absolute /\ session[s].seen + Rest(x) <= Idle
    BY <1>0, <1>6, <2>1 DEF CallOK
  <2>3. session'[s].created <= session[s].created /\ session'[s].seen <= session[s].seen
    BY <1>3, <1>6 DEF Calm
  <2>4. /\ session[s].created \in Nat /\ session[s].seen \in Nat
        /\ session'[s].created \in Nat /\ session'[s].seen \in Nat
    BY <2>1, SessionAges
  <2> QED BY <1>0, <2>2, <2>3, <2>4
<1> QED BY <1>1, <1>2, <1>3, <1>5, <1>6 DEF CallOK

\* A call that has given no token, or none any more.
LEMMA NoTokenOK ==
    ASSUME TypeOK', NEW x \in Exchanges, exch'[x] = NoToken
    PROVE  CallOK(x)'
<1>1. /\ exch'[x].pc = "done" /\ exch'[x].left = 0 /\ exch'[x].version = 0
      /\ exch'[x].session = None
      /\ account'.version \in Nat
  BY DEF NoToken, NoExchange, TypeOK, Account
<1> QED BY <1>1 DEF CallOK, OfSession, Current

\* The call that a use, a development sign-in or a signing moves on.
LEMMA CallMoves ==
    ASSUME TypeOK, TypeOK', SessionShape, CallsOK, NEW x \in Exchanges, CallStep(x)
    PROVE  CallOK(x)'
<1>0. exch \in [Exchanges -> Exchange] /\ exch[x] \in Exchange /\ CallOK(x)
  BY DEF TypeOK, CallsOK
<1>1. ASSUME NEW s \in Callbacks, NEW op \in {"exchange", "password"}, NEW renew,
             Use(x, s, op, renew)
      PROVE  CallOK(x)'
  <2> DEFINE seen == IF Renews(op, renew) THEN 0 ELSE session[s].seen
             until == Until(s, seen)
             pc == IF op = "password" THEN "change" ELSE "issue"
  <2>1. /\ session[s].state = "live" /\ session[s].reason = None
        /\ session[s].created \in 0 .. Absolute /\ seen \in 0 .. Idle
    BY <1>1, FieldTypes, LifetimeAssumption DEF Use, InTime, SessionShape
  <2>2. /\ until \in Nat /\ session[s].created + until <= Absolute /\ seen + until <= Idle
    BY <2>1, LifetimeAssumption DEF Until, Least
  <2>3. /\ exch'[x].pc = pc /\ exch'[x].op = op /\ exch'[x].session = s
        /\ exch'[x].version = account.version /\ exch'[x].until = until
        /\ exch'[x].left = 0
    BY <1>0, <1>1 DEF Use, NoExchange
  <2>4. account' = account /\ session' = [session EXCEPT ![s].seen = seen]
    BY <1>1 DEF Use
  <2> HIDE DEF seen, until
  <2>5. /\ session'[s].state = "live" /\ session'[s].reason = None
        /\ session'[s].created = session[s].created /\ session'[s].seen = seen
    BY <2>1, <2>4, FieldTypes DEF TypeOK, Session
  <2>6. Rest(x)' = until
    BY <2>3 DEF Rest
  <2>7. account.version \in Nat /\ None \notin ChangeReasons
    BY FieldTypes, ReasonTypes
  <2>8. s # None
    BY NamesAssumption
  <2>9. /\ exch'[x].version <= account'.version /\ ~(exch'[x].left > 0)
        /\ exch'[x].session \in Callbacks /\ session'[exch'[x].session].state # "none"
        /\ exch'[x].session # None
    BY <2>3, <2>4, <2>5, <2>7, <2>8
  <2>10. session'[exch'[x].session].reason \notin ChangeReasons /\ exch'[x].op # "dev"
    BY <2>3, <2>5, <2>7
  <2>11. /\ session'[exch'[x].session].created + Rest(x)' <= Absolute
         /\ session'[exch'[x].session].seen + Rest(x)' <= Idle
    BY <2>2, <2>3, <2>5, <2>6
  <2> QED BY <2>9, <2>10, <2>11 DEF CallOK
<1>2. CASE DevSignIn(x)
  <2>1. CASE account.status = "active"
    <3>1. /\ exch'[x].pc = "issue" /\ exch'[x].op = "dev" /\ exch'[x].left = 0
          /\ exch'[x].version = account.version /\ exch'[x].session = None
      BY <1>0, <1>2, <2>1 DEF DevSignIn, NoExchange
    <3>2. account'.version = account.version /\ account'.status = "active"
      BY <1>2, <2>1, FieldTypes DEF DevSignIn, Account
    <3>3. ~OfSession(x)' /\ account.version \in Nat
      BY <3>1, FieldTypes DEF OfSession
    <3> QED BY <3>1, <3>2, <3>3 DEF CallOK, Current
  <2>2. CASE account.status # "active"
    <3>1. exch'[x] = NoToken
      BY <1>0, <1>2, <2>2 DEF DevSignIn
    <3> QED BY <3>1, NoTokenOK
  <2> QED BY <2>1, <2>2
<1>3. CASE Issue(x)
  <2> DEFINE left == IF exch[x].op = "dev" THEN TTL ELSE Least(TTL, exch[x].until)
  <2>1. left \in Nat /\ (exch[x].op # "dev" => left <= exch[x].until)
    BY FieldTypes, LeastIs, LifetimeAssumption
  <2>2. exch[x].pc = "issue" /\ UNCHANGED <<account, session>>
    BY <1>3 DEF Issue
  <2>3. exch' = [exch EXCEPT ![x] =
            IF left = 0 THEN NoToken ELSE [@ EXCEPT !.pc = "issued", !.left = left, !.until = 0]]
    BY <1>3 DEF Issue
  <2> HIDE DEF left
  <2>4. CASE left = 0
    BY <1>0, <2>3, <2>4, NoTokenOK
  <2>5. CASE left # 0
    <3>1. /\ exch'[x].pc = "issued" /\ exch'[x].op = exch[x].op
          /\ exch'[x].session = exch[x].session /\ exch'[x].version = exch[x].version
          /\ exch'[x].left = left
      BY <1>0, <2>3, <2>5 DEF Exchange
    <3>2. Rest(x)' = left /\ Rest(x) = exch[x].until
      BY <2>2, <3>1 DEF Rest
    <3>3. OfSession(x)' => OfSession(x)
      BY <2>2, <3>1 DEF OfSession
    <3>4. Current(x)' => Current(x)
      BY <2>2, <3>1 DEF Current
    <3>5. ASSUME OfSession(x)'
          PROVE  /\ session[exch[x].session].created + left <= Absolute
                 /\ session[exch[x].session].seen + left <= Idle
      <4>1. OfSession(x) /\ exch[x].op # "dev" /\ exch[x].session \in Callbacks
        BY <1>0, <3>3, <3>5 DEF CallOK, OfSession
      <4>2. left <= Rest(x) /\ Rest(x) > 0 /\ Rest(x) \in Nat
        BY <2>1, <2>5, <3>2, <4>1, FieldTypes
      <4>3. /\ session[exch[x].session].created + Rest(x) <= Absolute
            /\ session[exch[x].session].seen + Rest(x) <= Idle
        BY <1>0, <4>1, <4>2 DEF CallOK
      <4> QED BY <2>1, <4>1, <4>2, <4>3, FieldTypes, LifetimeAssumption
    <3> QED BY <1>0, <2>2, <3>1, <3>2, <3>3, <3>4, <3>5 DEF CallOK
  <2> QED BY <2>4, <2>5
<1>4. ASSUME NEW s \in Callbacks, NEW op, UseTooLate(x, s, op) PROVE exch'[x] = NoToken
  BY <1>0, <1>4 DEF UseTooLate
<1>5. ASSUME PasswordChange(x) \/ GiveUp(x) PROVE exch'[x] = NoToken
  BY <1>0, <1>5 DEF PasswordChange, GiveUp
<1> QED BY <1>1, <1>2, <1>3, <1>4, <1>5, NoTokenOK DEF CallStep

\* A tick ages the session and the token alike.
LEMMA CallsTick ==
    ASSUME TypeOK, TypeOK', NEW x \in Exchanges, CallOK(x), Tick
    PROVE  CallOK(x)'
<1>1. CASE exch[x].pc = "issued" /\ exch[x].left = 1
  BY <1>1, NoTokenOK DEF Tick
<1>2. CASE ~(exch[x].pc = "issued" /\ exch[x].left = 1)
  <2> DEFINE s == exch[x].session
  <2>1. /\ exch'[x].pc = exch[x].pc /\ exch'[x].op = exch[x].op /\ exch'[x].session = s
        /\ exch'[x].version = exch[x].version
        /\ exch'[x].until = Minus(exch[x].until) /\ exch'[x].left = Minus(exch[x].left)
    BY <1>2, FieldTypes DEF Tick, Exchange
  <2>2. account' = account
    BY DEF Tick
  <2>3. exch'[x].left > 0 => exch'[x].pc = "issued"
    BY <2>1, FieldTypes, MinusIs DEF CallOK
  <2>4. Rest(x)' = Minus(Rest(x)) /\ Rest(x) \in Nat
    BY <2>1, FieldTypes DEF Rest
  <2>5. OfSession(x)' = OfSession(x) /\ Current(x)' = Current(x)
    BY <2>1, <2>2 DEF OfSession, Current
  <2>6. ASSUME s # None
        PROVE   /\ session'[s].state = session[s].state /\ session'[s].reason = session[s].reason
               /\ session'[s].created <= session[s].created + 1
               /\ session'[s].seen <= session[s].seen + 1
    <3>0. s \in Callbacks /\ session[s].state # "none"
      BY <2>6 DEF CallOK
    <3>1. session[s] \in Session /\ session[s].created \in 0 .. Absolute + 1
          /\ session[s].seen \in 0 .. Idle + 1
      BY <3>0 DEF TypeOK, Session
    <3>2. session'[s] = [session[s] EXCEPT !.created = Least(@ + 1, Absolute + 1),
                                           !.seen = Least(@ + 1, Idle + 1)]
      BY <3>0 DEF Tick
    <3> QED BY <3>1, <3>2, Aged, LifetimeAssumption DEF Session
  <2>7. ASSUME OfSession(x), Rest(x)' > 0
        PROVE  /\ session'[s].created + Rest(x)' <= Absolute
               /\ session'[s].seen + Rest(x)' <= Idle
    <3>1. Rest(x) > 0 /\ Rest(x)' = Rest(x) - 1
      BY <2>4, <2>7, MinusIs
    <3>2. s # None /\ s \in Callbacks
      BY <2>7 DEF CallOK
    <3>3. session[s].created + Rest(x) <= Absolute /\ session[s].seen + Rest(x) <= Idle
      BY <2>7, <3>1 DEF CallOK
    <3>4. /\ session[s].created \in Nat /\ session[s].seen \in Nat
          /\ session'[s].created \in Nat /\ session'[s].seen \in Nat
      BY <3>2, SessionAges
    <3> QED BY <2>4, <2>6, <3>1, <3>2, <3>3, <3>4, LifetimeAssumption
  <2> QED BY <2>1, <2>2, <2>3, <2>5, <2>6, <2>7 DEF CallOK, Current, OfSession
<1> QED BY <1>1, <1>2

LEMMA CallsStep ==
    ASSUME TypeOK, TypeOK', SessionShape, CallsOK, [Next]_vars
    PROVE  CallsOK'
<1> SUFFICES ASSUME NEW y \in Exchanges PROVE CallOK(y)'
  BY DEF CallsOK
<1>0. CallOK(y)
  BY DEF CallsOK
<1>1. CASE Tick
  BY <1>0, <1>1, CallsTick
<1>2. ASSUME ~Tick, exch'[y] = exch[y] PROVE CallOK(y)'
  BY <1>0, <1>2, CalmSteps, Undisturbed
<1>3. ASSUME ~Tick, NEW x \in Exchanges, CallStep(x) PROVE CallOK(y)'
  <2>1. CASE x = y
    <3>1. CallOK(x)'
      BY <1>3, CallMoves
    <3> QED BY <2>1, <3>1 DEF CallOK, Current, OfSession, Rest
  <2>2. CASE x # y
    <3>1. exch'[y] = exch[y]
      BY <1>3, <2>2, ZenonT(60) DEF CallStep, Use, UseTooLate, DevSignIn, Issue, PasswordChange,
                        GiveUp, TypeOK
    <3> QED BY <1>2, <1>3, <3>1
  <2> QED BY <2>1, <2>2
<1>4. ASSUME NEW b \in Callbacks, LoginStep(b) PROVE exch' = exch
  BY <1>4 DEF LoginStep, Take, SignedIn, Insert, Open, Abandon, Logout
<1>5. ASSUME NEW n, Begin(n) \/ SecurityChange(n) \/ SetStatus(n) \/ Start(n)
      PROVE  exch' = exch
  BY <1>5 DEF Begin, SecurityChange, Change, SetStatus, Start
<1>6. CASE Ended \/ Advance \/ UNCHANGED vars
  BY <1>1, <1>2, <1>6 DEF Ended, Advance, vars
<1> QED BY <1>1, <1>2, <1>3, <1>4, <1>5, <1>6 DEF Next
-----------------------------------------------------------------------------
(* The theorems.                                                           *)

LEMMA InvInit == Init => IInv
<1> SUFFICES ASSUME Init PROVE IInv
  OBVIOUS
<1>1. SessionShape /\ LoginShape /\ OneCallbackPerLogin /\ NoneLeftBehind
  BY DEF Init, NoSession, SessionShape, LoginShape, OneCallbackPerLogin, NoneLeftBehind, Live
<1>2. EndedOnce
  BY DEF Init, NoSession, EndedOnce
<1>3. CallsOK
  BY DEF Init, NoExchange, CallsOK, CallOK, OfSession, Current
<1> QED BY <1>1, <1>2, <1>3, TypeInit DEF IInv

LEMMA InvStep == IInv /\ [Next]_vars => IInv'
  BY TypeStep, SessionShapeStep, LoginStepsOnce, EndedOnceStep, NoneLeftStep, CallsStep
     DEF IInv

LEMMA Invariance == Spec => []IInv
  BY InvInit, InvStep, PTL DEF Spec

\* However many end it, and in whatever order, a session's end is in the ended
\* stream exactly when it ended, and there once.
THEOREM EndsAreWrittenOnce == Spec => []EndedOnce
  BY Invariance, PTL DEF IInv

\* No token of the account's current version is of a session that a security
\* change ended, though it be signed after the change from what was read before.
THEOREM ChangesRevokeTokens == Spec => []TokensGoStale
<1>1. IInv => TokensGoStale
  BY DEF IInv, CallsOK, CallOK, TokensGoStale, Current
<1> QED BY <1>1, Invariance, PTL

\* No token outlives its session's timeouts, whatever the lifetimes are.
THEOREM TokensEndWithSession == Spec => []TokenWithinSession
<1>1. ASSUME IInv, NEW x \in Exchanges, exch[x].op # "dev", exch[x].left > 0
      PROVE  /\ session[exch[x].session].created + exch[x].left <= Absolute
             /\ session[exch[x].session].seen + exch[x].left <= Idle
  <2>1. CallOK(x) /\ exch[x].pc = "issued"
    BY <1>1 DEF IInv, CallsOK, CallOK
  <2>2. OfSession(x) /\ Rest(x) = exch[x].left
    BY <1>1, <2>1 DEF OfSession, Rest
  <2> QED BY <1>1, <2>1, <2>2 DEF CallOK
<1>2. IInv => TokenWithinSession
  BY <1>1 DEF TokenWithinSession
<1> QED BY <1>2, Invariance, PTL

\* A login lets in one callback, however many carry it and however they race.
THEOREM LoginsAreTakenOnce == Spec => []OneCallbackPerLogin
  BY Invariance, PTL DEF IInv

\* After a member's start no session from before it is live, but one inserted while
\* the start ran, and no call ever uses that.
THEOREM SweepsAreComplete == Spec => []NoneLeftBehind
  BY Invariance, PTL DEF IInv

\* An ended session stays ended, for its first reason: no step opens it again or
\* ends it anew.
THEOREM EndsAreFinal == Spec => EndIsFinal
<1>1. ASSUME IInv, [Next]_vars, NEW s \in Callbacks, session[s].state = "ended"
      PROVE  session'[s].state = "ended" /\ session'[s].reason = session[s].reason
  <2>1. CASE Kept
    BY <1>1, <2>1 DEF Kept
  <2>2. ASSUME NEW S \in SUBSET Callbacks, NEW reason \in Reasons, EndAll(S, reason)
        PROVE  session'[s].state = "ended" /\ session'[s].reason = session[s].reason
    BY <1>1, <2>2, EndAllEffect DEF IInv
  <2>3. ASSUME NEW b \in Callbacks, Open(b)
        PROVE  session'[s].state = "ended" /\ session'[s].reason = session[s].reason
    BY <1>1, <2>3 DEF IInv, SessionShape, Open, TypeOK, Callback
  <2> QED BY <1>1, <2>1, <2>2, <2>3, SessionSteps DEF Ends, IInv
<1>2. IInv /\ [Next]_vars =>
        [\A s \in Callbacks : session[s].state = "ended" =>
            session'[s].state = "ended" /\ session'[s].reason = session[s].reason]_vars
  BY <1>1
<1> QED BY <1>2, Invariance, PTL DEF Spec, EndIsFinal
=============================================================================
