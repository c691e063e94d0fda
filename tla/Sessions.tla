------------------------------- MODULE Sessions -------------------------------
(***************************************************************************)
(* One account's logins, browser sessions and tokens (login/login.go,      *)
(* sessions/sessions.go and the session half of core/store.go): the login's *)
(* transactions Take, Principal and Open, the uses of a session by the     *)
(* edge's Exchange and by ChangePassword, and everything that ends a       *)
(* session, with the ended stream the edge follows.                        *)
(*                                                                         *)
(* A step is one database transaction, or the signing of a token: Use      *)
(* commits before its caller goes on, and anything may happen in between.  *)
(* Only Open is two steps: no lock orders its INSERT with a start's sweep. *)
(* A callback opens at most one session, which has the callback's name.    *)
(* What module AccountOperations does to the account is here any security  *)
(* change at any time.  Ages and lifetimes are counted in ticks; an age is *)
(* not counted beyond the first tick past its timeout.                     *)
(***************************************************************************)
EXTENDS Naturals, Sequences

CONSTANTS
    None,
    Logins,      \* states of logins: rows of iam_login
    Callbacks,   \* callbacks of logins, and the sessions they open
    Exchanges,   \* calls that use a session or sign a development token
    Operations,  \* what those calls are: subset of the operations below
    Changes,     \* reasons of security changes that leave the status alone
    Targets,     \* the statuses set
    Phases,      \* whether a member may start closed (in a full recovery), or not
    LoginTTL, TTL, Idle, Absolute,  \* in ticks
    MaxVersion, MaxGeneration       \* bounds of the behaviours

AllOperations == {"exchange", "password", "dev"}
AllChanges == {"password", "second_factor", "forced"}
Statuses == {"active", "disabled", "security_frozen"}

\* What a security change ends a session with; the rest are its own ends.
ChangeReasons == {"disabled", "frozen", "revoked"} \union AllChanges
OwnReasons == {"logout", "idle", "absolute", "recovery"}
Reasons == ChangeReasons \union OwnReasons

ASSUME NamesAssumption == None \notin Logins \union Callbacks \union Reasons
ASSUME SessionInputAssumption ==
    /\ Operations \subseteq AllOperations
    /\ Changes \subseteq AllChanges
    /\ Targets \subseteq Statuses
    /\ Phases \subseteq BOOLEAN
ASSUME LifetimeAssumption ==
    LoginTTL \in Nat /\ TTL \in Nat /\ Idle \in Nat /\ Absolute \in Nat
ASSUME SessionBoundAssumption == MaxVersion \in Nat /\ MaxGeneration \in Nat

VARIABLES
    account,     \* its row: whether it is bound, its status, its version
    generation,  \* the deployment's recovery generation
    swept,       \* history: the generation of the last sweep at a start
    closed,      \* a full recovery runs and is not open read-only yet
    login,       \* the rows of iam_login
    call,        \* the callbacks' handlers
    session,     \* the rows of iam_session
    stream,      \* the ended stream: the sessions each transaction ended
    edge,        \* where the edge's reading is, and the ends it knows
    exch         \* the calls that use a session, and the tokens they gave

vars == <<account, generation, swept, closed, login, call, session, stream, edge, exch>>

Account == [bound : BOOLEAN, status : Statuses, version : Nat]
Login == [state : {"new", "begun", "gone"}, age : 0 .. LoginTTL + 1]
Callback == [pc : {"idle", "taken", "signed", "opening", "done"}, login : Logins \union {None}]
Session == [state : {"none", "live", "ended"}, reason : Reasons \union {None},
            created : 0 .. Absolute + 1, seen : 0 .. Idle + 1, generation : Nat]
Exchange == [pc : {"idle", "change", "issue", "issued", "done"}, op : AllOperations,
             session : Callbacks \union {None}, version : Nat, until : Nat, left : Nat]

NoSession == [state |-> "none", reason |-> None, created |-> 0, seen |-> 0,
              generation |-> 0]
NoExchange == [pc |-> "idle", op |-> "exchange", session |-> None, version |-> 0,
               until |-> 0, left |-> 0]
\* A call that returned without a token, or whose token has expired.
NoToken == [NoExchange EXCEPT !.pc = "done"]

\* The member has no account of this user, the edge reads from the stream's end.
Init ==
    /\ account = [bound |-> FALSE, status |-> "active", version |-> 1]
    /\ generation = 0 /\ swept = 0 /\ closed = FALSE
    /\ login = [l \in Logins |-> [state |-> "new", age |-> 0]]
    /\ call = [b \in Callbacks |-> [pc |-> "idle", login |-> None]]
    /\ session = [s \in Callbacks |-> NoSession]
    /\ stream = <<>>
    /\ edge = [epoch |-> 0, at |-> 0, known |-> {}]
    /\ exch = [x \in Exchanges |-> NoExchange]
-----------------------------------------------------------------------------
Least(a, b) == IF a <= b THEN a ELSE b
Live == {s \in Callbacks : session[s].state = "live"}

\* Mutant of EndAll: a session that ended before is ended (and sent) again.
EndAllAgain(S, reason) ==
    LET over == {s \in S : session[s].state # "none"}
    IN  /\ session' = [s \in Callbacks |->
              IF s \in over
              THEN [session[s] EXCEPT !.state = "ended", !.reason = reason]
              ELSE session[s]]
        /\ stream' = IF over = {} THEN stream ELSE Append(stream, over)

\* Mutant of EndAll: a session past its time is ended and not sent.
EndAllUnsent(S, reason) ==
    LET over == S \intersect Live
    IN  /\ session' = [s \in Callbacks |->
              IF s \in over
              THEN [session[s] EXCEPT !.state = "ended", !.reason = reason]
              ELSE session[s]]
        /\ stream' = IF over = {} \/ reason = "absolute" THEN stream ELSE Append(stream, over)

\* The sessions of S that live end with a reason, each written to the stream.
EndAll(S, reason) ==
    LET over == S \intersect Live
    IN  /\ session' = [s \in Callbacks |->
              IF s \in over
              THEN [session[s] EXCEPT !.state = "ended", !.reason = reason]
              ELSE session[s]]
        /\ stream' = IF over = {} THEN stream ELSE Append(stream, over)

\* Mutant of Change: the version stays.
ChangeInPlace(status, reason, keep) ==
    /\ account.version < MaxVersion
    /\ account' = [account EXCEPT !.status = status]
    /\ EndAll(Callbacks \ keep, reason)

\* A security change: the version up, every live session but keep ended.
Change(status, reason, keep) ==
    /\ account.version < MaxVersion
    /\ account' = [account EXCEPT !.status = status, !.version = @ + 1]
    /\ EndAll(Callbacks \ keep, reason)

ReasonFor(target) ==
    CASE target = "disabled" -> "disabled"
      [] target = "security_frozen" -> "frozen"
      [] target = "active" -> "revoked"
-----------------------------------------------------------------------------
(* The login.                                                              *)

\* A login is saved; those past their time are forgotten.
Begin(l) ==
    /\ login[l].state = "new"
    /\ login' = [k \in Logins |->
          IF k = l THEN [state |-> "begun", age |-> 0]
          ELSE IF login[k].state = "begun" /\ login[k].age > LoginTTL
          THEN [login[k] EXCEPT !.state = "gone"]
          ELSE login[k]]
    /\ UNCHANGED <<account, generation, swept, closed, call, session, stream, edge, exch>>

\* Mutant of Take: the row is read and not deleted.
TakeRead(b, l) ==
    /\ call[b].pc = "idle" /\ login[l].state # "new"
    /\ IF login[l].state = "begun" /\ login[l].age <= LoginTTL
       THEN call' = [call EXCEPT ![b] = [pc |-> "taken", login |-> l]]
       ELSE call' = [call EXCEPT ![b].pc = "done"]
    /\ UNCHANGED <<account, generation, swept, closed, login, session, stream, edge, exch>>

\* The callback consumes its login, or is refused.
Take(b, l) ==
    /\ call[b].pc = "idle" /\ login[l].state # "new"
    /\ IF login[l].state = "begun" /\ login[l].age <= LoginTTL
       THEN /\ login' = [login EXCEPT ![l].state = "gone"]
            /\ call' = [call EXCEPT ![b] = [pc |-> "taken", login |-> l]]
       ELSE /\ call' = [call EXCEPT ![b].pc = "done"]
            /\ UNCHANGED login
    /\ UNCHANGED <<account, generation, swept, closed, session, stream, edge, exch>>

\* Casdoor took the code: the account is bound, and refused if not active.
SignedIn(b) ==
    /\ call[b].pc = "taken"
    /\ account' = [account EXCEPT !.bound = TRUE]
    /\ call' = [call EXCEPT ![b].pc = IF account.status = "active" THEN "signed" ELSE "done"]
    /\ UNCHANGED <<generation, swept, closed, login, session, stream, edge, exch>>

\* Open's INSERT reads the generation, which nothing locks, ...
Insert(b) ==
    /\ call[b].pc = "signed"
    /\ session' = [session EXCEPT ![b].generation = generation]
    /\ call' = [call EXCEPT ![b].pc = "opening"]
    /\ UNCHANGED <<account, generation, swept, closed, login, stream, edge, exch>>

\* ... and the others see its row from its commit on.
Open(b) ==
    /\ call[b].pc = "opening"
    /\ session' = [session EXCEPT ![b].state = "live"]
    /\ call' = [call EXCEPT ![b].pc = "done"]
    /\ UNCHANGED <<account, generation, swept, closed, login, stream, edge, exch>>

\* Casdoor refuses the code, a call fails, or the process dies.
Abandon(b) ==
    /\ call[b].pc \in {"taken", "signed", "opening"}
    /\ call' = [call EXCEPT ![b].pc = "done"]
    /\ UNCHANGED <<account, generation, swept, closed, login, session, stream, edge, exch>>

Logout(s) ==
    /\ session[s].state # "none"
    /\ EndAll({s}, "logout")
    /\ UNCHANGED <<account, generation, swept, closed, login, call, edge, exch>>
-----------------------------------------------------------------------------
(* The uses of a session.                                                  *)

\* Mutant of InTime: a session of a generation before is used.
InTimeAnyGeneration(s) ==
    /\ session[s].state = "live"
    /\ session[s].seen <= Idle
    /\ session[s].created <= Absolute

\* Mutant of InTime: the idle time is not looked at.
InTimeAbsolute(s) ==
    /\ session[s].state = "live"
    /\ session[s].created <= Absolute
    /\ session[s].generation >= generation

\* A session that gives tokens: by neither timeout over, of this generation.
InTime(s) ==
    /\ session[s].state = "live"
    /\ session[s].seen <= Idle
    /\ session[s].created <= Absolute
    /\ session[s].generation >= generation

\* Mutant of Until: only the absolute timeout counts.
UntilAbsolute(s, seen) == Absolute - session[s].created

\* How long the session lives at the latest, last seen so many ticks ago.
Until(s, seen) == Least(Absolute - session[s].created, Idle - seen)

\* A password change renews the idle time; Exchange does when it is asked to.
Renews(op, renew) == op = "password" \/ renew

\* Use finds the session live.
Use(x, s, op, renew) ==
    LET seen == IF Renews(op, renew) THEN 0 ELSE session[s].seen
    IN  /\ exch[x].pc = "idle" /\ op \in Operations \ {"dev"}
        /\ op = "exchange" => ~closed
        /\ InTime(s)
        /\ session' = [session EXCEPT ![s].seen = seen]
        /\ exch' = [exch EXCEPT ![x] = [NoExchange EXCEPT
              !.pc = IF op = "password" THEN "change" ELSE "issue", !.op = op,
              !.session = s, !.version = account.version, !.until = Until(s, seen)]]
        /\ UNCHANGED <<account, generation, swept, closed, login, call, stream, edge>>

\* Use finds it past its time (or of a generation before) and ends it.
UseTooLate(x, s, op) ==
    LET reason == IF session[s].generation < generation THEN "recovery"
                  ELSE IF session[s].created > Absolute THEN "absolute" ELSE "idle"
    IN  /\ exch[x].pc = "idle" /\ op \in Operations \ {"dev"}
        /\ op = "exchange" => ~closed
        /\ session[s].state # "none" /\ ~InTime(s)
        /\ EndAll({s}, reason)
        /\ exch' = [exch EXCEPT ![x] = NoToken]
        /\ UNCHANGED <<account, generation, swept, closed, login, call, edge>>

\* DevToken's sign-in: a token without a session.
DevSignIn(x) ==
    /\ exch[x].pc = "idle" /\ "dev" \in Operations
    /\ account' = [account EXCEPT !.bound = TRUE]
    /\ exch' = [exch EXCEPT ![x] =
          IF account.status = "active"
          THEN [NoExchange EXCEPT !.pc = "issue", !.op = "dev",
                                  !.version = account.version]
          ELSE NoToken]
    /\ UNCHANGED <<generation, swept, closed, login, call, session, stream, edge>>

\* A token at the version read, which ends no later than the session; a token
\* without a session lives TTL from its signing.
Issue(x) ==
    /\ exch[x].pc = "issue"
    /\ LET left == IF exch[x].op = "dev" THEN TTL ELSE Least(TTL, exch[x].until)
       IN  exch' = [exch EXCEPT ![x] =
             IF left = 0 THEN NoToken ELSE [@ EXCEPT !.pc = "issued", !.left = left,
                                                     !.until = 0]]
    /\ UNCHANGED <<account, generation, swept, closed, login, call, session, stream, edge>>

\* Casdoor took the new password: the session that changed it is kept.
PasswordChange(x) ==
    /\ exch[x].pc = "change"
    /\ Change(account.status, "password", {exch[x].session})
    /\ exch' = [exch EXCEPT ![x] = NoToken]
    /\ UNCHANGED <<generation, swept, closed, login, call, edge>>

\* A wrong password, a key that cannot be read, a failure, a crash.
GiveUp(x) ==
    /\ exch[x].pc \in {"change", "issue"}
    /\ exch' = [exch EXCEPT ![x] = NoToken]
    /\ UNCHANGED <<account, generation, swept, closed, login, call, session, stream, edge>>
-----------------------------------------------------------------------------
(* The account's other changes, the edge, the recovery, and time.          *)

\* A forced logout, a reset of the second factors, what a comparison found.
SecurityChange(reason) ==
    /\ account.bound
    /\ Change(account.status, reason, {})
    /\ UNCHANGED <<generation, swept, closed, login, call, edge, exch>>

\* A status set; a disabled account may be disabled again with another mark.
SetStatus(target) ==
    /\ account.bound
    /\ target # "disabled" => account.status # target
    /\ Change(target, ReasonFor(target), {})
    /\ UNCHANGED <<generation, swept, closed, login, call, edge, exch>>

\* Mutant of Ended: the cursor moves past a batch that was not read.
EndedSkipping ==
    /\ edge.epoch # generation \/ edge.at < Len(stream)
    /\ edge' = IF edge.epoch # generation
               THEN [epoch |-> generation, at |-> Len(stream),
                     known |-> {s \in Callbacks : session[s].state = "ended"}]
               ELSE [edge EXCEPT !.at = Len(stream), !.known = @ \union stream[edge.at + 1]]
    /\ UNCHANGED <<account, generation, swept, closed, login, call, session, stream, exch>>

\* The edge reads on from its cursor; a cursor of another epoch resets it: it
\* drops all it holds, as if it knew every end, and starts at the stream's end.
Ended ==
    /\ edge.epoch # generation \/ edge.at < Len(stream)
    /\ edge' = IF edge.epoch # generation
               THEN [epoch |-> generation, at |-> Len(stream),
                     known |-> {s \in Callbacks : session[s].state = "ended"}]
               ELSE [edge EXCEPT !.at = @ + 1, !.known = @ \union stream[edge.at + 1]]
    /\ UNCHANGED <<account, generation, swept, closed, login, call, session, stream, exch>>

\* A full recovery advances the generation.
Advance ==
    /\ generation < MaxGeneration
    /\ generation' = generation + 1
    /\ UNCHANGED <<account, swept, closed, login, call, session, stream, edge, exch>>

\* A member starts, in whatever phase, and ends the sessions from before.
Start(phase) ==
    /\ closed' = phase
    /\ swept' = generation
    /\ EndAll({s \in Callbacks : session[s].generation < generation}, "recovery")
    /\ UNCHANGED <<account, generation, login, call, edge, exch>>

Minus(n) == IF n = 0 THEN 0 ELSE n - 1

Tick ==
    /\ login' = [l \in Logins |->
          IF login[l].state = "begun"
          THEN [login[l] EXCEPT !.age = Least(@ + 1, LoginTTL + 1)] ELSE login[l]]
    /\ session' = [s \in Callbacks |->
          IF session[s].state = "none" THEN session[s]
          ELSE [session[s] EXCEPT !.created = Least(@ + 1, Absolute + 1),
                                  !.seen = Least(@ + 1, Idle + 1)]]
    /\ exch' = [x \in Exchanges |->
          IF exch[x].pc = "issued" /\ exch[x].left = 1 THEN NoToken
          ELSE [exch[x] EXCEPT !.until = Minus(@), !.left = Minus(@)]]
    /\ UNCHANGED <<account, generation, swept, closed, call, stream, edge>>
-----------------------------------------------------------------------------
LoginStep(b) ==
    \/ SignedIn(b) \/ Insert(b) \/ Open(b) \/ Abandon(b) \/ Logout(b)
    \/ \E l \in Logins : Take(b, l)

CallStep(x) ==
    \/ DevSignIn(x) \/ Issue(x) \/ PasswordChange(x) \/ GiveUp(x)
    \/ \E s \in Callbacks, op \in {"exchange", "password"} :
          \/ UseTooLate(x, s, op)
          \/ \E renew \in BOOLEAN : Use(x, s, op, renew)

Next ==
    \/ \E l \in Logins : Begin(l)
    \/ \E b \in Callbacks : LoginStep(b)
    \/ \E x \in Exchanges : CallStep(x)
    \/ \E reason \in Changes : SecurityChange(reason)
    \/ \E target \in Targets : SetStatus(target)
    \/ Ended
    \/ Advance
    \/ \E phase \in Phases : Start(phase)
    \/ Tick

Spec == Init /\ [][Next]_vars

\* The edge polls for ever.
FairSpec == Spec /\ WF_vars(Ended)
-----------------------------------------------------------------------------
(* Properties.                                                             *)

\* Every row, handler and counter has its type, no session is of a generation
\* to come.
TypeOK ==
    /\ account \in Account
    /\ generation \in Nat /\ swept \in 0 .. generation /\ closed \in BOOLEAN
    /\ login \in [Logins -> Login]
    /\ call \in [Callbacks -> Callback]
    /\ session \in [Callbacks -> Session]
    /\ \A s \in Callbacks : session[s].generation <= generation
    /\ stream \in Seq(SUBSET Callbacks)
    /\ edge \in [epoch : Nat, at : 0 .. Len(stream), known : SUBSET Callbacks]
    /\ exch \in [Exchanges -> Exchange]

\* A session ended exactly if its end is in the ended stream, and it is there
\* once: whoever ends it (a use past its time, a logout, a security change, a
\* sweep) finds it live and writes its end in the same transaction.
EndedOnce ==
    /\ \A s \in Callbacks :
          session[s].state = "ended" <=> \E i \in DOMAIN stream : s \in stream[i]
    /\ \A i, j \in DOMAIN stream : stream[i] \intersect stream[j] # {} => i = j

\* A token of the account's current version is of a session no security change
\* ended, one of the development exchange of an active account: whatever was
\* signed before a change, or read before it and signed after, is stale.
Current(x) == exch[x].pc \in {"issue", "issued"} /\ exch[x].version = account.version
TokensGoStale ==
    \A x \in Exchanges : Current(x) =>
        IF exch[x].op = "dev" THEN account.status = "active"
        ELSE session[exch[x].session].reason \notin ChangeReasons

\* A token ends no later than its session, by either timeout, though Use has
\* committed when it is signed (Issue, "never past until").
TokenWithinSession ==
    \A x \in Exchanges : exch[x].op # "dev" /\ exch[x].left > 0 =>
        LET s == session[exch[x].session]
        IN  s.created + exch[x].left <= Absolute /\ s.seen + exch[x].left <= Idle

\* A login lets in one callback, though the browser may send it twice.
OneCallbackPerLogin ==
    \A b, c \in Callbacks : call[b].login = call[c].login => b = c \/ call[b].login = None

\* After a member's start the sessions from before the generation it started in
\* have ended (EndBeforeRecovery); one that a login was inserting meanwhile lives,
\* and gives no token.
NoneLeftBehind ==
    \A s \in Live : session[s].generation < swept =>
        \A x \in Exchanges : exch[x].session # s

\* A session that ended stays ended, for the reason it ended first.
EndIsFinal ==
    [][ \A s \in Callbacks : session[s].state = "ended" =>
          session'[s].state = "ended" /\ session'[s].reason = session[s].reason ]_vars

\* "A disabled account has no live session" (ReasonFor's comment).
DisabledHasNoSession == account.status = "disabled" => Live = {}

\* The ends the stream announces, and the calls with a token that is good.
Announced == UNION {stream[i] : i \in DOMAIN stream}
Holders == {<<x, exch[x].session>> : x \in {y \in Exchanges : Current(y)}}

\* The tokens, the sessions and the ended stream keep the promises of module
\* SessionPromises: a token counts from the Use that grants it, whenever it is
\* signed, and goes with the next security change; a session lives until its
\* end is in the stream (changeEv, ended, Use, Issue).
Promises == INSTANCE SessionPromises WITH
    live <- Live, over <- Announced, known <- edge.known,
    tokens <- Holders, active <- account.status = "active"
Promised == Promises!Spec

\* The edge comes to know every end, whatever its cursor was before.
EndsReachTheEdge ==
    \A s \in Callbacks : session[s].state = "ended" ~> s \in edge.known
=============================================================================
