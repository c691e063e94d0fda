---------------------------- MODULE SessionPromises ----------------------------
(***************************************************************************)
(* What the member promises of one account's sessions and tokens to those  *)
(* who rely on it, the edge first: a token is of a live session when it is *)
(* granted, a security change takes every token and every live session but *)
(* the one that made it at one stroke, a session that lives no longer is   *)
(* announced in the very step that ends it, and the edge believes no end   *)
(* that was not announced.  Module Sessions implements it.                 *)
(***************************************************************************)
CONSTANTS
    None,
    Callbacks,   \* the sessions, named as in Sessions
    Exchanges    \* the calls that get a token

VARIABLES
    live,        \* the sessions that live
    over,        \* the ends announced
    known,       \* the ends the edge knows
    tokens,      \* who holds a token that is good: <<call, session>>
    active       \* the account is

vars == <<live, over, known, tokens, active>>

Init == live = {} /\ over = {} /\ known = {} /\ tokens = {} /\ active = TRUE

Open(s) ==
    /\ s \notin live \union over
    /\ live' = live \union {s}
    /\ UNCHANGED <<over, known, tokens, active>>

\* A token of a live session; without one, only while the account is active.
Grant(x, s) ==
    /\ \A t \in tokens : t[1] # x
    /\ IF s = None THEN active ELSE s \in live
    /\ tokens' = tokens \union {<<x, s>>}
    /\ UNCHANGED <<live, over, known, active>>

\* Tokens expire, or are not signed after all.
Lapse ==
    /\ tokens' \subseteq tokens
    /\ UNCHANGED <<live, over, known, active>>

\* Sessions end by themselves; their tokens last until they expire.
End(S) ==
    /\ live' = live \ S
    /\ over' = over \union (S \intersect live)
    /\ UNCHANGED <<known, tokens, active>>

\* A security change; who changes the password keeps a session, and the status.
Change(keep) ==
    /\ tokens' = {}
    /\ live' = live \intersect keep
    /\ over' = over \union (live \ keep)
    /\ active' \in BOOLEAN /\ (keep # {} => active' = active)
    /\ UNCHANGED known

Learn(S) ==
    /\ known' = known \union (S \intersect over)
    /\ UNCHANGED <<live, over, tokens, active>>

Next ==
    \/ \E s \in Callbacks : Open(s)
    \/ \E x \in Exchanges, s \in Callbacks \union {None} : Grant(x, s)
    \/ Lapse
    \/ \E S \in SUBSET Callbacks : End(S) \/ Learn(S)
    \/ \E keep \in {{}} \union {{s} : s \in Callbacks} : Change(keep)

Spec == Init /\ [][Next]_vars
=============================================================================
