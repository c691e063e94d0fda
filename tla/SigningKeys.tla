----------------------------- MODULE SigningKeys -----------------------------
(***************************************************************************)
(* The member's signing keys (keys/keys.go, login/login.go's Issue and     *)
(* Jwks): a process reads the current and the standby key's files one after *)
(* the other under its mutex, to sign an access token or to publish the    *)
(* set, while the operator may switch the files.                           *)
(*                                                                         *)
(* External: the operator rotates as the documents say (publish, wait,     *)
(* switch the two files in one step, wait, withdraw) and may put a file    *)
(* that is no key in the standby's place; a component that verifies access *)
(* tokens keeps the set it fetched and fetches it again in time.  A        *)
(* current file that is no key answers an error and changes nothing: it is *)
(* left out.  Reading two files takes no tick.                             *)
(***************************************************************************)
EXTENDS Naturals

CONSTANTS
    None,        \* no standby key
    Members,     \* the member's processes
    Keys,        \* the signing keys the operator has
    First,       \* the one that signs at first
    Wait,        \* how long a standby key is published before it signs
    TTL,         \* the lifetime of an access token
    Refresh      \* how long a component goes by the set it fetched

ASSUME KeysAssumption == First \in Keys /\ None \notin Keys /\ "broken" \notin Keys
ASSUME RotationAssumption ==
    Wait \in Nat /\ TTL \in Nat /\ Refresh \in Nat /\ Refresh < Wait

VARIABLES
    files,     \* what the two files hold
    rotation,  \* where the operator is, and since when
    ring,      \* what each process parsed last, and of what
    reading,   \* a process between its two reads
    cache,     \* a component's set, and how old it is
    good       \* how long a token of a key is good at most

vars == <<files, rotation, ring, reading, cache, good>>

Files == Keys \union {None, "broken"}
NotReading == [for |-> "none", live |-> {}, torn |-> FALSE]

Init ==
    /\ files = [current |-> First, standby |-> None]
    /\ rotation = [stage |-> "rest", age |-> 0]
    /\ ring = [m \in Members |-> [current |-> None, standby |-> None, next |-> None]]
    /\ reading = [m \in Members |-> NotReading]
    /\ cache = [keys |-> {First}, live |-> {}, torn |-> FALSE, age |-> 0]
    /\ good = [k \in Keys |-> 0]

Signed == {k \in Keys : good[k] > 0}
-----------------------------------------------------------------------------
(* The operator.                                                           *)

Publish(f) ==
    /\ rotation.stage \in {"rest", "broken"}
    /\ f \in (Keys \ {files.current}) \union {"broken"}
    /\ files' = [files EXCEPT !.standby = f]
    /\ rotation' = [stage |-> IF f = "broken" THEN "broken" ELSE "published", age |-> 0]

Switch ==
    /\ rotation.stage = "published" /\ rotation.age = Wait
    /\ files' = [current |-> files.standby, standby |-> files.current]
    /\ rotation' = [stage |-> "switched", age |-> 0]

Withdraw ==
    /\ rotation.stage = "switched" /\ rotation.age >= TTL
    /\ files' = [files EXCEPT !.standby = None]
    /\ rotation' = [stage |-> "rest", age |-> 0]

\* A switch or another change of the files tears the readings under way.
Operator ==
    /\ (\E f \in Files : Publish(f)) \/ Switch \/ Withdraw
    /\ reading' = [m \in Members |->
          IF reading[m].for = "none" THEN reading[m] ELSE [reading[m] EXCEPT !.torn = TRUE]]
    /\ UNCHANGED <<ring, cache, good>>
-----------------------------------------------------------------------------
(* The key ring.                                                           *)

\* Keys reads the current key; it holds the process's mutex until it has read
\* the standby's.
ReadCurrent(m, for) ==
    /\ reading[m].for = "none"
    /\ ring' = [ring EXCEPT ![m].current = files.current]
    /\ reading' = [reading EXCEPT ![m] = [for |-> for, live |-> Signed, torn |-> FALSE]]
    /\ UNCHANGED <<files, rotation, cache, good>>

\* Mutants of Parsed: the standby is published unparsed; once there is one it is
\* not looked at again.
ParsedUnchecked(r, f) ==
    IF f = r.standby THEN r ELSE [r EXCEPT !.standby = f, !.next = f]
ParsedOnce(r, f) ==
    IF r.next # None THEN r
    ELSE [r EXCEPT !.standby = f, !.next = IF f \in Keys THEN f ELSE None]

\* The standby key is parsed when its file changed; one that is no key is none.
Parsed(r, f) ==
    IF f = r.standby THEN r
    ELSE [r EXCEPT !.standby = f, !.next = IF f \in Keys THEN f ELSE None]

\* Mutant of Published: the key that signs is enough.
PublishedCurrent(r) == {r.current}

Published(r) == {r.current} \union ({r.next} \ {None})

ReadStandby(m, for) ==
    /\ reading[m].for = for
    /\ ring' = [ring EXCEPT ![m] = Parsed(@, files.standby)]
    /\ reading' = [reading EXCEPT ![m] = NotReading]
    /\ UNCHANGED <<files, rotation>>

\* Jwks answers a component with the set.
Jwks(m) ==
    /\ ReadStandby(m, "jwks")
    /\ cache' = [keys |-> Published(ring'[m]), live |-> reading[m].live,
                 torn |-> reading[m].torn, age |-> 0]
    /\ UNCHANGED good

\* A token is signed with the current key.
Issue(m) ==
    /\ ReadStandby(m, "issue")
    /\ good' = [good EXCEPT ![ring[m].current] = TTL]
    /\ UNCHANGED cache

\* A component fetches the set again before it is too old; the ages stop counting
\* where nothing looks at them any more.
Less(n) == IF n = 0 THEN 0 ELSE n - 1
Tick ==
    /\ \A m \in Members : reading[m].for = "none"
    /\ cache.age < Refresh
    /\ cache' = [cache EXCEPT !.age = @ + 1, !.live = {k \in @ : good[k] > 1}]
    /\ rotation' = [rotation EXCEPT !.age = IF @ < Wait \/ @ < TTL THEN @ + 1 ELSE @]
    /\ good' = [k \in Keys |-> Less(good[k])]
    /\ UNCHANGED <<files, ring, reading>>

Next ==
    \/ Operator
    \/ \E m \in Members : \/ ReadCurrent(m, "jwks") \/ ReadCurrent(m, "issue")
                          \/ Jwks(m) \/ Issue(m)
    \/ Tick

Spec == Init /\ [][Next]_vars
-----------------------------------------------------------------------------
(* Properties.                                                             *)

TypeOK ==
    /\ files \in [current : Keys, standby : Files]
    /\ rotation \in [stage : {"rest", "broken", "published", "switched"}, age : Nat]
    /\ ring \in [Members -> [current : Keys \union {None}, standby : Files,
                             next : Keys \union {None}]]
    /\ reading \in [Members -> [for : {"none", "jwks", "issue"}, live : SUBSET Keys,
                                torn : BOOLEAN]]
    /\ cache \in [keys : SUBSET Keys, live : SUBSET Keys, torn : BOOLEAN, age : 0 .. Refresh]
    /\ good \in [Keys -> 0 .. TTL]

\* "The old key, until its tokens expire" (component.yaml:139): a set fetched when
\* a token was already signed has the token's key for as long as the token is
\* good, though the files be switched or the standby withdrawn meanwhile.
FetchedCoversSigned == \A k \in cache.live : good[k] > 0 => k \in cache.keys

\* "Published in the JWKS before it signs" (component.yaml:139): every token that
\* is good verifies with the set a component has, fetched before or after, unless
\* the files were switched between the two reads that made the set.
SignedIsKnown == \A k \in Signed : k \in cache.keys \/ cache.torn
=============================================================================
