-------------------------- MODULE SigningKeys_proofs --------------------------
(***************************************************************************)
(* Proofs about SigningKeys, for any number of processes and keys and any  *)
(* waits.  The invariants the runs check are not inductive: what a component *)
(* knows depends on what a process had read when the operator's files       *)
(* changed, and on how long ago the standby key was published.             *)
(***************************************************************************)
EXTENDS SigningKeys, TLAPS

\* What the two files hold at each stage of a rotation.
FilesOK ==
    /\ files.current # files.standby
    /\ rotation.stage = "rest" => files.standby = None
    /\ rotation.stage = "broken" => files.standby = "broken"
    /\ rotation.stage \in {"published", "switched"} => files.standby \in Keys

\* A good token is of the current key, or of the old one, with less time left
\* than the operator still waits.
TokensOK ==
    \A k \in Keys : good[k] > 0 =>
        \/ k = files.current
        \/ rotation.stage = "switched" /\ k = files.standby /\ good[k] + rotation.age <= TTL

\* The parsed standby is what its text is.
RingOK ==
    \A m \in Members :
        ring[m].next = IF ring[m].standby \in Keys THEN ring[m].standby ELSE None

\* The key a process has read is current, or was until a switch a moment ago.
ReadsCurrent(m) ==
    /\ ring[m].current \in Keys
    /\ ~ reading[m].torn => ring[m].current = files.current
    /\ TTL > 0 =>
        \/ ring[m].current = files.current
        \/ /\ rotation.stage = "switched" /\ rotation.age = 0
           /\ ring[m].current = files.standby

\* What was signed when a process began to read is of the key it read, or of a
\* standby that stays until it has read it.
ReadsLive(m) ==
    \A k \in reading[m].live :
        /\ good[k] > 0
        /\ \/ k = ring[m].current
           \/ rotation.stage = "switched" /\ k = files.standby

ReadingOK ==
    \A m \in Members : reading[m].for # "none" => ReadsCurrent(m) /\ ReadsLive(m)

\* A component's set has the keys that sign and, when it was fetched since they
\* were published, the keys that will.
CacheOK ==
    /\ cache.live \subseteq cache.keys
    /\ ~ cache.torn =>
        /\ files.current \in cache.keys
        /\ rotation.stage = "published" =>
              files.standby \in cache.keys \/ cache.age >= rotation.age
        /\ rotation.stage = "switched" => files.standby \in cache.keys

IInv == TypeOK /\ FilesOK /\ TokensOK /\ RingOK /\ ReadingOK /\ CacheOK

USE KeysAssumption, RotationAssumption
-----------------------------------------------------------------------------
LEMMA InitHolds == Init => IInv
<1> SUFFICES ASSUME Init PROVE IInv
    OBVIOUS
<1>1. TypeOK
    BY DEF Init, TypeOK, Files, NotReading
<1>2. FilesOK /\ TokensOK /\ RingOK
    BY DEF Init, FilesOK, TokensOK, RingOK
<1>3. ReadingOK
    BY DEF Init, ReadingOK, NotReading
<1>4. CacheOK
    BY DEF Init, CacheOK
<1>5. QED
    BY <1>1, <1>2, <1>3, <1>4 DEF IInv

\* What the operator does tears the readings under way and leaves the rest.
LEMMA OperatorStep ==
    ASSUME IInv, Operator PROVE IInv'
<1> USE DEF IInv
<1> DEFINE Torn == [m \in Members |->
          IF reading[m].for = "none" THEN reading[m] ELSE [reading[m] EXCEPT !.torn = TRUE]]
<1>0. reading' = Torn /\ UNCHANGED <<ring, cache, good>>
    BY DEF Operator
<1>1. ASSUME NEW m \in Members
      PROVE  /\ reading'[m].for = reading[m].for
             /\ reading'[m].live = reading[m].live
             /\ reading'[m].for # "none" => reading'[m].torn
    BY <1>0, <1>1 DEF TypeOK
<1>2. reading' \in [Members -> [for : {"none", "jwks", "issue"}, live : SUBSET Keys,
                                torn : BOOLEAN]]
    <2> DEFINE R == [for : {"none", "jwks", "issue"}, live : SUBSET Keys, torn : BOOLEAN]
    <2>1. \A r \in R : [r EXCEPT !.torn = TRUE] \in R
        OBVIOUS
    <2>2. reading \in [Members -> R]
        BY DEF TypeOK
    <2> HIDE DEF R
    <2>3. \A m \in Members : Torn[m] \in R
        BY <2>1, <2>2
    <2>4. reading' \in [Members -> R]
        BY <1>0, <2>3
    <2>5. QED
        BY <2>4 DEF R
<1>3. RingOK'
    BY <1>0 DEF RingOK
<1>4. ASSUME NEW f \in Files, Publish(f) PROVE IInv'
    <2>1. TypeOK' /\ FilesOK' /\ TokensOK'
        BY <1>0, <1>2, <1>4 DEF Publish, TypeOK, FilesOK, TokensOK, Files
    <2>2. ASSUME NEW m \in Members, reading'[m].for # "none"
          PROVE  ReadsCurrent(m)' /\ ReadsLive(m)'
        BY <1>0, <1>1, <1>4, <2>2 DEF Publish, TypeOK, FilesOK, ReadingOK, ReadsCurrent, ReadsLive
    <2>3. CacheOK'
        BY <1>0, <1>4 DEF Publish, TypeOK, CacheOK
    <2>4. QED
        BY <1>3, <2>1, <2>2, <2>3 DEF ReadingOK
<1>5. CASE Switch
    <2>0. \A k \in Keys : good[k] \in Nat /\ good[k] <= TTL
        BY DEF TypeOK
    <2>1. /\ files' = [current |-> files.standby, standby |-> files.current]
          /\ rotation' = [stage |-> "switched", age |-> 0]
          /\ files.current \in Keys /\ files.standby \in Keys
        BY <1>5 DEF Switch, TypeOK, FilesOK
    <2>4. TypeOK' /\ FilesOK'
        BY <1>0, <1>2, <2>1 DEF TypeOK, FilesOK, Files
    <2>5. TokensOK'
        BY <1>0, <1>5, <2>0, <2>1 DEF Switch, TokensOK
    <2>2. ASSUME NEW m \in Members, reading'[m].for # "none"
          PROVE  ReadsCurrent(m)' /\ ReadsLive(m)'
        BY <1>0, <1>1, <1>5, <2>2 DEF Switch, TypeOK, FilesOK, ReadingOK, ReadsCurrent, ReadsLive
    <2>3. CacheOK'
        BY <1>0, <1>5 DEF Switch, TypeOK, CacheOK
    <2>6. QED
        BY <1>3, <2>2, <2>3, <2>4, <2>5 DEF ReadingOK
<1>6. CASE Withdraw
    <2>0. \A k \in Keys : good[k] \in Nat /\ good[k] <= TTL
        BY DEF TypeOK
    <2>1. TypeOK' /\ FilesOK'
        BY <1>0, <1>2, <1>6 DEF Withdraw, TypeOK, FilesOK, Files
    <2>2. \A k \in Keys : good[k] > 0 => k = files.current
        BY <1>6, <2>0 DEF Withdraw, TypeOK, TokensOK
    <2>3. TokensOK'
        BY <1>0, <1>6, <2>2 DEF Withdraw, TypeOK, TokensOK
    <2>4. ASSUME NEW m \in Members, reading'[m].for # "none"
          PROVE  ReadsCurrent(m)' /\ ReadsLive(m)'
        <3>1. ReadsCurrent(m) /\ ReadsLive(m)
            BY <1>1, <2>4 DEF ReadingOK
        <3>2. reading[m].live \subseteq Keys
            BY DEF TypeOK
        <3>3. ReadsCurrent(m)'
            BY <1>0, <1>1, <1>6, <2>4, <3>1 DEF Withdraw, TypeOK, ReadsCurrent
        <3>4. ASSUME NEW k \in reading[m].live
              PROVE  good[k] > 0 /\ k = ring[m].current
            BY <1>6, <2>0, <2>2, <3>1, <3>2, <3>4 DEF Withdraw, FilesOK, ReadsLive
        <3>5. QED
            BY <1>0, <1>1, <3>3, <3>4 DEF ReadsLive
    <2>5. CacheOK'
        BY <1>0, <1>6 DEF Withdraw, TypeOK, CacheOK
    <2>6. QED
        BY <1>3, <2>1, <2>3, <2>4, <2>5 DEF ReadingOK
<1>7. QED
    BY <1>4, <1>5, <1>6 DEF Operator

LEMMA ReadCurrentStep ==
    ASSUME IInv, NEW m \in Members, NEW for \in {"jwks", "issue"}, ReadCurrent(m, for)
    PROVE  IInv'
<1> USE DEF IInv, ReadCurrent
<1>1. TypeOK' /\ FilesOK' /\ TokensOK'
    <2> DEFINE R == [for : {"none", "jwks", "issue"}, live : SUBSET Keys, torn : BOOLEAN]
               G == [current : Keys \union {None}, standby : Files, next : Keys \union {None}]
    <2>1. reading \in [Members -> R] /\ ring \in [Members -> G] /\ files.current \in Keys
        BY DEF TypeOK
    <2>2. [for |-> for, live |-> Signed, torn |-> FALSE] \in R
        BY DEF Signed
    <2>3. [ring[m] EXCEPT !.current = files.current] \in G
        BY <2>1
    <2> HIDE DEF R, G
    <2>4. reading' \in [Members -> R]
        BY <2>1, <2>2
    <2>5. ring' = [ring EXCEPT ![m] = [ring[m] EXCEPT !.current = files.current]]
        OBVIOUS
    <2>6. ring' \in [Members -> G]
        BY <2>1, <2>3, <2>5
    <2>7. QED
        BY <2>4, <2>6 DEF TypeOK, FilesOK, TokensOK, R, G
<1>2. RingOK'
    BY DEF TypeOK, RingOK
<1>3. ReadsCurrent(m)' /\ ReadsLive(m)'
    BY DEF TypeOK, TokensOK, ReadsCurrent, ReadsLive, Signed
<1>4. ASSUME NEW n \in Members, n # m, reading'[n].for # "none"
      PROVE  ReadsCurrent(n)' /\ ReadsLive(n)'
    BY <1>4 DEF TypeOK, ReadingOK, ReadsCurrent, ReadsLive
<1>5. CacheOK'
    BY DEF CacheOK
<1>6. QED
    BY <1>1, <1>2, <1>3, <1>4, <1>5 DEF ReadingOK

\* The set read: the key read first and the standby's file as it is now.
LEMMA StandbyRead ==
    ASSUME IInv, NEW m \in Members, NEW for \in {"jwks", "issue"}, ReadStandby(m, for)
    PROVE  /\ ring' \in [Members -> [current : Keys \union {None}, standby : Files,
                                     next : Keys \union {None}]]
           /\ reading' \in [Members -> [for : {"none", "jwks", "issue"}, live : SUBSET Keys,
                                        torn : BOOLEAN]]
           /\ RingOK'
           /\ ring'[m].current = ring[m].current
           /\ files.standby \in Keys => files.standby \in Published(ring'[m])
           /\ ring'[m].current \in Published(ring'[m])
           /\ reading'[m].for = "none"
           /\ \A n \in Members \ {m} : ring'[n] = ring[n] /\ reading'[n] = reading[n]
<1> USE DEF IInv, ReadStandby
<1> DEFINE r == Parsed(ring[m], files.standby)
<1>1. /\ ring[m] \in [current : Keys \union {None}, standby : Files, next : Keys \union {None}]
      /\ files.standby \in Files
    BY DEF TypeOK
<1>2. /\ r \in [current : Keys \union {None}, standby : Files, next : Keys \union {None}]
      /\ r.current = ring[m].current
      /\ r.standby = files.standby
      /\ r.next = IF r.standby \in Keys THEN r.standby ELSE None
    BY <1>1 DEF Parsed, RingOK, Files
<1>3. ring' = [ring EXCEPT ![m] = r] /\ ring \in [Members -> [current : Keys \union {None}, standby : Files, next : Keys \union {None}]]
    BY DEF TypeOK
<1>4. ring'[m] = r /\ \A n \in Members \ {m} : ring'[n] = ring[n]
    BY <1>3
<1>5. ring' \in [Members -> [current : Keys \union {None}, standby : Files,
                             next : Keys \union {None}]]
    BY <1>2, <1>3
<1>6. RingOK'
    BY <1>2, <1>4 DEF RingOK
<1>7. /\ reading' \in [Members -> [for : {"none", "jwks", "issue"}, live : SUBSET Keys,
                                   torn : BOOLEAN]]
      /\ reading'[m].for = "none"
      /\ \A n \in Members \ {m} : reading'[n] = reading[n]
    BY DEF TypeOK, NotReading
<1>8. QED
    BY <1>2, <1>4, <1>5, <1>6, <1>7 DEF Published

LEMMA JwksStep ==
    ASSUME IInv, NEW m \in Members, Jwks(m) PROVE IInv'
<1> USE DEF IInv
<1>0. /\ ReadStandby(m, "jwks") /\ reading[m].for # "none"
      /\ UNCHANGED <<files, rotation, good>>
    BY DEF Jwks, ReadStandby
<1> DEFINE set == Published(ring'[m])
<1>1. /\ ring' \in [Members -> [current : Keys \union {None}, standby : Files,
                                next : Keys \union {None}]]
      /\ reading' \in [Members -> [for : {"none", "jwks", "issue"}, live : SUBSET Keys,
                                   torn : BOOLEAN]]
      /\ RingOK'
      /\ ring'[m].current = ring[m].current
      /\ files.standby \in Keys => files.standby \in set
      /\ ring[m].current \in set
      /\ reading'[m].for = "none"
      /\ \A n \in Members \ {m} : ring'[n] = ring[n] /\ reading'[n] = reading[n]
    BY <1>0, StandbyRead
<1>2. ReadsCurrent(m) /\ ReadsLive(m)
    BY <1>0 DEF ReadingOK
<1>3. cache' = [keys |-> set, live |-> reading[m].live, torn |-> reading[m].torn, age |-> 0]
    BY DEF Jwks
<1>4. set \subseteq Keys
    BY <1>1, <1>2 DEF Published, ReadsCurrent
<1>5. cache' \in [keys : SUBSET Keys, live : SUBSET Keys, torn : BOOLEAN, age : 0 .. Refresh]
    BY <1>3, <1>4 DEF TypeOK
<1>6. TypeOK' /\ FilesOK' /\ TokensOK'
    BY <1>0, <1>1, <1>5 DEF TypeOK, FilesOK, TokensOK
<1>7. ReadingOK'
    BY <1>0, <1>1 DEF ReadingOK, ReadsCurrent, ReadsLive
<1> HIDE DEF set
<1>8. CacheOK'
    <2>1. reading[m].live \subseteq set
        BY <1>1, <1>2 DEF FilesOK, ReadsLive
    <2>2. ~ reading[m].torn => files.current \in set
        BY <1>1, <1>2 DEF ReadsCurrent
    <2>3. rotation.stage \in {"published", "switched"} => files.standby \in set
        BY <1>1 DEF FilesOK
    <2>4. QED
        BY <1>0, <1>3, <2>1, <2>2, <2>3 DEF CacheOK
<1>9. QED
    BY <1>1, <1>6, <1>7, <1>8

LEMMA IssueStep ==
    ASSUME IInv, NEW m \in Members, Issue(m) PROVE IInv'
<1> USE DEF IInv
<1>0. /\ ReadStandby(m, "issue") /\ reading[m].for # "none"
      /\ UNCHANGED <<files, rotation, cache>>
    BY DEF Issue, ReadStandby
<1>1. /\ ring' \in [Members -> [current : Keys \union {None}, standby : Files,
                                next : Keys \union {None}]]
      /\ reading' \in [Members -> [for : {"none", "jwks", "issue"}, live : SUBSET Keys,
                                   torn : BOOLEAN]]
      /\ RingOK'
      /\ reading'[m].for = "none"
      /\ \A n \in Members \ {m} : ring'[n] = ring[n] /\ reading'[n] = reading[n]
    BY <1>0, StandbyRead
<1>2. ReadsCurrent(m)
    BY <1>0 DEF ReadingOK
<1>3. /\ good' = [good EXCEPT ![ring[m].current] = TTL]
      /\ good \in [Keys -> 0 .. TTL]
    BY DEF Issue, TypeOK
<1>4. /\ good' \in [Keys -> 0 .. TTL]
      /\ \A k \in Keys : good[k] > 0 => good'[k] > 0
    <2>1. \A k \in Keys : good'[k] = IF k = ring[m].current THEN TTL ELSE good[k]
        BY <1>3
    <2>2. \A k \in Keys : good[k] \in 0 .. TTL
        BY <1>3
    <2>3. TTL \in 0 .. TTL
        OBVIOUS
    <2>4. good' \in [Keys -> 0 .. TTL]
        BY <1>3, <2>3
    <2>5. QED
        BY <2>1, <2>2, <2>4
<1>5. TypeOK' /\ FilesOK'
    BY <1>0, <1>1, <1>4 DEF TypeOK, FilesOK
<1>6. TokensOK'
    <2>1. ASSUME NEW k \in Keys, good'[k] > 0
          PROVE  \/ k = files.current
                 \/ /\ rotation.stage = "switched" /\ k = files.standby
                    /\ good'[k] + rotation.age <= TTL
        <3>1. CASE k = ring[m].current
            BY <1>2, <1>3, <2>1, <3>1 DEF ReadsCurrent
        <3>2. CASE k # ring[m].current
            BY <1>3, <2>1, <3>2 DEF TokensOK
        <3>3. QED
            BY <3>1, <3>2
    <2>2. QED
        BY <1>0, <2>1 DEF TokensOK
<1>7. ReadingOK'
    <2>1. ASSUME NEW n \in Members, reading'[n].for # "none"
          PROVE  ReadsCurrent(n)' /\ ReadsLive(n)'
        <3>1. n # m /\ ring'[n] = ring[n] /\ reading'[n] = reading[n]
            BY <1>1, <2>1
        <3>2. reading[n].live \subseteq Keys
            BY DEF TypeOK
        <3>3. QED
            BY <1>0, <1>4, <2>1, <3>1, <3>2 DEF ReadingOK, ReadsCurrent, ReadsLive
    <2>2. QED
        BY <2>1 DEF ReadingOK
<1>8. CacheOK'
    BY <1>0 DEF CacheOK
<1>9. QED
    BY <1>1, <1>5, <1>6, <1>7, <1>8

LEMMA TickStep ==
    ASSUME IInv, Tick PROVE IInv'
<1> USE DEF IInv
<1>1. UNCHANGED <<files, ring, reading>> /\ \A m \in Members : reading[m].for = "none"
    BY DEF Tick
<1>2. /\ rotation' \in [stage : {"rest", "broken", "published", "switched"}, age : Nat]
      /\ rotation'.stage = rotation.stage
      /\ rotation'.age <= rotation.age + 1
    BY DEF Tick, TypeOK
<1>3. /\ good' \in [Keys -> 0 .. TTL]
      /\ \A k \in Keys : good'[k] > 0 => good[k] > 0 /\ good'[k] = good[k] - 1
    BY DEF Tick, TypeOK, Less
<1>4. /\ cache' \in [keys : SUBSET Keys, live : SUBSET Keys, torn : BOOLEAN, age : 0 .. Refresh]
      /\ cache'.keys = cache.keys /\ cache'.torn = cache.torn /\ cache'.age = cache.age + 1
      /\ cache'.live \subseteq cache.live
    <2> DEFINE kept == {k \in cache.live : good[k] > 1}
    <2>1. /\ cache \in [keys : SUBSET Keys, live : SUBSET Keys, torn : BOOLEAN, age : 0 .. Refresh]
          /\ cache.age < Refresh
          /\ cache' = [cache EXCEPT !.age = cache.age + 1, !.live = kept]
        BY DEF Tick, TypeOK
    <2>2. kept \subseteq cache.live /\ cache.live \subseteq Keys
        BY <2>1
    <2> HIDE DEF kept
    <2>3. cache.age + 1 \in 0 .. Refresh
        BY <2>1
    <2>4. QED
        BY <2>1, <2>2, <2>3
<1>5. TypeOK' /\ FilesOK' /\ RingOK' /\ ReadingOK'
    BY <1>1, <1>2, <1>3, <1>4 DEF TypeOK, FilesOK, RingOK, ReadingOK
<1>6. TokensOK'
    BY <1>1, <1>2, <1>3 DEF TypeOK, TokensOK
<1>7. CacheOK'
    BY <1>1, <1>2, <1>4 DEF TypeOK, CacheOK
<1>8. QED
    BY <1>5, <1>6, <1>7

LEMMA NextHolds == IInv /\ [Next]_vars => IInv'
<1> SUFFICES ASSUME IInv, [Next]_vars PROVE IInv'
    OBVIOUS
<1>1. CASE Next
    BY <1>1, OperatorStep, ReadCurrentStep, JwksStep, IssueStep, TickStep DEF Next
<1>2. CASE UNCHANGED vars
    BY <1>2 DEF vars, IInv, TypeOK, FilesOK, TokensOK, RingOK, ReadingOK, ReadsCurrent,
                ReadsLive, CacheOK
<1>3. QED
    BY <1>1, <1>2

LEMMA KnownFromInv == IInv => SignedIsKnown
<1> SUFFICES ASSUME IInv, NEW k \in Keys, good[k] > 0, ~ cache.torn PROVE k \in cache.keys
    BY DEF SignedIsKnown, Signed
<1>1. QED
    BY DEF IInv, TokensOK, CacheOK

LEMMA CoveredFromInv == IInv => FetchedCoversSigned
BY DEF IInv, CacheOK, FetchedCoversSigned
-----------------------------------------------------------------------------
\* The types hold for any processes, keys and waits: a key no file held is never
\* read or published, and no token is good for longer than TTL.
THEOREM KeyTypesCorrect == Spec => []TypeOK
<1>1. IInv => TypeOK
    BY DEF IInv
<1>2. QED
    BY InitHolds, NextHolds, <1>1, PTL DEF Spec

\* A component that fetches the set before a published key's wait is over verifies
\* every token that is good, whatever TTL is, when the wait is longer than it goes
\* by one set (KeyRing.Keys, Jwks, Issue).
THEOREM SignedAlwaysKnown == Spec => []SignedIsKnown
BY InitHolds, NextHolds, KnownFromInv, PTL DEF Spec

\* A set has the keys of the tokens signed before it was asked for, even when the
\* files were switched between its two reads.
THEOREM FetchedAlwaysCovers == Spec => []FetchedCoversSigned
BY InitHolds, NextHolds, CoveredFromInv, PTL DEF Spec
=============================================================================
