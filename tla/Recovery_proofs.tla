--------------------------- MODULE Recovery_proofs ---------------------------
(***************************************************************************)
(* The type invariant of Recovery, NeverMoreOpen and Restored, for any     *)
(* number of evidence records and any bound.                               *)
(***************************************************************************)
EXTENDS Recovery, AccountRow_proofs, SequenceTheorems

-----------------------------------------------------------------------------
(* Types.                                                                  *)

LEMMA Constants ==
    /\ NewRow \in Row /\ RecordOf(NewRow) \in StatusRecord
    /\ Active \in Change /\ NoHands \in [Writers -> Hand] /\ NoBackup \in Backup
    /\ NothingSince \in Since /\ NoBackup.position = 0
<1>1. NewRow \in Row /\ RecordOf(NewRow) \in StatusRecord
  BY NewRowType, RecordType
<1>2. Active \in Change
  BY DEF Active, Change, Kinds, Statuses, Marks
<1> QED BY <1>1, <1>2 DEF NoHands, Hand, NoBackup, Backup, NothingSince, Since

LEMMA WriteType ==
    ASSUME NEW r \in Row, Write(r)
    PROVE  row' \in Row /\ record' \in StatusRecord /\ row' = r
  BY RecordType DEF Write

\* The records of the state, taken apart.
LEMMA Parts ==
    ASSUME TypeOK
    PROVE  /\ row \in Row /\ user \in User /\ Len(log) \in Nat
           /\ \A w \in Writers : /\ hand[w].change \in Change
                                 /\ hand[w].pc \in {"new", "sealed", "over"}
           /\ backup.row \in Row /\ backup.record \in StatusRecord
           /\ backup.bound \in BOOLEAN /\ backup.position \in Nat
           /\ \A c \in Change : /\ c.kind \in Kinds /\ c.status \in Statuses
                                /\ c.mark \in Marks
  BY DEF TypeOK, Hand, Backup, Change

\* A conclusion keeps the types of the hands and of the log.
LEMMA ConcludeType ==
    ASSUME TypeOK, NEW w \in Writers, NEW c \in Change,
           NEW ph \in {"effective", "general", "cancelled"}, Conclude(w, ph, c)
    PROVE  /\ hand' \in [Writers -> Hand] /\ log' \in Seq(Entry)
           /\ Len(log') = Len(log) + 1
           /\ log'[Len(log) + 1] = [id |-> w, phase |-> ph, change |-> c]
           /\ \A k \in 1 .. Len(log) : log'[k] = log[k]
           /\ hand'[w].pc = "over" /\ hand'[w].change = hand[w].change
           /\ \A v \in Writers \ {w} : hand'[v] = hand[v]
<1> DEFINE e == [id |-> w, phase |-> ph, change |-> c]
<1>1. e \in Entry
  BY DEF Entry
<1>2. log \in Seq(Entry) /\ log' = Append(log, e)
  BY DEF TypeOK, Conclude
<1> DEFINE h == [pc |-> "over", seen |-> 0, change |-> hand[w].change]
<1>3. hand' = [hand EXCEPT ![w] = h]
  BY DEF Conclude
<1>4. h \in Hand /\ h.pc = "over" /\ h.change = hand[w].change
  BY Parts DEF Hand
<1>5. /\ hand' \in [Writers -> Hand]
      /\ hand'[w].pc = "over" /\ hand'[w].change = hand[w].change
      /\ \A v \in Writers \ {w} : hand'[v] = hand[v]
  <2> HIDE DEF h
  <2> QED BY <1>3, <1>4 DEF TypeOK
<1>6. /\ log' \in Seq(Entry) /\ Len(log') = Len(log) + 1 /\ log'[Len(log) + 1] = e
      /\ \A k \in 1 .. Len(log) : log'[k] = log[k]
  <2> HIDE DEF e
  <2> QED BY <1>1, <1>2
<1> QED BY <1>5, <1>6

\* A status that is set, with the confirmation it was allowed on.
LEMMA ConfirmedRow ==
    ASSUME NEW r \in Row, NEW s \in Statuses, NEW m \in Marks,
           NEW e \in Writers \union {None}, Confirmed(r, s, m, e)
    PROVE  \E k \in Confirmations \union {None} :
              /\ row' = Changed(WithStatus(r, s, m), k, e)
              /\ row' \in Row /\ record' = RecordOf(row') /\ record' \in StatusRecord
              /\ row'.status = s /\ row'.mark = m
<1>1. PICK k \in Confirmations \union {None} : Write(Changed(WithStatus(r, s, m), k, e))
  BY DEF Confirmed
<1> DEFINE w == WithStatus(r, s, m)
<1>2. w \in Row /\ w.status = s /\ w.mark = m
  BY WithStatusRow
<1>3. Changed(w, k, e) \in Row /\ Changed(w, k, e).status = s /\ Changed(w, k, e).mark = m
  <2> HIDE DEF w
  <2> QED BY <1>2, ChangedRow
<1> HIDE DEF w
<1>4. Write(Changed(w, k, e))
  BY <1>1 DEF w
<1>5. row' = Changed(w, k, e) /\ record' = RecordOf(row')
  BY <1>4 DEF Write
<1> QED BY <1>3, <1>5, RecordType DEF w

\* What a record makes of a row.
LEMMA ReplayedRowFacts ==
    ASSUME NEW r \in Row, NEW id \in Writers, NEW c \in Change
    PROVE  /\ ReplayedRow(r, id, c) \in Row
           /\ c.kind = "logout" => ReplayedRow(r, id, c).status = r.status
           /\ c.kind # "logout" => ReplayedRow(r, id, c).status = c.status
<1>1. c.status \in Statuses /\ c.mark \in Marks
  BY DEF Change
<1> DEFINE w == WithStatus(r, c.status, c.mark)
<1>2. w \in Row /\ w.status = c.status
  BY <1>1, WithStatusRow
<1>3. /\ Changed(r, None, None) \in Row /\ Changed(r, None, None).status = r.status
      /\ Changed(w, None, id) \in Row /\ Changed(w, None, id).status = w.status
  <2> HIDE DEF w
  <2> QED BY <1>2, ChangedRow
<1> HIDE DEF w
<1> QED BY <1>2, <1>3 DEF ReplayedRow, w

LEMMA ApplyFacts ==
    ASSUME TypeOK, NEW id \in Writers, NEW c \in Change, Apply(id, c)
    PROVE  /\ row' \in Row /\ record' \in StatusRecord /\ fresh' \in BOOLEAN
           /\ bound /\ c.kind = "logout" => row'.status = row.status
           /\ bound /\ c.kind # "logout" => row'.status = c.status
<1> DEFINE r == ReplayedRow(row, id, c)
<1>1. /\ r \in Row /\ row \in Row /\ record \in StatusRecord
      /\ c.kind = "logout" => r.status = row.status
      /\ c.kind # "logout" => r.status = c.status
  BY ReplayedRowFacts DEF TypeOK
<1>2. /\ (bound /\ Write(r)) \/ (UNCHANGED <<row, record>> /\ (bound => r = row))
      /\ fresh' \in BOOLEAN
  BY DEF Apply, TypeOK
<1> HIDE DEF r
<1> QED BY <1>1, <1>2, WriteType

\* The changes made before the disaster write a row, and at most one record.
LEMMA RecordingTypes ==
    ASSUME TypeOK, NEW w \in Writers, Recording(w)
    PROVE  TypeOK'
<1>0. /\ row \in Row /\ record \in StatusRecord /\ user \in User /\ bound \in BOOLEAN
      /\ row.status \in Statuses /\ hand[w].change \in Change
      /\ hand[w].change.status \in Statuses /\ hand[w].change.mark \in Marks
      /\ w \in Writers \union {None}
  BY Parts DEF TypeOK, Row
<1>1. ASSUME row' \in Row, record' \in StatusRecord, NEW c \in Change,
             NEW ph \in {"effective", "general", "cancelled"}, Conclude(w, ph, c),
             since' \in Since, UNCHANGED <<phase, bound, user, backup, recovering>>
      PROVE  TypeOK'
  <2>1. /\ hand' \in [Writers -> Hand] /\ log' \in Seq(Entry) /\ Len(log') = Len(log) + 1
        /\ Len(log) \in Nat /\ backup.position \in Nat
    BY <1>1, ConcludeType, Parts
  <2> QED BY <1>1, <2>1 DEF TypeOK, recovering
<1>2. since \in Since
  BY DEF TypeOK
<1>3. CASE Intend(w)
  <2>1. PICK c \in Change, n \in {row.version, 0} :
          hand' = [hand EXCEPT ![w] = [pc |-> "sealed", seen |-> n, change |-> c]]
    BY <1>3 DEF Intend
  <2>2. n \in Nat
    BY <1>0 DEF Row
  <2>3. hand' \in [Writers -> Hand]
    <3>1. [pc |-> "sealed", seen |-> n, change |-> c] \in Hand
      BY <2>2 DEF Hand
    <3> QED BY <2>1, <3>1 DEF TypeOK
  <2> QED BY <1>3, <2>3 DEF Intend, TypeOK, recovering
<1>4. CASE SetStatus(w)
  <2> DEFINE c == hand[w].change
             s == [since EXCEPT !.remarked = @ \/ row.status = c.status]
  <2>1. s \in Since
    BY <1>2 DEF Since
  <2>2. /\ Confirmed(row, c.status, c.mark, w) /\ Conclude(w, "effective", c) /\ since' = s
        /\ UNCHANGED <<phase, bound, user, backup, recovering>>
    BY <1>4 DEF SetStatus
  <2> HIDE DEF s
  <2>3. row' \in Row /\ record' \in StatusRecord
    BY <1>0, <2>2, ConfirmedRow
  <2> QED BY <1>0, <1>1, <2>1, <2>2, <2>3
<1>5. CASE TakeConsole(w)
  <2>1. ComparedRow(row, user, FALSE, w) \in Row
    BY <1>0, ComparedRowFacts
  <2> QED BY <1>0, <1>1, <1>2, <1>5, <2>1, WriteType DEF TakeConsole
<1>6. CASE ForceLogout(w)
  <2>1. Changed(row, None, None) \in Row
    BY <1>0, ChangedRow
  <2> QED BY <1>0, <1>1, <1>2, <1>6, <2>1, WriteType DEF ForceLogout
<1>7. CASE Cancel(w)
  BY <1>0, <1>1, <1>2, <1>7 DEF Cancel
<1>8. CASE Enable(w)
  <2>1. /\ Confirmed(row, "active", "none", w) /\ Conclude(w, "general", Active)
        /\ UNCHANGED <<phase, bound, user, backup, since, recovering>>
    BY <1>8 DEF Enable
  <2>2. "active" \in Statuses /\ "none" \in Marks
    BY DEF Statuses, Marks
  <2>3. row' \in Row /\ record' \in StatusRecord
    BY <1>0, <2>1, <2>2, ConfirmedRow
  <2> QED BY <1>0, <1>1, <1>2, <2>1, <2>3, Constants
<1>9. CASE Rollback(w)
  <2>1. [Active EXCEPT !.status = row.status] \in Change
    BY <1>0, Constants DEF Change
  <2>2. ComparedRow(row, user, FALSE, None) \in Row
    BY <1>0, ComparedRowFacts
  <2> QED BY <1>0, <1>1, <1>2, <1>9, <2>1, <2>2 DEF Rollback
<1> QED BY <1>3, <1>4, <1>5, <1>6, <1>7, <1>8, <1>9 DEF Recording

LEMMA UnrecordedRow ==
    ASSUME TypeOK, Unrecorded
    PROVE  /\ row' \in Row /\ record' \in StatusRecord /\ since' \in Since
           /\ since'.silent
           /\ ~since'.unsealed => ~since.unsealed /\ row'.status = row.status
<1>1. PICK c \in Change :
        /\ Wanted(c)
        /\ \/ c.kind = "adapter" /\ Confirmed(row, c.status, c.mark, None)
           \/ c.kind = "console" /\ Write(ComparedRow(row, user, FALSE, None))
           \/ c.kind = "logout" /\ Write(Changed(row, None, None))
        /\ since' = [since EXCEPT !.silent = TRUE, !.unsealed = @ \/ c.kind # "logout"]
  BY DEF Unrecorded
<1>2. row \in Row /\ user \in User /\ c.status \in Statuses /\ c.mark \in Marks
  BY <1>1, Parts
<1>3. /\ since' \in Since /\ since'.silent
      /\ ~since'.unsealed => ~since.unsealed /\ c.kind = "logout"
  <2>1. since \in Since
    BY DEF TypeOK
  <2> QED BY <1>1, <2>1 DEF Since
<1>4. CASE c.kind = "adapter" /\ Confirmed(row, c.status, c.mark, None)
  BY <1>2, <1>3, <1>4, ConfirmedRow
<1>5. CASE c.kind = "console" /\ Write(ComparedRow(row, user, FALSE, None))
  <2>1. ComparedRow(row, user, FALSE, None) \in Row
    BY <1>2, ComparedRowFacts
  <2> QED BY <1>3, <1>5, <2>1, WriteType
<1>6. CASE c.kind = "logout" /\ Write(Changed(row, None, None))
  <2>1. Changed(row, None, None) \in Row /\ Changed(row, None, None).status = row.status
    BY <1>2, ChangedRow
  <2> QED BY <1>3, <1>6, <2>1, WriteType
<1> QED BY <1>1, <1>4, <1>5, <1>6

\* What a restore starts the replay with.
LEMMA RestoreFacts ==
    ASSUME TypeOK, NEW n \in 0 .. Len(log), Restore(n)
    PROVE  /\ rest' \in Seq(Entry) /\ Len(rest') = n - backup.position
           /\ \A k \in 1 .. n - backup.position : rest'[k] = log[k + backup.position]
           /\ todo' = Open(n) /\ todo' \subseteq Intents
           /\ n \in Nat /\ n >= backup.position /\ backup.position \in Nat
<1>1. /\ log \in Seq(Entry) /\ backup.position \in Nat /\ n \in Nat
      /\ n >= backup.position /\ n <= Len(log) /\ Len(log) \in Nat
  BY Parts DEF TypeOK, Restore
<1>2. rest' = SubSeq(log, backup.position + 1, n) /\ todo' = Open(n)
  BY DEF Restore
<1> DEFINE p == backup.position + 1
<1>3. p \in Int /\ n \in Int /\ \A i \in p .. n : log[i] \in Entry
  BY <1>1
<1>4. /\ SubSeq(log, p, n) \in Seq(Entry)
      /\ Len(SubSeq(log, p, n)) = IF p <= n THEN n - p + 1 ELSE 0
      /\ \A i \in 1 .. n - p + 1 : SubSeq(log, p, n)[i] = log[p + i - 1]
  <2> HIDE DEF p
  <2> QED BY <1>3, SubSeqProperties
<1>5. todo' \subseteq Intents
  BY <1>2, Parts DEF Open, Intents
<1>6. Len(rest') = n - backup.position
  BY <1>1, <1>2, <1>4
<1>7. ASSUME NEW k \in 1 .. n - backup.position
      PROVE  rest'[k] = log[k + backup.position]
  <2>1. k \in 1 .. n - p + 1 /\ p + k - 1 = k + backup.position
    BY <1>1
  <2> QED BY <1>2, <1>4, <2>1
<1> QED BY <1>1, <1>2, <1>4, <1>5, <1>6, <1>7

LEMMA RestoreTypes ==
    ASSUME TypeOK, NEW n \in 0 .. Len(log), Restore(n)
    PROVE  TypeOK'
<1>1. /\ phase' = "replaying" /\ bound' = backup.bound /\ row' = backup.row
      /\ record' = backup.record /\ user' = user
      /\ hand' = NoHands /\ log' = <<>> /\ backup' = NoBackup /\ since' = NothingSince
      /\ fresh' \in BOOLEAN
  BY DEF Restore
<1>2. lost' \in Lost
  BY Parts DEF Restore, Lost, TypeOK, Since
<1>3. refused' \in [now : BOOLEAN, compared : BOOLEAN]
  BY Parts DEF Restore, User
<1>4. <<>> \in Seq(Entry) /\ Len(<<>>) = 0
  OBVIOUS
<1> QED BY <1>1, <1>2, <1>3, <1>4, RestoreFacts, Constants, Parts DEF TypeOK

\* A record is replayed from the front of what is left.
LEMMA ReplayFacts ==
    ASSUME TypeOK, Replay
    PROVE  LET e == rest[1]
           IN  /\ e \in Entry /\ e.id \in Writers /\ e.change \in Change
               /\ rest' \in Seq(Entry) /\ Len(rest) \in Nat /\ Len(rest) > 0
               /\ Len(rest') = Len(rest) - 1
               /\ \A k \in 1 .. Len(rest') : rest'[k] = rest[k + 1]
               /\ IF e.phase = "cancelled" THEN UNCHANGED <<row, record, fresh>>
                  ELSE Apply(e.id, e.change)
               /\ row' \in Row /\ record' \in StatusRecord /\ fresh' \in BOOLEAN
<1>1. /\ rest \in Seq(Entry) /\ rest # <<>> /\ rest' = Tail(rest) /\ Head(rest) = rest[1]
      /\ IF Head(rest).phase = "cancelled" THEN UNCHANGED <<row, record, fresh>>
         ELSE Apply(Head(rest).id, Head(rest).change)
  BY DEF Replay, TypeOK
<1>2. /\ Tail(rest) \in Seq(Entry) /\ Len(Tail(rest)) = Len(rest) - 1
      /\ Len(rest) \in Nat /\ Len(rest) > 0
      /\ \A k \in 1 .. Len(Tail(rest)) : Tail(rest)[k] = rest[k + 1]
  BY <1>1, HeadTailProperties
<1>3. rest[1] \in Entry
  BY <1>1, <1>2
<1>4. rest[1].id \in Writers /\ rest[1].change \in Change
  BY <1>3 DEF Entry
<1>5. row' \in Row /\ record' \in StatusRecord /\ fresh' \in BOOLEAN
  <2>1. CASE Head(rest).phase = "cancelled"
    BY <1>1, <2>1 DEF TypeOK
  <2>2. CASE Head(rest).phase # "cancelled"
    BY <1>1, <1>4, <2>2, ApplyFacts
  <2> QED BY <2>1, <2>2
<1> QED BY <1>1, <1>2, <1>3, <1>4, <1>5

LEMMA IntentFacts ==
    ASSUME TypeOK, ReplayIntent
    PROVE  \E i \in todo : /\ i.id \in Writers /\ i.change \in Change
                           /\ Apply(i.id, i.change) /\ todo' = todo \ {i}
                           /\ row' \in Row /\ record' \in StatusRecord /\ fresh' \in BOOLEAN
<1>1. PICK i \in todo : Apply(i.id, i.change) /\ todo' = todo \ {i}
  BY DEF ReplayIntent
<1>2. i.id \in Writers /\ i.change \in Change
  BY DEF TypeOK, Intents
<1> QED BY <1>1, <1>2, ApplyFacts

LEMMA TypeStep ==
    ASSUME TypeOK, [Next]_vars
    PROVE  TypeOK'
<1>0. /\ row \in Row /\ record \in StatusRecord /\ user \in User
      /\ None \in Writers \union {None} /\ None \in Confirmations \union {None}
      /\ fresh \in BOOLEAN
  BY DEF TypeOK
<1>1. ASSUME NEW w \in Writers, Recording(w) PROVE TypeOK'
  BY <1>1, RecordingTypes
<1>2. CASE Bind
  <2>1. row' \in Row /\ record' \in StatusRecord
    BY <1>2, WriteType, Constants DEF Bind
  <2> QED BY <1>2, <2>1 DEF Bind, TypeOK, recovering
<1>3. CASE Unrecorded
  BY <1>3, UnrecordedRow DEF Unrecorded, TypeOK, recovering
<1>4. CASE ChangeCredential
  <2>1. Changed(row, None, None) \in Row
    BY <1>0, ChangedRow
  <2>2. row' \in Row /\ record' \in StatusRecord
    BY <1>4, <2>1, WriteType DEF ChangeCredential
  <2>3. since' \in Since
    BY <1>4 DEF ChangeCredential, TypeOK, Since
  <2> QED BY <1>4, <2>2, <2>3 DEF ChangeCredential, TypeOK, recovering
<1>5. CASE CasdoorChanges
  <2>1. user' \in User
    BY <1>0, <1>5 DEF CasdoorChanges, User
  <2>2. refused' \in [now : BOOLEAN, compared : BOOLEAN]
    <3>1. refused.now \in BOOLEAN /\ refused.compared \in BOOLEAN /\ user'.forbidden \in BOOLEAN
      BY <2>1 DEF TypeOK, User
    <3> QED BY <1>5, <3>1 DEF CasdoorChanges
  <2> QED BY <1>5, <2>1, <2>2 DEF CasdoorChanges, TypeOK
<1>6. CASE TakeBackup
  <2>1. backup' \in Backup /\ backup'.position = Len(log) /\ Len(log) \in Nat
    BY <1>6, Parts DEF TakeBackup, Backup, TypeOK
  <2> QED BY <1>6, <2>1, Constants DEF TakeBackup, TypeOK, recovering
<1>7. ASSUME NEW n \in 0 .. Len(log), Restore(n) PROVE TypeOK'
  BY <1>7, RestoreTypes
<1>8. CASE Replay
  BY <1>8, ReplayFacts DEF Replay, TypeOK
<1>9. CASE ReplayIntent
  BY <1>9, IntentFacts DEF ReplayIntent, TypeOK
<1>10. CASE Reopen
  BY <1>10 DEF Reopen, TypeOK, recovering
<1>11. CASE CompareAgain
  <2> DEFINE r == ComparedRow(row, user, fresh, None)
  <2>1. r \in Row
    BY <1>0, ComparedRowFacts
  <2>2. row' = r /\ record' = IF r.version = row.version THEN record ELSE RecordOf(r)
    BY <1>11 DEF CompareAgain
  <2>3. row' \in Row /\ record' \in StatusRecord
    <3> HIDE DEF r
    <3> QED BY <1>0, <2>1, <2>2, RecordType
  <2>4. refused' \in [now : BOOLEAN, compared : BOOLEAN]
    BY <1>11 DEF CompareAgain, TypeOK
  <2> QED BY <1>11, <2>3, <2>4 DEF CompareAgain, TypeOK
<1>12. CASE Later
  BY <1>12 DEF Later, TypeOK
<1>13. CASE UNCHANGED vars
  BY <1>13 DEF vars, TypeOK
<1>14. CASE Next
  BY <1>1, <1>2, <1>3, <1>4, <1>5, <1>6, <1>7, <1>8, <1>9, <1>10, <1>11, <1>12, <1>14 DEF Next
<1> QED BY <1>13, <1>14

LEMMA TypeInit == Init => TypeOK
<1> SUFFICES ASSUME Init PROVE TypeOK
  OBVIOUS
<1>1. user \in User /\ lost \in Lost /\ refused \in [now : BOOLEAN, compared : BOOLEAN]
  BY Constants, NoFactorsAssumption DEF Init, User, Lost
<1>2. <<>> \in Seq(Entry) /\ Len(<<>>) = 0
  OBVIOUS
<1>3. log \in Seq(Entry) /\ rest \in Seq(Entry) /\ backup.position <= Len(log)
  BY <1>2, Constants DEF Init
<1>4. row \in Row /\ record \in StatusRecord /\ hand \in [Writers -> Hand] /\ backup \in Backup
      /\ since \in Since
  BY Constants DEF Init
<1>5. /\ phase \in {"running", "replaying", "open"} /\ bound \in BOOLEAN
      /\ todo \subseteq Intents /\ fresh \in BOOLEAN
  BY DEF Init
<1> QED BY <1>1, <1>3, <1>4, <1>5 DEF TypeOK

\* Every variable stays in its type, for any number of records (Recovery).
THEOREM RecoveryTypes == Spec => []TypeOK
  BY TypeInit, TypeStep, PTL DEF Spec

-----------------------------------------------------------------------------
(* The status record that went out last is the row's.                      *)

\* In the database and in its backup.
RecordIsRow == record = RecordOf(row) /\ backup.record = RecordOf(backup.row)

\* Every transaction publishes the row it leaves.
LEMMA RecordIsRowStep ==
    ASSUME TypeOK, RecordIsRow, [Next]_vars
    PROVE  RecordIsRow'
<1>0. /\ row \in Row /\ user \in User /\ record = RecordOf(row) /\ fresh \in BOOLEAN
      /\ backup.record = RecordOf(backup.row)
      /\ None \in Writers \union {None} /\ "active" \in Statuses /\ "none" \in Marks
  BY Parts DEF TypeOK, RecordIsRow, Statuses, Marks
<1>1. ASSUME NEW r, Write(r), UNCHANGED backup PROVE RecordIsRow'
  BY <1>0, <1>1 DEF Write, RecordIsRow
<1>2. ASSUME UNCHANGED <<row, record, backup>> PROVE RecordIsRow'
  BY <1>0, <1>2 DEF RecordIsRow
<1>3. ASSUME NEW t, NEW m, NEW e, Confirmed(row, t, m, e), UNCHANGED backup PROVE RecordIsRow'
  BY <1>1, <1>3 DEF Confirmed
<1>4. ASSUME NEW w \in Writers, Recording(w) PROVE RecordIsRow'
  <2>1. CASE Intend(w) \/ Cancel(w)
    BY <1>2, <2>1 DEF Intend, Cancel
  <2>2. CASE SetStatus(w)
    BY <1>3, <2>2 DEF SetStatus
  <2>3. CASE TakeConsole(w)
    BY <1>1, <2>3 DEF TakeConsole
  <2>4. CASE ForceLogout(w)
    BY <1>1, <2>4 DEF ForceLogout
  <2>5. CASE Enable(w)
    BY <1>3, <2>5 DEF Enable
  <2>6. CASE Rollback(w)
    <3>1. CompareReason(row, user, FALSE) = "none"
      BY <2>6, ReasonType DEF Rollback
    <3>2. RecordOf(ComparedRow(row, user, FALSE, None)) = RecordOf(row)
      BY <1>0, <3>1, ComparedRowFacts
    <3> QED BY <1>0, <2>6, <3>2 DEF Rollback, RecordIsRow
  <2> QED BY <1>4, <2>1, <2>2, <2>3, <2>4, <2>5, <2>6 DEF Recording
<1>5. CASE Bind
  BY <1>1, <1>5 DEF Bind
<1>6. CASE Unrecorded
  BY <1>1, <1>3, <1>6 DEF Unrecorded
<1>7. CASE ChangeCredential
  BY <1>1, <1>7 DEF ChangeCredential
<1>8. CASE CasdoorChanges \/ Reopen \/ Later
  BY <1>2, <1>8 DEF CasdoorChanges, Reopen, Later
<1>9. CASE TakeBackup
  BY <1>0, <1>9 DEF TakeBackup, RecordIsRow
<1>10. CASE \E n \in 0 .. Len(log) : Restore(n)
  BY <1>0, <1>10 DEF Restore, RecordIsRow, NoBackup
<1>11. CASE Replay
  BY <1>1, <1>2, <1>11 DEF Replay, Apply
<1>12. CASE ReplayIntent
  BY <1>1, <1>2, <1>12 DEF ReplayIntent, Apply
<1>13. CASE CompareAgain
  <2> DEFINE r == ComparedRow(row, user, fresh, None)
  <2>1. /\ row' = r /\ record' = (IF r.version = row.version THEN record ELSE RecordOf(r))
        /\ UNCHANGED backup
    BY <1>13 DEF CompareAgain
  <2>2. r.version = row.version => RecordOf(r) = RecordOf(row)
    <3>1. CompareReason(row, user, fresh) # "none" => r.version = row.version + 1
      BY <1>0, ComparedRowFacts
    <3>2. CompareReason(row, user, fresh) = "none" => RecordOf(r) = RecordOf(row)
      BY <1>0, ComparedRowFacts
    <3>3. row.version + 1 # row.version
      <4>1. row.version \in Nat
        BY <1>0 DEF Row
      <4> QED BY <4>1
    <3> HIDE DEF r
    <3> QED BY <3>1, <3>2, <3>3
  <2> HIDE DEF r
  <2> QED BY <1>0, <2>1, <2>2 DEF RecordIsRow
<1>14. CASE UNCHANGED vars
  BY <1>2, <1>14 DEF vars
<1> QED BY <1>4, <1>5, <1>6, <1>7, <1>8, <1>9, <1>10, <1>11, <1>12, <1>13, <1>14 DEF Next

LEMMA RecordIsRowInit == Init => RecordIsRow
  BY DEF Init, RecordIsRow, NoBackup

-----------------------------------------------------------------------------
(* Never more open.                                                        *)

\* A change that leaves the account not active, and one that makes it active.
Tight(c) == c.kind # "logout" /\ c.status # "active"
Shuts(e) == e.phase # "cancelled" /\ Tight(e.change)
Opens(e) == e.phase # "cancelled" /\ e.change.kind # "logout" /\ e.change.status = "active"

\* What a handler asks for tightens, unless it is a general record's.
HandShape ==
    \A w \in Writers :
       /\ hand[w].pc = "new" => hand[w].change.kind = "general"
       /\ hand[w].pc = "sealed" => hand[w].change.kind # "general"
       /\ hand[w].change.kind # "general" =>
             hand[w].change.kind = "logout" \/ Tight(hand[w].change)

\* A conclusion is its handler's only one, and says what its intent said.
LogShape ==
    /\ \A k \in 1 .. Len(log) :
          /\ hand[log[k].id].pc = "over"
          /\ log[k].phase = "effective" =>
                /\ log[k].change = hand[log[k].id].change
                /\ log[k].change.kind # "general"
    /\ \A j, k \in 1 .. Len(log) : log[j].id = log[k].id => j = k

NoneOpensAfter(k) == \A i \in 1 .. Len(log) : i > k => ~Opens(log[i])

\* An account that is not active was so in the backup, or a conclusion since
\* says so; none after it made the account active.
Grounds ==
    /\ backup.bound => bound
    /\ bound /\ backup.bound /\ ~since.unsealed /\ row.status # "active" =>
          \/ backup.row.status # "active" /\ NoneOpensAfter(backup.position)
          \/ \E k \in 1 .. Len(log) : /\ k > backup.position /\ NoneOpensAfter(k)
                                      /\ log[k].phase = "effective" /\ Shuts(log[k])

Running == phase = "running" => HandShape /\ LogShape /\ Grounds

Restores == lost.recorded /\ lost.record.status # "active"
NoneLeftAfter(k) == \A i \in 1 .. Len(rest) : i > k => ~Opens(rest[i])

\* What will shut the account is still to come, or came and nothing opens it.
Replaying ==
    phase = "replaying" =>
       /\ \A i \in todo : i.change.kind = "logout" \/ Tight(i.change)
       /\ lost.recorded => bound
       /\ Restores => \/ row.status # "active" /\ NoneLeftAfter(0)
                      \/ \E k \in 1 .. Len(rest) : Shuts(rest[k]) /\ NoneLeftAfter(k)
                      \/ \E i \in todo : Tight(i.change)

Opened ==
    /\ phase = "open" => (lost.recorded => bound) /\ (Restores => row.status # "active")
    /\ refused.now => user.forbidden
    /\ refused.compared => phase = "open" /\ refused.now /\ bound /\ row.status # "active"

Invariant == Running /\ Replaying /\ Opened

\* The conclusion of a hand that has none yet is at the end of the log.
LEMMA ConcludeShape ==
    ASSUME TypeOK, HandShape, LogShape, NEW w \in Writers, hand[w].pc # "over",
           NEW c \in Change, NEW ph \in {"effective", "general", "cancelled"},
           Conclude(w, ph, c),
           ph = "effective" => c = hand[w].change /\ c.kind # "general"
    PROVE  HandShape' /\ LogShape'
<1> DEFINE e == [id |-> w, phase |-> ph, change |-> c]
<1>1. /\ log' \in Seq(Entry) /\ Len(log') = Len(log) + 1 /\ Len(log) \in Nat
      /\ log'[Len(log) + 1] = e
      /\ \A k \in 1 .. Len(log) : log'[k] = log[k]
      /\ hand'[w].pc = "over" /\ hand'[w].change = hand[w].change
      /\ \A v \in Writers \ {w} : hand'[v] = hand[v]
  BY ConcludeType, Parts
<1>2. HandShape'
  BY <1>1 DEF HandShape, Tight
<1>3. \A k \in 1 .. Len(log) : log[k].id \in Writers /\ log[k].id # w
  <2>1. \A k \in 1 .. Len(log) : log[k] \in Entry
    BY DEF TypeOK
  <2> QED BY <2>1 DEF LogShape, Entry
<1>4. e.id = w /\ e.phase = ph /\ e.change = c
  OBVIOUS
<1> HIDE DEF e
<1>5. ASSUME NEW k \in 1 .. Len(log')
      PROVE  /\ hand'[log'[k].id].pc = "over"
             /\ log'[k].phase = "effective" =>
                   /\ log'[k].change = hand'[log'[k].id].change
                   /\ log'[k].change.kind # "general"
  <2>1. CASE k = Len(log) + 1
    BY <1>1, <1>4, <2>1
  <2>2. CASE k \in 1 .. Len(log)
    BY <1>1, <1>3, <2>2 DEF LogShape
  <2> QED BY <1>1, <2>1, <2>2
<1>6. \A j, k \in 1 .. Len(log') : log'[j].id = log'[k].id => j = k
  BY <1>1, <1>3, <1>4 DEF LogShape
<1> QED BY <1>2, <1>5, <1>6 DEF LogShape

\* A recorded change keeps the grounds: it leaves the status and does not open,
\* it is a new ground itself, or it leaves the account active.
LEMMA ConcludeGrounds ==
    ASSUME TypeOK, Grounds, NEW w \in Writers, NEW c \in Change,
           NEW ph \in {"effective", "general", "cancelled"}, Conclude(w, ph, c),
           UNCHANGED <<bound, backup>>, ~since'.unsealed => ~since.unsealed,
           \/ row'.status = row.status /\ (ph = "cancelled" \/ c.kind = "logout" \/ c.status # "active")
           \/ ph = "effective" /\ Tight(c)
           \/ row'.status = "active"
    PROVE  Grounds'
<1> DEFINE e == [id |-> w, phase |-> ph, change |-> c]
<1>p. backup.position \in Nat /\ backup.position <= Len(log) /\ Len(log) \in Nat
  BY Parts DEF TypeOK
<1>c. /\ Len(log') = Len(log) + 1 /\ log'[Len(log) + 1] = e
      /\ \A k \in 1 .. Len(log) : log'[k] = log[k]
  BY ConcludeType
<1>n. PICK n \in Nat : n = Len(log) + 1
  BY <1>p
<1>1. /\ Len(log') = n /\ Len(log) = n - 1 /\ Len(log) \in Nat /\ log'[n] = e
      /\ \A k \in 1 .. Len(log) : log'[k] = log[k]
      /\ backup.position \in Nat /\ backup.position <= Len(log)
  BY <1>p, <1>c, <1>n
<1>2. e.phase = ph /\ e.change = c
  OBVIOUS
<1> HIDE DEF e
<1>3. SUFFICES ASSUME bound, backup.bound, ~since'.unsealed, row'.status # "active"
      PROVE  \/ backup.row.status # "active" /\ NoneOpensAfter(backup.position)'
             \/ \E k \in 1 .. Len(log') : /\ k > backup.position /\ NoneOpensAfter(k)'
                                          /\ log'[k].phase = "effective" /\ Shuts(log'[k])
  BY DEF Grounds
<1>4. CASE ph = "effective" /\ Tight(c)
  <2>1. n \in 1 .. Len(log') /\ n > backup.position
    BY <1>1
  <2>2. NoneOpensAfter(n)'
    BY <1>1 DEF NoneOpensAfter
  <2>3. log'[n].phase = "effective" /\ Shuts(log'[n])
    BY <1>1, <1>2, <1>4 DEF Shuts
  <2> QED BY <2>1, <2>2, <2>3
<1>5. CASE row'.status = row.status /\ (ph = "cancelled" \/ c.kind = "logout" \/ c.status # "active")
  <2>1. ~Opens(log'[n])
    BY <1>1, <1>2, <1>5 DEF Opens
  <2>2. \A k \in Nat : NoneOpensAfter(k) => NoneOpensAfter(k)'
    <3> SUFFICES ASSUME NEW k \in Nat, NoneOpensAfter(k), NEW i \in 1 .. Len(log'), i > k
                 PROVE  ~Opens(log'[i])
      BY DEF NoneOpensAfter
    <3>1. CASE i = n
      BY <2>1, <3>1
    <3>2. CASE i \in 1 .. Len(log)
      BY <1>1, <3>2 DEF NoneOpensAfter, Opens
    <3> QED BY <1>1, <3>1, <3>2
  <2>3. \/ backup.row.status # "active" /\ NoneOpensAfter(backup.position)
        \/ \E k \in 1 .. Len(log) : /\ k > backup.position /\ NoneOpensAfter(k)
                                    /\ log[k].phase = "effective" /\ Shuts(log[k])
    BY <1>3, <1>5 DEF Grounds
  <2>4. CASE backup.row.status # "active" /\ NoneOpensAfter(backup.position)
    BY <1>1, <2>2, <2>4
  <2>5. ASSUME NEW k \in 1 .. Len(log), k > backup.position, NoneOpensAfter(k),
               log[k].phase = "effective", Shuts(log[k])
        PROVE  /\ k \in 1 .. Len(log') /\ NoneOpensAfter(k)'
               /\ log'[k].phase = "effective" /\ Shuts(log'[k])
    BY <1>1, <2>2, <2>5 DEF Shuts
  <2> QED BY <2>3, <2>4, <2>5
<1> QED BY <1>3, <1>4, <1>5

\* What is recorded before the disaster keeps what holds before it.
LEMMA RecordingRunning ==
    ASSUME TypeOK, Running, NEW w \in Writers, Recording(w)
    PROVE  Running'
<1>0. /\ phase = "running" /\ HandShape /\ LogShape /\ Grounds /\ phase' = phase
      /\ row \in Row /\ user \in User /\ hand[w].change \in Change
      /\ w \in Writers \union {None}
      /\ hand[w].change.status \in Statuses /\ hand[w].change.mark \in Marks
  BY Parts DEF Recording, Intend, SetStatus, TakeConsole, ForceLogout, Cancel, Enable,
               Rollback, Working, Running
<1>1. ASSUME hand[w].pc # "over", NEW c \in Change,
             NEW ph \in {"effective", "general", "cancelled"}, Conclude(w, ph, c),
             ph = "effective" => c = hand[w].change /\ c.kind # "general",
             UNCHANGED <<bound, backup>>, ~since'.unsealed => ~since.unsealed,
             \/ row'.status = row.status /\ (ph = "cancelled" \/ c.kind = "logout" \/ c.status # "active")
             \/ ph = "effective" /\ Tight(c)
             \/ row'.status = "active"
      PROVE  Running'
  BY <1>0, <1>1, ConcludeShape, ConcludeGrounds DEF Running
<1>2. hand[w].pc = "sealed" =>
         /\ hand[w].pc # "over" /\ hand[w].change.kind # "general"
         /\ hand[w].change.kind = "logout" \/ Tight(hand[w].change)
  BY <1>0 DEF HandShape
<1>3. CASE Intend(w)
  <2>1. PICK c \in Change, n \in {row.version, 0} :
          /\ Wanted(c)
          /\ hand' = [hand EXCEPT ![w] = [pc |-> "sealed", seen |-> n, change |-> c]]
    BY <1>3 DEF Intend
  <2>2. c.kind # "general" /\ (c.kind = "logout" \/ Tight(c))
    BY <2>1, Parts DEF Wanted, Tight, Kinds
  <2>3. /\ hand'[w].pc = "sealed" /\ hand'[w].change = c /\ hand[w].pc = "new"
        /\ \A v \in Writers \ {w} : hand'[v] = hand[v]
    BY <1>3, <2>1 DEF Intend, TypeOK
  <2>4. HandShape'
    BY <1>0, <2>2, <2>3 DEF HandShape, Tight
  <2>5. \A k \in 1 .. Len(log) : log[k].id \in Writers \ {w}
    <3>1. \A k \in 1 .. Len(log) : log[k] \in Entry
      BY DEF TypeOK
    <3> QED BY <1>0, <2>3, <3>1 DEF LogShape, Entry
  <2>6. UNCHANGED <<log, bound, backup, since, row>>
    BY <1>3 DEF Intend
  <2>7. LogShape'
    BY <1>0, <2>3, <2>5, <2>6 DEF LogShape
  <2>8. Grounds'
    BY <1>0, <2>6 DEF Grounds, NoneOpensAfter
  <2> QED BY <2>4, <2>7, <2>8 DEF Running
<1>4. CASE SetStatus(w)
  <2>1. /\ Conclude(w, "effective", hand[w].change) /\ UNCHANGED <<bound, backup>>
        /\ hand[w].pc = "sealed" /\ hand[w].change.kind = "adapter"
        /\ since' = [since EXCEPT !.remarked = @ \/ row.status = hand[w].change.status]
    BY <1>4 DEF SetStatus
  <2>2. since'.unsealed = since.unsealed
    BY <2>1 DEF TypeOK, Since
  <2> QED BY <1>0, <1>1, <1>2, <2>1, <2>2
<1>5. CASE TakeConsole(w)
  <2>1. /\ Conclude(w, "effective", hand[w].change) /\ UNCHANGED <<bound, backup, since>>
        /\ hand[w].pc = "sealed" /\ hand[w].change.kind = "console"
    BY <1>5 DEF TakeConsole
  <2> QED BY <1>0, <1>1, <1>2, <2>1
<1>6. CASE ForceLogout(w)
  <2>1. /\ Conclude(w, "effective", hand[w].change) /\ UNCHANGED <<bound, backup, since>>
        /\ hand[w].pc = "sealed" /\ hand[w].change.kind = "logout"
        /\ row' = Changed(row, None, None)
    BY <1>6 DEF ForceLogout, Write
  <2>2. row'.status = row.status
    <3>1. row \in Row
      BY <1>0
    <3> QED BY <2>1, <3>1, ChangedRow
  <2> QED BY <1>0, <1>1, <1>2, <2>1, <2>2
<1>7. CASE Cancel(w)
  <2>1. /\ Conclude(w, "cancelled", hand[w].change) /\ UNCHANGED <<bound, backup, since, row>>
        /\ hand[w].pc = "sealed"
    BY <1>7 DEF Cancel
  <2> QED BY <1>0, <1>1, <1>2, <2>1
<1>8. CASE Enable(w)
  <2>1. /\ Conclude(w, "general", Active) /\ UNCHANGED <<bound, backup, since>>
        /\ hand[w].pc = "new" /\ Confirmed(row, "active", "none", w)
    BY <1>8 DEF Enable
  <2>2. row'.status = "active"
    BY <1>0, <2>1, ConfirmedRow DEF Statuses, Marks
  <2> QED BY <1>0, <1>1, <2>1, <2>2, Constants
<1>9. CASE Rollback(w)
  <2> DEFINE c == [Active EXCEPT !.status = row.status]
  <2>1. /\ Conclude(w, "general", c) /\ UNCHANGED <<bound, backup, since>>
        /\ hand[w].pc = "new" /\ row' = ComparedRow(row, user, FALSE, None)
        /\ row.status # "active" /\ SeesRollback(row, user, FALSE)
    BY <1>9 DEF Rollback, SeesRollback
  <2>2. c \in Change /\ c.status = row.status
    BY <1>0, Constants DEF Change, Row
  <2>3. row'.status = row.status
    <3>1. CompareReason(row, user, FALSE) = "none"
      BY <2>1, ReasonType
    <3>2. row \in Row /\ user \in User /\ None \in Writers \union {None}
      BY <1>0
    <3>3. ComparedRow(row, user, FALSE, None).status = row.status
      BY <3>1, <3>2, ComparedRowFacts
    <3> QED BY <2>1, <3>3
  <2> HIDE DEF c
  <2> QED BY <1>0, <1>1, <2>1, <2>2, <2>3
<1> QED BY <1>3, <1>4, <1>5, <1>6, <1>7, <1>8, <1>9 DEF Recording

LEMMA RunningStep ==
    ASSUME TypeOK, Running, Next
    PROVE  Running'
<1>1. ASSUME NEW w \in Writers, Recording(w) PROVE Running'
  BY <1>1, RecordingRunning
<1>2. CASE Bind
  <2>1. phase' = phase /\ UNCHANGED <<hand, log, backup, since>> /\ ~bound
    BY <1>2 DEF Bind
  <2> QED BY <2>1 DEF Running, HandShape, LogShape, Grounds
<1>3. CASE Unrecorded
  <2>1. /\ UNCHANGED <<phase, bound, hand, log, backup>>
        /\ ~since'.unsealed => ~since.unsealed /\ row'.status = row.status
    BY <1>3, UnrecordedRow DEF Unrecorded
  <2> QED BY <2>1 DEF Running, HandShape, LogShape, Grounds, NoneOpensAfter
<1>4. CASE ChangeCredential
  <2>1. /\ UNCHANGED <<phase, bound, hand, log, backup>> /\ row' = Changed(row, None, None)
        /\ since' = [since EXCEPT !.silent = TRUE]
    BY <1>4 DEF ChangeCredential, Write
  <2>2. since'.unsealed = since.unsealed
    BY <2>1 DEF TypeOK, Since
  <2>3. row \in Row
    BY DEF TypeOK
  <2>4. row'.status = row.status
    BY <2>1, <2>3, ChangedRow
  <2> QED BY <2>1, <2>2, <2>4 DEF Running, HandShape, LogShape, Grounds, NoneOpensAfter
<1>5. CASE CasdoorChanges
  BY <1>5 DEF CasdoorChanges, Running, HandShape, LogShape, Grounds, NoneOpensAfter
<1>6. CASE TakeBackup
  <2>1. /\ UNCHANGED <<phase, bound, row, hand, log>>
        /\ backup' = [bound |-> bound, row |-> row, record |-> record, position |-> Len(log)]
    BY <1>6 DEF TakeBackup
  <2>2. Len(log) \in Nat
    BY Parts
  <2>3. Grounds'
    BY <2>1, <2>2 DEF Grounds, NoneOpensAfter
  <2> QED BY <2>1, <2>3 DEF Running, HandShape, LogShape
<1>7. CASE phase' # "running"
  BY <1>7 DEF Running
<1>8. CASE \E n \in 0 .. Len(log) : Restore(n)
  BY <1>7, <1>8 DEF Restore
<1>9. CASE Replay \/ ReplayIntent \/ Reopen \/ Later \/ CompareAgain
  BY <1>7, <1>9 DEF Replay, ReplayIntent, Reopen, Replayed, Later, CompareAgain
<1> QED BY <1>1, <1>2, <1>3, <1>4, <1>5, <1>6, <1>8, <1>9 DEF Next

\* The replay starts with the grounds: in the restored row, among the
\* conclusions, or among the intents when the conclusion was lost.
LEMMA RestoreReplaying ==
    ASSUME TypeOK, RecordIsRow, Running, NEW n \in 0 .. Len(log), Restore(n)
    PROVE  Replaying'
<1>1. /\ HandShape /\ LogShape /\ Grounds /\ phase = "running"
      /\ bound' = backup.bound /\ row' = backup.row
      /\ lost'.record.status = row.status
      /\ lost'.recorded = (backup.bound /\ ~since.unsealed)
  BY DEF Restore, Running, RecordIsRow, RecordOf
<1>2. /\ Len(rest') = n - backup.position
      /\ \A k \in 1 .. n - backup.position : rest'[k] = log[k + backup.position]
      /\ todo' = Open(n)
      /\ n \in Nat /\ n >= backup.position /\ backup.position \in Nat /\ Len(log) \in Nat
      /\ n <= Len(log)
  BY RestoreFacts, Parts
<1>3. \A i \in Open(n) : i.change.kind = "logout" \/ Tight(i.change)
  BY <1>1 DEF Open, HandShape
<1>4. ASSUME Restores'
      PROVE  \/ row'.status # "active" /\ NoneLeftAfter(0)'
             \/ \E k \in 1 .. Len(rest') : Shuts(rest'[k]) /\ NoneLeftAfter(k)'
             \/ \E i \in todo' : Tight(i.change)
  <2>1. \/ backup.row.status # "active" /\ NoneOpensAfter(backup.position)
        \/ \E k \in 1 .. Len(log) : /\ k > backup.position /\ NoneOpensAfter(k)
                                    /\ log[k].phase = "effective" /\ Shuts(log[k])
    BY <1>1, <1>4 DEF Restores, Grounds
  <2>2. ASSUME NEW j \in Nat, NoneOpensAfter(j + backup.position)
        PROVE  NoneLeftAfter(j)'
    <3> SUFFICES ASSUME NEW i \in 1 .. Len(rest'), i > j
                 PROVE  ~Opens(rest'[i])
      BY DEF NoneLeftAfter
    <3>1. /\ i + backup.position \in 1 .. Len(log) /\ i + backup.position > j + backup.position
          /\ rest'[i] = log[i + backup.position]
      BY <1>2
    <3> QED BY <2>2, <3>1 DEF NoneOpensAfter
  <2>3. CASE backup.row.status # "active" /\ NoneOpensAfter(backup.position)
    <3>1. 0 + backup.position = backup.position
      BY <1>2
    <3>2. NoneLeftAfter(0)'
      BY <2>2, <2>3, <3>1
    <3> QED BY <1>1, <2>3, <3>2
  <2>4. ASSUME NEW k \in 1 .. Len(log), k > backup.position, NoneOpensAfter(k),
               log[k].phase = "effective", Shuts(log[k]), k <= n
        PROVE  \E j \in 1 .. Len(rest') : Shuts(rest'[j]) /\ NoneLeftAfter(j)'
    <3>1. PICK j \in Nat : j = k - backup.position
      BY <1>2, <2>4
    <3>2. j \in 1 .. Len(rest') /\ rest'[j] = log[k] /\ j + backup.position = k
      <4>1. n \in Nat /\ backup.position \in Nat /\ k \in Nat /\ k > backup.position /\ k <= n
        BY <1>2, <2>4
      <4>2. j + backup.position = k /\ j \in 1 .. n - backup.position
        BY <3>1, <4>1
      <4>3. Len(rest') = n - backup.position
        BY <1>2
      <4>4. rest'[j] = log[j + backup.position]
        BY <1>2, <4>2
      <4> QED BY <4>2, <4>3, <4>4
    <3>3. NoneLeftAfter(j)'
      BY <2>2, <2>4, <3>2
    <3> QED BY <2>4, <3>2, <3>3 DEF Shuts
  <2>5. ASSUME NEW k \in 1 .. Len(log), log[k].phase = "effective", Shuts(log[k]), k > n
        PROVE  \E i \in todo' : Tight(i.change)
    <3>1. PICK w \in Writers : w = log[k].id
      <4>1. log[k] \in Entry
        BY DEF TypeOK
      <4> QED BY <4>1 DEF Entry
    <3>2. /\ hand[w].pc = "over" /\ hand[w].change = log[k].change
          /\ hand[w].change.kind # "general"
          /\ \A j \in 1 .. n : log[j].id # w
      BY <1>1, <1>2, <2>5, <3>1 DEF LogShape
    <3>3. [id |-> w, change |-> hand[w].change] \in Open(n)
      BY <3>2 DEF Open
    <3> QED BY <1>2, <2>5, <3>2, <3>3 DEF Shuts
  <2>6. ASSUME NEW k \in 1 .. Len(log), k > backup.position, NoneOpensAfter(k),
               log[k].phase = "effective", Shuts(log[k])
        PROVE  \/ \E j \in 1 .. Len(rest') : Shuts(rest'[j]) /\ NoneLeftAfter(j)'
               \/ \E i \in todo' : Tight(i.change)
    <3>1. k <= n \/ k > n
      BY <1>2
    <3> QED BY <2>4, <2>5, <2>6, <3>1
  <2> QED BY <2>1, <2>3, <2>6
<1> QED BY <1>1, <1>2, <1>3, <1>4 DEF Replaying

LEMMA ReplayReplaying ==
    ASSUME TypeOK, Replaying, Replay
    PROVE  Replaying'
<1>1. /\ phase = "replaying" /\ UNCHANGED <<phase, bound, todo, lost>>
  BY DEF Replay
<1>2. SUFFICES ASSUME Restores, bound
      PROVE  \/ row'.status # "active" /\ NoneLeftAfter(0)'
             \/ \E k \in 1 .. Len(rest') : Shuts(rest'[k]) /\ NoneLeftAfter(k)'
             \/ \E i \in todo : Tight(i.change)
  BY <1>1 DEF Replaying, Restores
<1>3. PICK e : e = rest[1]
  OBVIOUS
<1>4. /\ e \in Entry /\ e.id \in Writers /\ e.change \in Change
      /\ Len(rest) \in Nat /\ Len(rest) > 0 /\ Len(rest') = Len(rest) - 1
      /\ \A k \in 1 .. Len(rest') : rest'[k] = rest[k + 1]
      /\ IF e.phase = "cancelled" THEN UNCHANGED <<row, record, fresh>>
         ELSE Apply(e.id, e.change)
  BY <1>3, ReplayFacts
<1>5. /\ e.phase = "cancelled" \/ e.change.kind = "logout" => row'.status = row.status
      /\ e.phase # "cancelled" /\ e.change.kind # "logout" => row'.status = e.change.status
  BY <1>2, <1>4, ApplyFacts
<1>6. ASSUME NEW j \in Nat, NoneLeftAfter(j + 1) \/ (j = 0 /\ NoneLeftAfter(0))
      PROVE  NoneLeftAfter(j)'
  BY <1>4, <1>6 DEF NoneLeftAfter, Opens
<1>7. CASE row.status # "active" /\ NoneLeftAfter(0)
  <2>1. ~Opens(e)
    BY <1>3, <1>4, <1>7 DEF NoneLeftAfter, Opens
  <2>2. row'.status # "active"
    BY <1>5, <1>7, <2>1 DEF Opens
  <2> QED BY <1>6, <1>7, <2>2
<1>8. ASSUME NEW k \in 1 .. Len(rest), Shuts(rest[k]), NoneLeftAfter(k), k = 1
      PROVE  row'.status # "active" /\ NoneLeftAfter(0)'
  BY <1>3, <1>5, <1>6, <1>8 DEF Shuts, Tight
<1>9. ASSUME NEW k \in 1 .. Len(rest), Shuts(rest[k]), NoneLeftAfter(k), k # 1
      PROVE  \E j \in 1 .. Len(rest') : Shuts(rest'[j]) /\ NoneLeftAfter(j)'
  <2>1. PICK j \in Nat : j + 1 = k
    BY <1>4, <1>9
  <2>2. j \in 1 .. Len(rest') /\ rest'[j] = rest[k] /\ NoneLeftAfter(j)'
    BY <1>4, <1>6, <1>9, <2>1
  <2> QED BY <1>9, <2>2 DEF Shuts
<1> QED BY <1>1, <1>2, <1>7, <1>8, <1>9 DEF Replaying

LEMMA IntentReplaying ==
    ASSUME TypeOK, Replaying, ReplayIntent
    PROVE  Replaying'
<1>1. /\ phase = "replaying" /\ rest = <<>> /\ UNCHANGED <<phase, bound, rest, lost>>
  BY DEF ReplayIntent
<1>2. PICK i \in todo : /\ i.id \in Writers /\ i.change \in Change
                        /\ Apply(i.id, i.change) /\ todo' = todo \ {i}
  BY IntentFacts
<1>3. \A j \in todo : j.change.kind = "logout" \/ Tight(j.change)
  BY <1>1 DEF Replaying
<1>4. SUFFICES ASSUME Restores, bound
      PROVE  \/ row'.status # "active" /\ NoneLeftAfter(0)'
             \/ \E j \in todo' : Tight(j.change)
  BY <1>1, <1>2, <1>3 DEF Replaying, Restores
<1>5. /\ i.change.kind = "logout" => row'.status = row.status
      /\ i.change.kind # "logout" => row'.status = i.change.status
  BY <1>2, <1>4, ApplyFacts
<1>6. Len(rest) = 0 /\ NoneLeftAfter(0)'
  BY <1>1 DEF NoneLeftAfter
<1>7. \/ row.status # "active"
      \/ \E j \in todo : Tight(j.change)
  BY <1>1, <1>4, <1>6 DEF Replaying
<1>8. CASE row.status # "active"
  BY <1>3, <1>5, <1>6, <1>8 DEF Tight
<1>9. ASSUME NEW j \in todo, Tight(j.change)
      PROVE  row'.status # "active" \/ j \in todo'
  BY <1>2, <1>5, <1>9 DEF Tight
<1> QED BY <1>6, <1>7, <1>8, <1>9

LEMMA ReplayingStep ==
    ASSUME TypeOK, RecordIsRow, Running, Replaying, Next
    PROVE  Replaying'
<1>1. CASE \E n \in 0 .. Len(log) : Restore(n)
  BY <1>1, RestoreReplaying
<1>2. CASE Replay
  BY <1>2, ReplayReplaying
<1>3. CASE ReplayIntent
  BY <1>3, IntentReplaying
<1>4. CASE \E w \in Writers : Recording(w)
  BY <1>4 DEF Recording, Intend, SetStatus, TakeConsole, ForceLogout, Cancel, Enable,
              Rollback, Working, Replaying
<1>5. CASE CasdoorChanges
  BY <1>5 DEF CasdoorChanges, Replaying, Restores, NoneLeftAfter
<1>6. CASE Bind \/ Unrecorded \/ ChangeCredential \/ TakeBackup \/ Reopen \/ Later \/ CompareAgain
  BY <1>6 DEF Bind, Unrecorded, ChangeCredential, TakeBackup, Reopen, Later, CompareAgain, Working,
              Replaying
<1> QED BY <1>1, <1>2, <1>3, <1>4, <1>5, <1>6 DEF Next

\* A comparison makes no account active, and one that judges the status
\* disables one Casdoor refuses.
LEMMA ComparedStatus ==
    ASSUME NEW r \in Row, NEW u \in User, NEW recent \in BOOLEAN
    PROVE  /\ r.status # "active" => ComparedRow(r, u, recent, None).status # "active"
           /\ u.forbidden /\ ~recent => ComparedRow(r, u, recent, None).status # "active"
<1> DEFINE after == ComparedRow(r, u, recent, None)
           reason == CompareReason(r, u, recent)
<1>1. /\ reason \in {"none", "disabled", "password", "second_factor"}
      /\ reason = "disabled" <=> TakesDisablement(r, u, recent)
  BY ReasonType
<1>2. /\ reason = "disabled" => after.status = "disabled"
      /\ reason # "disabled" => after.status = r.status
  <2>1. None \in Writers \union {None}
    OBVIOUS
  <2> QED BY <1>1, <2>1, ComparedRowFacts
<1> HIDE DEF after, reason
<1> QED BY <1>1, <1>2 DEF TakesDisablement, Off, after

\* What is open again stays shut: a comparison does not make a tightened
\* account active, and no one signs in whom Casdoor refuses.
LEMMA OpenedStep ==
    ASSUME TypeOK, Replaying, Opened, Next
    PROVE  Opened'
<1>0. /\ row \in Row /\ user \in User /\ user.forbidden \in BOOLEAN
      /\ refused.now \in BOOLEAN /\ refused.compared \in BOOLEAN
      /\ refused = [now |-> refused.now, compared |-> refused.compared]
  BY DEF TypeOK, User
<1>1. CASE \E w \in Writers : Recording(w)
  <2>1. phase = "running" /\ phase' = phase /\ UNCHANGED <<user, refused>>
    BY <1>1 DEF Recording, Intend, SetStatus, TakeConsole, ForceLogout, Cancel, Enable,
                Rollback, Working, recovering
  <2> QED BY <2>1 DEF Opened
<1>2. CASE Bind
  <2>1. /\ phase \in {"running", "open"} /\ ~bound /\ bound' /\ UNCHANGED <<phase, user, lost, refused>>
    BY <1>2 DEF Bind, recovering
  <2> QED BY <2>1 DEF Opened, Restores
<1>3. CASE Unrecorded \/ ChangeCredential \/ TakeBackup
  <2>1. phase = "running" /\ phase' = phase /\ UNCHANGED <<user, refused>>
    BY <1>3 DEF Unrecorded, ChangeCredential, TakeBackup, Working, recovering
  <2> QED BY <2>1 DEF Opened
<1>4. CASE CasdoorChanges
  <2>1. /\ refused' = [now |-> refused.now /\ user'.forbidden,
                       compared |-> refused.compared /\ user'.forbidden]
        /\ UNCHANGED <<phase, bound, row, lost>>
    BY <1>4 DEF CasdoorChanges
  <2>2. /\ refused'.now = (refused.now /\ user'.forbidden)
        /\ refused'.compared = (refused.compared /\ user'.forbidden)
    BY <2>1
  <2> QED BY <2>1, <2>2 DEF Opened, Restores
<1>5. CASE \E n \in 0 .. Len(log) : Restore(n)
  <2>1. /\ phase' = "replaying" /\ user' = user
        /\ refused' = [now |-> user.forbidden, compared |-> FALSE]
    BY <1>5 DEF Restore
  <2> QED BY <2>1 DEF Opened
<1>6. CASE Replay \/ ReplayIntent
  <2>1. phase = "replaying" /\ UNCHANGED <<phase, user, refused>>
    BY <1>6 DEF Replay, ReplayIntent
  <2> QED BY <2>1 DEF Opened
<1>7. CASE Reopen
  <2>1. /\ phase = "replaying" /\ rest = <<>> /\ todo = {} /\ phase' = "open"
        /\ UNCHANGED <<bound, row, user, lost, refused>>
    BY <1>7 DEF Reopen, Replayed, recovering
  <2>2. Len(rest) = 0
    BY <2>1
  <2>3. (lost.recorded => bound) /\ (Restores => row.status # "active")
    BY <2>1, <2>2 DEF Replaying
  <2> QED BY <2>1, <2>3 DEF Opened, Restores
<1>8. CASE CompareAgain
  <2>1. /\ phase = "open" /\ bound /\ row' = ComparedRow(row, user, fresh, None)
        /\ refused' = [refused EXCEPT !.compared = @ \/ (~fresh /\ refused.now)]
        /\ UNCHANGED <<phase, bound, user, lost>> /\ fresh \in BOOLEAN
    BY <1>8 DEF CompareAgain, TypeOK
  <2>2. /\ refused'.now = refused.now
        /\ refused'.compared = (refused.compared \/ (~fresh /\ refused.now))
    BY <1>0, <2>1
  <2>3. /\ row.status # "active" => row'.status # "active"
        /\ user.forbidden /\ ~fresh => row'.status # "active"
    BY <1>0, <2>1, ComparedStatus
  <2> QED BY <2>1, <2>2, <2>3 DEF Opened, Restores
<1>9. CASE Later
  BY <1>9 DEF Later, Opened, Restores
<1> QED BY <1>1, <1>2, <1>3, <1>4, <1>5, <1>6, <1>7, <1>8, <1>9 DEF Next

LEMMA InvariantInit == Init => Invariant
<1> SUFFICES ASSUME Init PROVE Invariant
  OBVIOUS
<1>1. HandShape
  BY DEF Init, NoHands, HandShape, Active
<1>2. LogShape
  <2>1. Len(log) = 0
    BY DEF Init
  <2> QED BY <2>1 DEF LogShape
<1>3. Grounds
  BY DEF Init, NewRow, NoBackup, Grounds
<1> QED BY <1>1, <1>2, <1>3 DEF Init, Invariant, Running, Replaying, Opened, Restores

LEMMA InvariantStep ==
    ASSUME TypeOK, RecordIsRow, Invariant, [Next]_vars
    PROVE  Invariant'
<1>1. CASE Next
  BY <1>1, RunningStep, ReplayingStep, OpenedStep DEF Invariant
<1>2. CASE UNCHANGED vars
  BY <1>2 DEF vars, Invariant, Running, HandShape, LogShape, Grounds, NoneOpensAfter,
              Replaying, Restores, NoneLeftAfter, Opened
<1> QED BY <1>1, <1>2

\* RecordIsRow, for any number of records.
LEMMA RecordIsRowAlways == Spec => []RecordIsRow
  BY RecordIsRowInit, RecordIsRowStep, RecoveryTypes, PTL DEF Spec

\* An account that was disabled or frozen when the database was lost is not
\* active when the member is open again: from the replay on when its tightening
\* was recorded, else from the first comparison on that judges the status of a
\* user refused ever since (ReplayStatus, Compare), for any number of records,
\* backups and lost conclusions.
THEOREM NeverMoreOpenAlways == Spec => []NeverMoreOpen
<1>1. TypeOK /\ Invariant => NeverMoreOpen
  BY DEF Invariant, Opened, Restores, NeverMoreOpen
<1> QED BY <1>1, InvariantInit, InvariantStep, RecordIsRowAlways, RecoveryTypes, PTL DEF Spec

-----------------------------------------------------------------------------
(* Restored: what the replay computes, as a chain of status records.       *)

\* A row or a status record without its confirmation, which no replay restores.
Bare(r) == [status |-> r.status, mark |-> r.mark, version |-> r.version,
            confirmation |-> None, evidence |-> r.evidence]

\* The status record a conclusion makes of one: a status record has the fields
\* of a row a replay reads and writes.
Made(p, e) == IF e.phase = "cancelled" THEN p ELSE ReplayedRow(p, e.id, e.change)

\* The conclusions es, replayed in order, make the status record b of a.
Leads(a, es, b) ==
    \E p \in [0 .. Len(es) -> StatusRecord] :
       /\ p[0] = a /\ p[Len(es)] = b
       /\ \A k \in 1 .. Len(es) : p[k] = Made(p[k - 1], es[k])

\* The conclusions the backup does not have.
SinceBackup == SubSeq(log, backup.position + 1, Len(log))

\* Two status records with the same fields are the same.
LEMMA SameRecord ==
    ASSUME NEW p \in StatusRecord, NEW q \in StatusRecord,
           p.status = q.status, p.mark = q.mark, p.version = q.version,
           p.confirmation = q.confirmation, p.evidence = q.evidence
    PROVE  p = q
  BY DEF StatusRecord

\* The transactions on a row, on its status record.
LEMMA ChangedRecord ==
    ASSUME NEW p \in StatusRecord, NEW k \in Confirmations \union {None},
           NEW e \in Writers \union {None}
    PROVE  /\ Changed(p, k, e) \in StatusRecord
           /\ Changed(p, k, e).status = p.status /\ Changed(p, k, e).mark = p.mark
           /\ Changed(p, k, e).version = p.version + 1
           /\ Changed(p, k, e).confirmation = k /\ Changed(p, k, e).evidence = e
<1>1. p.version + 1 \in Nat \ {0}
  BY DEF StatusRecord
<1>2. Changed(p, k, e) \in StatusRecord
  BY <1>1 DEF StatusRecord, Changed
<1> QED BY <1>2 DEF StatusRecord, Changed

LEMMA WithStatusRecord ==
    ASSUME NEW p \in StatusRecord, NEW s \in Statuses, NEW m \in Marks
    PROVE  /\ WithStatus(p, s, m) \in StatusRecord
           /\ WithStatus(p, s, m).status = s /\ WithStatus(p, s, m).mark = m
           /\ WithStatus(p, s, m).version = p.version
           /\ WithStatus(p, s, m).confirmation = p.confirmation
           /\ WithStatus(p, s, m).evidence = p.evidence
  BY DEF StatusRecord, WithStatus

\* What a conclusion makes of a status record is one.
LEMMA MadeType ==
    ASSUME NEW p \in StatusRecord, NEW e \in Entry
    PROVE  Made(p, e) \in StatusRecord
<1>1. e.id \in Writers /\ e.change.status \in Statuses /\ e.change.mark \in Marks
  BY DEF Entry, Change
<1> DEFINE w == WithStatus(p, e.change.status, e.change.mark)
<1>2. w \in StatusRecord
  BY <1>1, WithStatusRecord
<1>3. Changed(w, None, e.id) \in StatusRecord /\ Changed(p, None, None) \in StatusRecord
  <2> HIDE DEF w
  <2> QED BY <1>1, <1>2, ChangedRecord
<1> QED BY <1>3 DEF Made, ReplayedRow

LEMMA BareFields ==
    ASSUME NEW r
    PROVE  /\ Bare(r).status = r.status /\ Bare(r).mark = r.mark
           /\ Bare(r).version = r.version
           /\ Bare(r).confirmation = None /\ Bare(r).evidence = r.evidence
  BY DEF Bare

LEMMA BareOfRecord ==
    ASSUME NEW r PROVE Bare(RecordOf(r)) = Bare(r)
  BY DEF Bare, RecordOf

LEMMA BareType ==
    ASSUME NEW r \in Row PROVE Bare(r) \in StatusRecord
  BY DEF Row, Bare, StatusRecord

\* A row whose record is the same is the same without its confirmation.
LEMMA BareSame ==
    ASSUME NEW r, NEW q, RecordOf(r) = RecordOf(q) PROVE Bare(r) = Bare(q)
<1>1. Bare(RecordOf(r)) = Bare(RecordOf(q))
  OBVIOUS
<1> QED BY <1>1, BareOfRecord

\* A security change of a row is one of its status record.
LEMMA BareChanged ==
    ASSUME NEW r \in Row, NEW k \in Confirmations \union {None},
           NEW e \in Writers \union {None}
    PROVE  Bare(Changed(r, k, e)) = Changed(Bare(r), None, e)
<1> DEFINE a == Changed(r, k, e)
           b == Changed(Bare(r), None, e)
<1>1. /\ a \in Row /\ a.status = r.status /\ a.mark = r.mark /\ a.version = r.version + 1
      /\ a.evidence = e
  BY ChangedRow
<1>2. Bare(r) \in StatusRecord
  BY BareType
<1>3. /\ b \in StatusRecord /\ b.status = r.status /\ b.mark = r.mark
      /\ b.version = r.version + 1 /\ b.confirmation = None /\ b.evidence = e
  BY <1>2, ChangedRecord, BareFields
<1> HIDE DEF a, b
<1>4. Bare(a) \in StatusRecord
  BY <1>1, BareType
<1> QED BY <1>1, <1>3, <1>4, BareFields, SameRecord DEF a, b

\* So is a status that is set with one.
LEMMA BareStatusChange ==
    ASSUME NEW r \in Row, NEW s \in Statuses, NEW m \in Marks,
           NEW k \in Confirmations \union {None}, NEW e \in Writers \union {None}
    PROVE  Bare(Changed(WithStatus(r, s, m), k, e)) = Changed(WithStatus(Bare(r), s, m), None, e)
<1> DEFINE w == WithStatus(r, s, m)
           v == WithStatus(Bare(r), s, m)
<1>1. w \in Row /\ Bare(r) \in StatusRecord
  BY WithStatusRow, BareType
<1>2. Bare(w) = v
  <2>1. w.version = r.version /\ w.status = s /\ w.mark = m /\ w.evidence = r.evidence
    BY DEF WithStatus, Row
  <2>2. /\ v \in StatusRecord /\ v.status = s /\ v.mark = m /\ v.version = r.version
        /\ v.confirmation = None /\ v.evidence = r.evidence
    BY <1>1, WithStatusRecord, BareFields
  <2> HIDE DEF w, v
  <2> QED BY <1>1, <2>1, <2>2, BareType, BareFields, SameRecord
<1>3. Bare(Changed(w, k, e)) = Changed(Bare(w), None, e)
  <2> HIDE DEF w
  <2> QED BY <1>1, BareChanged
<1> QED BY <1>2, <1>3

\* What the replay makes of a row, it makes of the row's status record: it
\* neither reads nor writes the baselines, and it writes no confirmation.
LEMMA BareReplayed ==
    ASSUME NEW r \in Row, NEW i \in Writers, NEW c \in Change
    PROVE  Bare(ReplayedRow(r, i, c)) = ReplayedRow(Bare(r), i, c)
<1>1. c.status \in Statuses /\ c.mark \in Marks
  BY DEF Change
<1>2. Bare(Changed(WithStatus(r, c.status, c.mark), None, i))
        = Changed(WithStatus(Bare(r), c.status, c.mark), None, i)
  BY <1>1, BareStatusChange
<1>3. Bare(Changed(r, None, None)) = Changed(Bare(r), None, None)
  BY BareChanged
<1>4. Bare(r).status = r.status
  BY DEF Bare
<1> QED BY <1>2, <1>3, <1>4 DEF ReplayedRow

\* No conclusions: the same status record.
LEMMA LeadsNowhere ==
    ASSUME NEW a \in StatusRecord, NEW b
    PROVE  Leads(a, <<>>, b) <=> a = b
<1>1. Len(<<>>) = 0
  OBVIOUS
<1>2. ASSUME Leads(a, <<>>, b) PROVE a = b
  BY <1>1, <1>2 DEF Leads
<1>3. ASSUME a = b PROVE Leads(a, <<>>, b)
  <2> DEFINE p == [i \in 0 .. 0 |-> a]
  <2>1. /\ p \in [0 .. Len(<<>>) -> StatusRecord] /\ p[0] = a /\ p[Len(<<>>)] = b
        /\ \A k \in 1 .. Len(<<>>) : FALSE
    BY <1>1, <1>3
  <2> HIDE DEF p
  <2> QED BY <2>1 DEF Leads
<1> QED BY <1>2, <1>3

\* One more conclusion at the end.
LEMMA LeadsOn ==
    ASSUME NEW a \in StatusRecord, NEW es \in Seq(Entry), NEW e \in Entry, NEW b,
           Leads(a, es, b)
    PROVE  Leads(a, Append(es, e), Made(b, e))
<1>1. PICK n \in Nat : n = Len(es)
  OBVIOUS
<1>2. PICK p \in [0 .. n -> StatusRecord] :
        p[0] = a /\ p[n] = b /\ \A k \in 1 .. n : p[k] = Made(p[k - 1], es[k])
  BY <1>1 DEF Leads
<1>3. /\ Len(Append(es, e)) = n + 1 /\ Append(es, e)[n + 1] = e
      /\ \A k \in 1 .. n : Append(es, e)[k] = es[k]
  BY <1>1
<1> DEFINE m == Made(b, e)
           q == [i \in 0 .. n + 1 |-> IF i = n + 1 THEN m ELSE p[i]]
<1>4. m \in StatusRecord
  BY <1>2, MadeType
<1> HIDE DEF m
<1>5. /\ q \in [0 .. n + 1 -> StatusRecord] /\ q[0] = a /\ q[n + 1] = m
      /\ \A k \in 0 .. n : q[k] = p[k]
  BY <1>2, <1>4
<1> HIDE DEF q
<1>6. ASSUME NEW k \in 1 .. n + 1 PROVE q[k] = Made(q[k - 1], Append(es, e)[k])
  <2>1. CASE k = n + 1
    BY <1>2, <1>3, <1>5, <2>1 DEF m
  <2>2. CASE k \in 1 .. n
    <3>1. k - 1 \in 0 .. n /\ k \in 0 .. n
      BY <2>2
    <3> QED BY <1>2, <1>3, <1>5, <2>2, <3>1
  <2> QED BY <2>1, <2>2
<1> QED BY <1>3, <1>5, <1>6 DEF Leads, m

\* One conclusion less at the front, applied.
LEMMA LeadsAfter ==
    ASSUME NEW a \in StatusRecord, NEW es \in Seq(Entry), es # <<>>, NEW b,
           Leads(a, es, b)
    PROVE  Leads(Made(a, es[1]), Tail(es), b)
<1>0. Len(es) \in Nat \ {0}
  BY EmptySeq
<1>1. /\ Len(Tail(es)) = Len(es) - 1
      /\ \A k \in 1 .. Len(es) - 1 : Tail(es)[k] = es[k + 1]
  BY HeadTailProperties
<1>2. PICK n \in Nat : Len(es) = n + 1
  <2>1. \A l \in Nat \ {0} : l - 1 \in Nat /\ l = (l - 1) + 1
    OBVIOUS
  <2> QED BY <1>0, <2>1
<1>3. PICK p \in [0 .. n + 1 -> StatusRecord] :
        p[0] = a /\ p[n + 1] = b /\ \A k \in 1 .. n + 1 : p[k] = Made(p[k - 1], es[k])
  BY <1>2 DEF Leads
<1> DEFINE q == [i \in 0 .. n |-> p[i + 1]]
<1>4. q \in [0 .. n -> StatusRecord] /\ \A k \in 0 .. n : q[k] = p[k + 1]
  BY <1>3
<1> HIDE DEF q
<1>5. q[0] = Made(a, es[1]) /\ q[n] = b
  <2>1. p[1] = Made(p[1 - 1], es[1]) /\ 1 - 1 = 0 /\ 0 \in 0 .. n /\ n \in 0 .. n
    BY <1>3
  <2> QED BY <1>3, <1>4, <2>1
<1>6. ASSUME NEW k \in 1 .. n PROVE q[k] = Made(q[k - 1], Tail(es)[k])
  <2>1. /\ k + 1 \in 1 .. n + 1 /\ (k + 1) - 1 = k /\ k \in 0 .. n
        /\ k - 1 \in 0 .. n /\ (k - 1) + 1 = k
    OBVIOUS
  <2>2. p[k + 1] = Made(p[k], es[k + 1])
    BY <1>3, <2>1
  <2>3. Tail(es)[k] = es[k + 1]
    BY <1>1, <1>2
  <2> QED BY <1>4, <2>1, <2>2, <2>3
<1>7. Len(Tail(es)) = n
  BY <1>1, <1>2
<1> QED BY <1>4, <1>5, <1>6, <1>7 DEF Leads

-----------------------------------------------------------------------------
(* Restored: the invariant.                                                *)

Unmarked(r) == r.status = "active" => r.mark = "none"

ConsoleHands ==
    \A w \in Writers : hand[w].pc = "sealed" /\ hand[w].change.kind = "console"
                          => hand[w].change.status = "disabled" /\ hand[w].change.mark = "none"

\* Before the disaster: the conclusions since the backup lead from its row to
\* the row, unless something happened that no replay makes again.
Recorded ==
    phase = "running" =>
       /\ Unmarked(row) /\ ConsoleHands
       /\ backup.bound /\ ~since.silent /\ ~since.remarked =>
             Leads(Bare(backup.row), SinceBackup, Bare(row))

\* During the replay: what is left to replay leads to the record that was lost.
ReplayedSoFar ==
    phase = "replaying" =>
       /\ lost.complete => bound /\ todo = {}
       /\ lost.complete /\ ~lost.remarked => Leads(Bare(row), rest, Bare(lost.record))

\* A row of the version of the backup has its confirmation, and so has the
\* restored row, until the replay writes one with none.
Confirmation ==
    /\ phase = "running" /\ backup.bound =>
          /\ row.version >= backup.row.version
          /\ row.version = backup.row.version => row.confirmation = backup.row.confirmation
    /\ phase = "replaying" /\ lost.complete =>
          \/ row.confirmation = None
          \/ row.version = lost.record.version => row.confirmation = lost.record.confirmation

\* A conclusion makes one more replayed one.
LEMMA ConcludeLeads ==
    ASSUME TypeOK, NEW w \in Writers, NEW c \in Change,
           NEW ph \in {"effective", "general", "cancelled"}, Conclude(w, ph, c),
           UNCHANGED backup, Leads(Bare(backup.row), SinceBackup, Bare(row)),
           Bare(row') = Made(Bare(row), [id |-> w, phase |-> ph, change |-> c])
    PROVE  Leads(Bare(backup.row), SinceBackup, Bare(row))'
<1> DEFINE e == [id |-> w, phase |-> ph, change |-> c]
<1>1. e \in Entry /\ Bare(backup.row) \in StatusRecord
  BY Parts, BareType DEF Entry
<1>2. PICK n \in Nat : n = Len(log)
  BY Parts
<1>3. PICK b \in Nat : b = backup.position /\ b <= n
  <2>1. backup.position <= Len(log)
    BY DEF TypeOK
  <2> QED BY <1>2, <2>1, Parts
<1>p. log \in Seq(Entry)
  BY DEF TypeOK
<1>c. /\ log' \in Seq(Entry) /\ Len(log') = Len(log) + 1 /\ log'[Len(log) + 1] = e
      /\ \A k \in 1 .. Len(log) : log'[k] = log[k]
  BY ConcludeType
<1> HIDE DEF e
<1>4. /\ log \in Seq(Entry) /\ log' \in Seq(Entry) /\ Len(log') = n + 1 /\ log'[n + 1] = e
      /\ \A k \in 1 .. n : log'[k] = log[k]
  BY <1>2, <1>p, <1>c
<1>b. b \in Nat /\ n \in Nat /\ b <= n
  BY <1>3
<1>l. /\ \A i \in b + 1 .. n : log[i] \in Entry
      /\ \A i \in b + 1 .. n + 1 : log'[i] \in Entry
  <2>1. (\A i \in b + 1 .. n : i \in 1 .. n) /\ (\A i \in b + 1 .. n + 1 : i \in 1 .. n + 1)
    BY <1>b
  <2> QED BY <1>2, <1>4, <2>1, ElementOfSeq
<1>5. /\ SubSeq(log, b + 1, n) \in Seq(Entry) /\ Len(SubSeq(log, b + 1, n)) = n - b
      /\ \A i \in 1 .. n - b : SubSeq(log, b + 1, n)[i] = log[b + i]
  <2>1. /\ b + 1 \in Int /\ n \in Int
        /\ (IF b + 1 <= n THEN n - (b + 1) + 1 ELSE 0) = n - b /\ n - (b + 1) + 1 = n - b
        /\ \A i \in 1 .. n - b : (b + 1) + i - 1 = b + i
    BY <1>b
  <2> QED BY <1>l, <2>1, SubSeqProperties
<1>6. /\ SubSeq(log', b + 1, n + 1) \in Seq(Entry)
      /\ Len(SubSeq(log', b + 1, n + 1)) = n + 1 - b
      /\ \A i \in 1 .. n + 1 - b : SubSeq(log', b + 1, n + 1)[i] = log'[b + i]
  <2>1. /\ b + 1 \in Int /\ n + 1 \in Int
        /\ (IF b + 1 <= n + 1 THEN (n + 1) - (b + 1) + 1 ELSE 0) = n + 1 - b
        /\ (n + 1) - (b + 1) + 1 = n + 1 - b
        /\ \A i \in 1 .. n + 1 - b : (b + 1) + i - 1 = b + i
    BY <1>b
  <2> QED BY <1>l, <2>1, SubSeqProperties
<1> DEFINE s == SubSeq(log, b + 1, n)
           t == SubSeq(log', b + 1, n + 1)
<1>7. t = Append(s, e)
  <2> HIDE DEF s, t
  <2>1. /\ Append(s, e) \in Seq(Entry) /\ Len(Append(s, e)) = n - b + 1
        /\ \A i \in 1 .. n - b : Append(s, e)[i] = s[i]
        /\ Append(s, e)[n - b + 1] = e
    BY <1>1, <1>5, AppendProperties DEF s
  <2>2. ASSUME NEW i \in 1 .. n + 1 - b PROVE t[i] = Append(s, e)[i]
    <3>1. CASE i = n - b + 1
      <4>1. b + i = n + 1
        BY <1>b, <3>1
      <4> QED BY <1>4, <1>6, <2>1, <3>1, <4>1 DEF t
    <3>2. CASE i \in 1 .. n - b
      <4>1. b + i \in 1 .. n
        BY <1>b, <3>2
      <4> QED BY <1>4, <1>5, <1>6, <2>1, <3>2, <4>1 DEF s, t
    <3>3. i = n - b + 1 \/ i \in 1 .. n - b
      BY <1>b
    <3> QED BY <3>1, <3>2, <3>3
  <2>3. Len(t) = Len(Append(s, e)) /\ Len(t) = n + 1 - b /\ t \in Seq(Entry)
    BY <1>b, <1>6, <2>1 DEF t
  <2> QED BY <2>1, <2>2, <2>3, SeqEqual
<1>8. SinceBackup = s /\ SinceBackup' = t
  BY <1>2, <1>3, <1>4 DEF SinceBackup
<1>9. s \in Seq(Entry)
  BY <1>5
<1> HIDE DEF s, t
<1>10. Leads(Bare(backup.row), Append(s, e), Made(Bare(row), e))
  BY <1>1, <1>8, <1>9, LeadsOn
<1> QED BY <1>7, <1>8, <1>10 DEF e

\* What a recorded change does: one conclusion, which makes of the row's status
\* record the one that goes out, but for its confirmation and for a status that
\* was there already.
OneConclusion(w) ==
    \E ph \in {"effective", "general", "cancelled"}, c \in Change :
       /\ Conclude(w, ph, c)
       /\ row' \in Row /\ Unmarked(row')
       /\ UNCHANGED <<phase, bound, backup, rest, todo, lost>>
       /\ since'.silent = since.silent
       /\ ~since'.remarked =>
             /\ ~since.remarked
             /\ Bare(row') = Made(Bare(row), [id |-> w, phase |-> ph, change |-> c])

\* Every recorded change but an intent is one.
LEMMA RecordedChange ==
    ASSUME TypeOK, Running, Recorded, NEW w \in Writers, Recording(w), ~Intend(w)
    PROVE  OneConclusion(w)
<1> DEFINE E(ph, c) == [id |-> w, phase |-> ph, change |-> c]
<1>0. /\ phase = "running" /\ HandShape /\ ConsoleHands /\ Unmarked(row)
      /\ row \in Row /\ user \in User /\ hand[w].change \in Change
      /\ w \in Writers \union {None} /\ None \in Writers \union {None}
      /\ hand[w].change.status \in Statuses /\ hand[w].change.mark \in Marks
      /\ row.status \in Statuses
      /\ Bare(row) \in StatusRecord
  BY Parts, BareType DEF Recording, Intend, SetStatus, TakeConsole, ForceLogout, Cancel,
         Enable, Rollback, Working, Running, Recorded, Row
<1>1. since \in Since
  BY DEF TypeOK
<1>2. \A ph, c : E(ph, c).id = w /\ E(ph, c).phase = ph /\ E(ph, c).change = c
  OBVIOUS
<1>3. \A c : Made(Bare(row), E("cancelled", c)) = Bare(row)
  BY DEF Made
<1>4. \A c : \A ph \in {"effective", "general"} :
        Made(Bare(row), E(ph, c)) = ReplayedRow(Bare(row), w, c)
  BY DEF Made
<1>5. Bare(row).status = row.status
  BY BareFields
<1> HIDE DEF E
<1>6. ASSUME NEW ph \in {"effective", "general", "cancelled"}, NEW c \in Change,
             Conclude(w, ph, c), row' \in Row, Unmarked(row'),
             UNCHANGED <<phase, bound, backup, recovering>>,
             since'.silent = since.silent,
             ~since'.remarked => ~since.remarked /\ Bare(row') = Made(Bare(row), E(ph, c))
      PROVE  OneConclusion(w)
  BY <1>6 DEF recovering, OneConclusion, E
<1>7. CASE SetStatus(w)
  <2> DEFINE c == hand[w].change
  <2>1. /\ Confirmed(row, c.status, c.mark, w) /\ Conclude(w, "effective", c)
        /\ since' = [since EXCEPT !.remarked = @ \/ row.status = c.status]
        /\ UNCHANGED <<phase, bound, backup, recovering>>
        /\ hand[w].pc = "sealed" /\ c.kind = "adapter"
    BY <1>7 DEF SetStatus
  <2>2. PICK k \in Confirmations \union {None} :
          /\ row' = Changed(WithStatus(row, c.status, c.mark), k, w)
          /\ row' \in Row /\ row'.status = c.status
    BY <1>0, <2>1, ConfirmedRow
  <2>3. Bare(row') = Changed(WithStatus(Bare(row), c.status, c.mark), None, w)
    BY <1>0, <2>2, BareStatusChange
  <2>4. c.status # "active"
    BY <1>0, <2>1 DEF HandShape, Tight
  <2>5. since'.silent = since.silent /\ since'.remarked = (since.remarked \/ row.status = c.status)
    BY <1>1, <2>1 DEF Since
  <2>6. row.status # c.status => Bare(row') = Made(Bare(row), E("effective", c))
    BY <1>4, <1>5, <2>1, <2>3 DEF ReplayedRow
  <2>7. Unmarked(row')
    BY <2>2, <2>4 DEF Unmarked
  <2> QED BY <1>0, <1>6, <2>1, <2>2, <2>5, <2>6, <2>7
<1>8. CASE TakeConsole(w)
  <2> DEFINE c == hand[w].change
             m == WithStatus(Bare(row), c.status, c.mark)
  <2>1. /\ row' = ComparedRow(row, user, FALSE, w) /\ TakesDisablement(row, user, FALSE)
        /\ Conclude(w, "effective", c)
        /\ UNCHANGED <<phase, bound, backup, since, recovering>>
        /\ hand[w].pc = "sealed" /\ c.kind = "console"
    BY <1>8 DEF TakeConsole, Write
  <2>2. c.status = "disabled" /\ c.mark = "none"
    BY <1>0, <2>1 DEF ConsoleHands
  <2>3. CompareReason(row, user, FALSE) = "disabled"
    BY <2>1, ReasonType
  <2>4. /\ row' \in Row /\ row'.mark = row.mark /\ row'.version = row.version + 1
        /\ row.status = "active" /\ row'.status = "disabled" /\ row'.evidence = w
    BY <1>0, <2>1, <2>3, ComparedRowFacts
  <2>5. row'.mark = "none"
    BY <1>0, <2>4 DEF Unmarked
  <2>6. m \in StatusRecord /\ m.status = "disabled" /\ m.mark = "none" /\ m.version = row.version
    BY <1>0, <2>2, WithStatusRecord, BareFields
  <2>7. Bare(row') = Changed(m, None, w)
    <3> HIDE DEF m
    <3>1. Bare(row') \in StatusRecord
      BY <2>4, BareType
    <3>2. /\ Changed(m, None, w) \in StatusRecord
          /\ Changed(m, None, w).status = "disabled" /\ Changed(m, None, w).mark = "none"
          /\ Changed(m, None, w).version = row.version + 1
          /\ Changed(m, None, w).confirmation = None /\ Changed(m, None, w).evidence = w
      <4>1. None \in Confirmations \union {None} /\ w \in Writers \union {None}
        OBVIOUS
      <4> QED BY <2>6, <4>1, ChangedRecord
    <3>3. /\ Bare(row').status = "disabled" /\ Bare(row').mark = "none"
          /\ Bare(row').version = row.version + 1
          /\ Bare(row').confirmation = None /\ Bare(row').evidence = w
      BY <2>4, <2>5, BareFields
    <3> QED BY <3>1, <3>2, <3>3, SameRecord
  <2>8. Bare(row') = Made(Bare(row), E("effective", c))
    BY <1>4, <1>5, <2>1, <2>2, <2>4, <2>7 DEF ReplayedRow
  <2>9. ~since'.remarked => ~since.remarked
    BY <2>1
  <2>10. Unmarked(row') /\ since'.silent = since.silent
    BY <2>1, <2>4 DEF Unmarked
  <2> QED BY <1>0, <1>6, <2>1, <2>4, <2>8, <2>9, <2>10
<1>9. CASE ForceLogout(w)
  <2> DEFINE c == hand[w].change
  <2>1. /\ row' = Changed(row, None, None)
        /\ Conclude(w, "effective", c)
        /\ UNCHANGED <<phase, bound, backup, since, recovering>> /\ c.kind = "logout"
    BY <1>9 DEF ForceLogout, Write
  <2>2. row' \in Row /\ row'.status = row.status /\ row'.mark = row.mark
    <3>1. /\ Changed(row, None, None) \in Row
          /\ Changed(row, None, None).status = row.status
          /\ Changed(row, None, None).mark = row.mark
      BY <1>0, ChangedRow
    <3> QED BY <2>1, <3>1
  <2>3. Bare(row') = Changed(Bare(row), None, None)
    <3>1. Bare(Changed(row, None, None)) = Changed(Bare(row), None, None)
      BY <1>0, BareChanged
    <3> QED BY <2>1, <3>1
  <2>4. Bare(row') = Made(Bare(row), E("effective", c))
    BY <1>4, <2>1, <2>3 DEF ReplayedRow
  <2>5. ~since'.remarked => ~since.remarked
    BY <2>1
  <2>6. Unmarked(row') /\ since'.silent = since.silent
    BY <1>0, <2>1, <2>2 DEF Unmarked
  <2> QED BY <1>0, <1>6, <2>1, <2>2, <2>4, <2>5, <2>6
<1>10. CASE Cancel(w)
  <2>1. /\ Conclude(w, "cancelled", hand[w].change)
        /\ UNCHANGED <<phase, bound, row, backup, since, recovering>>
    BY <1>10 DEF Cancel
  <2>2. Bare(row') = Made(Bare(row), E("cancelled", hand[w].change))
    BY <1>3, <2>1
  <2>3. /\ row' \in Row /\ Unmarked(row')
        /\ since'.silent = since.silent /\ (~since'.remarked => ~since.remarked)
    BY <1>0, <2>1
  <2> QED BY <1>0, <1>6, <2>1, <2>2, <2>3
<1>11. CASE Enable(w)
  <2>1. /\ Confirmed(row, "active", "none", w) /\ Conclude(w, "general", Active)
        /\ UNCHANGED <<phase, bound, backup, since, recovering>> /\ row.status # "active"
    BY <1>11 DEF Enable
  <2>2. "active" \in Statuses /\ "none" \in Marks /\ Active \in Change
    BY Constants DEF Statuses, Marks
  <2>3. PICK k \in Confirmations \union {None} :
          /\ row' = Changed(WithStatus(row, "active", "none"), k, w)
          /\ row' \in Row /\ row'.mark = "none"
    BY <1>0, <2>1, <2>2, ConfirmedRow
  <2>4. Bare(row') = Changed(WithStatus(Bare(row), "active", "none"), None, w)
    BY <1>0, <2>2, <2>3, BareStatusChange
  <2>5. Bare(row') = Made(Bare(row), E("general", Active))
    <3>1. Active.kind = "general" /\ Active.status = "active" /\ Active.mark = "none"
      BY DEF Active
    <3> QED BY <1>4, <1>5, <2>1, <2>4, <3>1 DEF ReplayedRow
  <2>6. ~since'.remarked => ~since.remarked
    BY <2>1
  <2>7. Unmarked(row') /\ since'.silent = since.silent
    BY <2>1, <2>3 DEF Unmarked
  <2> QED BY <1>6, <2>1, <2>2, <2>3, <2>5, <2>6, <2>7
<1>12. CASE Rollback(w)
  <2> DEFINE c == [Active EXCEPT !.status = row.status]
  <2>1. /\ row' = ComparedRow(row, user, FALSE, None) /\ SeesRollback(row, user, FALSE)
        /\ Conclude(w, "general", c)
        /\ UNCHANGED <<phase, bound, backup, since, recovering>>
    BY <1>12 DEF Rollback
  <2>2. c \in Change /\ c.kind = "general" /\ c.status = row.status
    BY <1>0, Constants DEF Change, Active
  <2>3. CompareReason(row, user, FALSE) = "none"
    BY <2>1, ReasonType
  <2>4. /\ row' \in Row /\ RecordOf(row') = RecordOf(row)
        /\ row'.status = row.status /\ row'.mark = row.mark
    BY <1>0, <2>1, <2>3, ComparedRowFacts
  <2>5. ReplayedRow(Bare(row), w, c) = Bare(row)
    <3> HIDE DEF c
    <3> QED BY <1>5, <2>2 DEF ReplayedRow
  <2> HIDE DEF c
  <2>6. Bare(row') = Made(Bare(row), E("general", c))
    BY <1>4, <2>4, <2>5, BareSame
  <2>7. ~since'.remarked => ~since.remarked
    BY <2>1
  <2>8. Unmarked(row') /\ since'.silent = since.silent
    BY <1>0, <2>1, <2>4 DEF Unmarked
  <2> QED BY <1>6, <2>1, <2>2, <2>4, <2>6, <2>7, <2>8
<1>13. Recording(w) /\ ~Intend(w)
  OBVIOUS
<1> QED BY <1>7, <1>8, <1>9, <1>10, <1>11, <1>12, <1>13 DEF Recording

\* A silent change leaves an account that is active without a mark.
LEMMA UnrecordedUnmarked ==
    ASSUME TypeOK, Running, Recorded, Unrecorded
    PROVE  Unmarked(row')
<1>1. PICK c \in Change :
        /\ Wanted(c)
        /\ \/ c.kind = "adapter" /\ Confirmed(row, c.status, c.mark, None)
           \/ c.kind = "console" /\ Write(ComparedRow(row, user, FALSE, None))
           \/ c.kind = "logout" /\ Write(Changed(row, None, None))
  BY DEF Unrecorded
<1>2. /\ row \in Row /\ user \in User /\ c.status \in Statuses /\ c.mark \in Marks
      /\ None \in Writers \union {None} /\ None \in Confirmations \union {None}
  BY <1>1, Parts
<1>3. Unmarked(row)
  BY DEF Unrecorded, Working, Recorded
<1>4. CASE c.kind = "adapter" /\ Confirmed(row, c.status, c.mark, None)
  <2>1. row'.status = c.status /\ c.status # "active"
    BY <1>1, <1>2, <1>4, ConfirmedRow DEF Wanted
  <2> QED BY <2>1 DEF Unmarked
<1>5. CASE c.kind = "console" /\ Write(ComparedRow(row, user, FALSE, None))
  <2>1. row' = ComparedRow(row, user, FALSE, None)
    BY <1>5 DEF Write
  <2>2. CompareReason(row, user, FALSE) = "disabled"
    BY <1>1, <1>5, ReasonType DEF Wanted
  <2>3. row'.status = "disabled"
    BY <1>2, <2>1, <2>2, ComparedRowFacts
  <2> QED BY <2>3 DEF Unmarked
<1>6. CASE c.kind = "logout" /\ Write(Changed(row, None, None))
  <2>1. row' = Changed(row, None, None)
    BY <1>6 DEF Write
  <2> QED BY <1>2, <1>3, <2>1, ChangedRow DEF Unmarked
<1> QED BY <1>1, <1>4, <1>5, <1>6

\* An intent of a console change is of a disablement, and a hand that has
\* concluded asks for nothing more.
LEMMA ConsoleHandsStep ==
    ASSUME TypeOK, ConsoleHands, NEW w \in Writers,
           Intend(w) \/ \E c \in Change, ph \in {"effective", "general", "cancelled"} : Conclude(w, ph, c)
    PROVE  ConsoleHands'
<1>1. CASE Intend(w)
  <2>1. PICK c \in Change, n \in {row.version, 0} :
          /\ Wanted(c)
          /\ hand' = [hand EXCEPT ![w] = [pc |-> "sealed", seen |-> n, change |-> c]]
    BY <1>1 DEF Intend
  <2>2. c.kind = "console" => c.status = "disabled" /\ c.mark = "none"
    BY <2>1 DEF Wanted
  <2>3. /\ hand'[w].change = c /\ \A v \in Writers \ {w} : hand'[v] = hand[v]
    BY <2>1 DEF TypeOK
  <2> QED BY <2>2, <2>3 DEF ConsoleHands
<1>2. ASSUME NEW c \in Change, NEW ph \in {"effective", "general", "cancelled"}, Conclude(w, ph, c)
      PROVE  ConsoleHands'
  <2>1. hand'[w].pc = "over" /\ \A v \in Writers \ {w} : hand'[v] = hand[v]
    BY <1>2, ConcludeType
  <2> QED BY <2>1 DEF ConsoleHands
<1> QED BY <1>1, <1>2

LEMMA RecordedStep ==
    ASSUME TypeOK, Running, Recorded, Next
    PROVE  Recorded'
<1>1. ASSUME NEW w \in Writers, Recording(w) PROVE Recorded'
  <2>0. phase = "running" /\ Unmarked(row) /\ ConsoleHands
    BY <1>1 DEF Recording, Intend, SetStatus, TakeConsole, ForceLogout, Cancel, Enable,
                Rollback, Working, Recorded
  <2>1. CASE Intend(w)
    <3>1. UNCHANGED <<phase, row, log, backup, since>>
      BY <2>1 DEF Intend
    <3>2. SinceBackup' = SinceBackup
      BY <3>1 DEF SinceBackup
    <3>3. ConsoleHands'
      BY <2>0, <2>1, ConsoleHandsStep
    <3> QED BY <3>1, <3>2, <3>3 DEF Recorded
  <2>2. CASE ~Intend(w)
    <3>1. PICK ph \in {"effective", "general", "cancelled"}, c \in Change :
            /\ Conclude(w, ph, c) /\ Unmarked(row')
            /\ UNCHANGED <<phase, backup>> /\ since'.silent = since.silent
            /\ ~since'.remarked =>
                  /\ ~since.remarked
                  /\ Bare(row') = Made(Bare(row), [id |-> w, phase |-> ph, change |-> c])
      BY <1>1, <2>2, RecordedChange DEF OneConclusion
    <3>2. ConsoleHands'
      BY <2>0, <3>1, ConsoleHandsStep
    <3>3. ASSUME backup.bound, ~since'.silent, ~since'.remarked
          PROVE  Leads(Bare(backup.row), SinceBackup, Bare(row))'
      <4>1. Leads(Bare(backup.row), SinceBackup, Bare(row))
        BY <2>0, <3>1, <3>3 DEF Recorded
      <4> QED BY <3>1, <3>3, <4>1, ConcludeLeads
    <3> QED BY <3>1, <3>2, <3>3 DEF Recorded
  <2> QED BY <2>1, <2>2
<1>2. CASE Bind
  <2>1. UNCHANGED <<phase, hand, log, backup, since>> /\ ~bound /\ row' = NewRow
    BY <1>2 DEF Bind, Write
  <2>2. Unmarked(row')
    BY <2>1 DEF Unmarked, NewRow
  <2> QED BY <2>1, <2>2 DEF Recorded, ConsoleHands, Running, Grounds
<1>3. CASE Unrecorded
  <2>1. UNCHANGED <<phase, hand>> /\ since'.silent
    BY <1>3, UnrecordedRow DEF Unrecorded
  <2> QED BY <1>3, <2>1, UnrecordedUnmarked DEF Recorded, ConsoleHands
<1>4. CASE ChangeCredential
  <2>1. /\ UNCHANGED <<phase, hand>> /\ row' = Changed(row, None, None)
        /\ since' = [since EXCEPT !.silent = TRUE]
    BY <1>4 DEF ChangeCredential, Write
  <2>2. since'.silent
    BY <2>1 DEF TypeOK, Since
  <2>3. row \in Row
    BY DEF TypeOK
  <2>4. row'.status = row.status /\ row'.mark = row.mark
    BY <2>1, <2>3, ChangedRow
  <2> QED BY <2>1, <2>2, <2>4 DEF Recorded, ConsoleHands, Unmarked
<1>5. CASE CasdoorChanges
  <2>1. UNCHANGED <<phase, row, hand, log, backup, since>>
    BY <1>5 DEF CasdoorChanges
  <2>2. SinceBackup' = SinceBackup
    BY <2>1 DEF SinceBackup
  <2> QED BY <2>1, <2>2 DEF Recorded, ConsoleHands
<1>6. CASE TakeBackup
  <2>1. /\ UNCHANGED <<phase, row, hand, log>> /\ backup'.row = row /\ backup'.position = Len(log)
    BY <1>6 DEF TakeBackup
  <2>2. SinceBackup' = <<>>
    <3>1. Len(log) + 1 \in Int /\ Len(log) \in Int /\ Len(log) < Len(log) + 1
      BY Parts
    <3> QED BY <2>1, <3>1, SubSeqEmpty DEF SinceBackup
  <2>3. Bare(row) \in StatusRecord
    BY Parts, BareType
  <2>4. Leads(Bare(row), <<>>, Bare(row))
    BY <2>3, LeadsNowhere
  <2> QED BY <2>1, <2>2, <2>4 DEF Recorded, ConsoleHands
<1>7. CASE phase' # "running"
  BY <1>7 DEF Recorded
<1>8. CASE \E n \in 0 .. Len(log) : Restore(n)
  BY <1>7, <1>8 DEF Restore
<1>9. CASE Replay \/ ReplayIntent \/ Reopen \/ Later \/ CompareAgain
  BY <1>7, <1>9 DEF Replay, ReplayIntent, Reopen, Replayed, Later, CompareAgain
<1> QED BY <1>1, <1>2, <1>3, <1>4, <1>5, <1>6, <1>8, <1>9 DEF Next

\* What a record makes of the row, when it is applied, it makes of its status record.
LEMMA ApplyMakes ==
    ASSUME TypeOK, bound, NEW i \in Writers, NEW c \in Change, Apply(i, c)
    PROVE  Bare(row') = ReplayedRow(Bare(row), i, c)
<1> DEFINE r == ReplayedRow(row, i, c)
<1>1. row' = r
  BY DEF Apply, Write
<1>2. Bare(r) = ReplayedRow(Bare(row), i, c)
  BY Parts, BareReplayed
<1> QED BY <1>1, <1>2

LEMMA ReplayedSoFarStep ==
    ASSUME TypeOK, Running, Recorded, ReplayedSoFar, RecordIsRow, Next
    PROVE  ReplayedSoFar'
<1>1. ASSUME NEW n \in 0 .. Len(log), Restore(n) PROVE ReplayedSoFar'
  <2>1. /\ phase = "running" /\ bound' = backup.bound /\ row' = backup.row
        /\ rest' = SubSeq(log, backup.position + 1, n) /\ todo' = Open(n)
        /\ lost'.record = RecordOf(row) /\ lost'.remarked = since.remarked
        /\ lost'.complete = (backup.bound /\ ~since.silent /\ n = Len(log) /\ Open(n) = {})
    BY <1>1 DEF Restore, RecordIsRow
  <2>2. rest' = SinceBackup \/ n # Len(log)
    BY <2>1 DEF SinceBackup
  <2>3. Bare(lost'.record) = Bare(row)
    BY <2>1, BareOfRecord
  <2> QED BY <2>1, <2>2, <2>3 DEF ReplayedSoFar, Recorded
<1>2. CASE Replay
  <2>1. phase = "replaying" /\ rest # <<>> /\ rest' = Tail(rest) /\ UNCHANGED <<phase, bound, todo, lost>>
    BY <1>2 DEF Replay
  <2>2. PICK e : e = rest[1]
    OBVIOUS
  <2>3. /\ e \in Entry /\ e.id \in Writers /\ e.change \in Change
        /\ IF e.phase = "cancelled" THEN UNCHANGED <<row, record, fresh>>
           ELSE Apply(e.id, e.change)
    BY <1>2, <2>2, ReplayFacts
  <2>4. bound => Bare(row') = Made(Bare(row), e)
    BY <2>3, ApplyMakes DEF Made
  <2>5. ASSUME Leads(Bare(row), rest, Bare(lost.record))
        PROVE  Leads(Made(Bare(row), e), rest', Bare(lost.record))
    <3>1. Bare(row) \in StatusRecord /\ rest \in Seq(Entry)
      BY Parts, BareType DEF TypeOK
    <3> QED BY <2>1, <2>2, <2>5, <3>1, LeadsAfter
  <2> QED BY <2>1, <2>4, <2>5 DEF ReplayedSoFar
<1>3. CASE ReplayIntent
  BY <1>3 DEF ReplayIntent, ReplayedSoFar
<1>4. CASE \E w \in Writers : Recording(w)
  BY <1>4 DEF Recording, Intend, SetStatus, TakeConsole, ForceLogout, Cancel, Enable,
              Rollback, Working, ReplayedSoFar
<1>5. CASE CasdoorChanges
  BY <1>5 DEF CasdoorChanges, ReplayedSoFar
<1>6. CASE Bind \/ Unrecorded \/ ChangeCredential \/ TakeBackup \/ Reopen \/ Later \/ CompareAgain
  BY <1>6 DEF Bind, Unrecorded, ChangeCredential, TakeBackup, Reopen, Later, CompareAgain, Working,
              ReplayedSoFar
<1> QED BY <1>1, <1>2, <1>3, <1>4, <1>5, <1>6 DEF Next

\* Before the disaster a step of a bound account leaves its status record, or
\* takes its version up by one.
LEMMA VersionMoves ==
    ASSUME TypeOK, Next, phase = "running", phase' = "running", bound
    PROVE  RecordOf(row') = RecordOf(row) \/ row'.version = row.version + 1
<1>0. /\ row \in Row /\ user \in User /\ None \in Writers \union {None}
      /\ None \in Confirmations \union {None}
      /\ "active" \in Statuses /\ "none" \in Marks
  BY Parts DEF Statuses, Marks
<1>1. ASSUME NEW t \in Statuses, NEW m \in Marks, NEW e \in Writers \union {None},
             Confirmed(row, t, m, e)
      PROVE  row'.version = row.version + 1
  <2>1. PICK k \in Confirmations \union {None} : row' = Changed(WithStatus(row, t, m), k, e)
    BY <1>0, <1>1, ConfirmedRow
  <2> DEFINE w == WithStatus(row, t, m)
  <2>2. w \in Row /\ w.version = row.version
    BY <1>0, WithStatusRow
  <2>3. row' = Changed(w, k, e)
    BY <2>1
  <2> HIDE DEF w
  <2> QED BY <2>2, <2>3, ChangedRow
<1>2. ASSUME NEW e \in Writers \union {None}, row' = ComparedRow(row, user, FALSE, e)
      PROVE  RecordOf(row') = RecordOf(row) \/ row'.version = row.version + 1
  BY <1>0, <1>2, ComparedRowFacts
<1>3. ASSUME row' = Changed(row, None, None)
      PROVE  row'.version = row.version + 1
  BY <1>0, <1>3, ChangedRow
<1>4. ASSUME NEW w \in Writers, Recording(w)
      PROVE  RecordOf(row') = RecordOf(row) \/ row'.version = row.version + 1
  <2>0. hand[w].change.status \in Statuses /\ hand[w].change.mark \in Marks
    BY Parts
  <2>1. CASE Intend(w) \/ Cancel(w)
    BY <2>1 DEF Intend, Cancel
  <2>2. CASE SetStatus(w)
    BY <1>1, <2>0, <2>2 DEF SetStatus
  <2>3. CASE TakeConsole(w)
    BY <1>2, <2>3 DEF TakeConsole, Write
  <2>4. CASE ForceLogout(w)
    BY <1>3, <2>4 DEF ForceLogout, Write
  <2>5. CASE Enable(w)
    BY <1>0, <1>1, <2>5 DEF Enable
  <2>6. CASE Rollback(w)
    BY <1>0, <1>2, <2>6 DEF Rollback
  <2> QED BY <1>4, <2>1, <2>2, <2>3, <2>4, <2>5, <2>6 DEF Recording
<1>5. CASE Bind
  BY <1>5 DEF Bind
<1>6. CASE Unrecorded
  BY <1>0, <1>1, <1>2, <1>3, <1>6, Parts DEF Unrecorded, Write
<1>7. CASE ChangeCredential
  BY <1>3, <1>7 DEF ChangeCredential, Write
<1>8. CASE CasdoorChanges \/ TakeBackup
  BY <1>8 DEF CasdoorChanges, TakeBackup
<1>9. CASE \E n \in 0 .. Len(log) : Restore(n)
  BY <1>9 DEF Restore
<1>10. CASE Replay \/ ReplayIntent \/ Reopen \/ Later \/ CompareAgain
  BY <1>10 DEF Replay, ReplayIntent, Reopen, Replayed, Later, CompareAgain
<1> QED BY <1>4, <1>5, <1>6, <1>7, <1>8, <1>9, <1>10 DEF Next

\* What is replayed onto a row leaves it or writes it without a confirmation.
LEMMA ApplyConfirmation ==
    ASSUME TypeOK, NEW i \in Writers, NEW c \in Change, Apply(i, c)
    PROVE  row' = row \/ row'.confirmation = None
<1>1. row' = row \/ row' = ReplayedRow(row, i, c)
  BY DEF Apply, Write
<1> DEFINE w == WithStatus(row, c.status, c.mark)
<1>2. w \in Row /\ row \in Row
  BY Parts, WithStatusRow
<1>3. Changed(w, None, i).confirmation = None /\ Changed(row, None, None).confirmation = None
  <2> HIDE DEF w
  <2> QED BY <1>2, ChangedRow
<1> QED BY <1>1, <1>3 DEF ReplayedRow

LEMMA ConfirmationStep ==
    ASSUME TypeOK, TypeOK', Running, RecordIsRow, Confirmation, [Next]_vars
    PROVE  Confirmation'
<1>0. row.version \in Nat /\ row'.version \in Nat /\ backup.row.version \in Nat
  BY Parts DEF TypeOK, Row
<1>1. ASSUME phase = "running", phase' = "running", UNCHANGED backup, backup.bound, Next
      PROVE  Confirmation'
  <2>1. bound
    BY <1>1 DEF Running, Grounds
  <2>2. \/ row'.version = row.version /\ row'.confirmation = row.confirmation
        \/ row'.version = row.version + 1
    BY <1>1, <2>1, VersionMoves DEF RecordOf
  <2>3. row'.version >= row.version /\ (row'.version = row.version => row'.confirmation = row.confirmation)
    BY <1>0, <2>2
  <2>4. /\ row.version >= backup.row.version
        /\ row.version = backup.row.version => row.confirmation = backup.row.confirmation
    BY <1>1 DEF Confirmation
  <2> QED BY <1>0, <1>1, <2>3, <2>4 DEF Confirmation
<1>2. CASE \E w \in Writers : Recording(w)
  <2>1. phase = "running" /\ phase' = "running" /\ UNCHANGED backup /\ Next
    BY <1>2 DEF Recording, Intend, SetStatus, TakeConsole, ForceLogout, Cancel, Enable,
                Rollback, Working, Next
  <2> QED BY <1>1, <2>1 DEF Confirmation
<1>3. CASE Bind
  <2>1. phase \in {"running", "open"} /\ UNCHANGED <<phase, backup>> /\ Next
    BY <1>3 DEF Bind, Next
  <2> QED BY <1>1, <2>1 DEF Confirmation
<1>4. CASE Unrecorded \/ ChangeCredential
  <2>1. phase = "running" /\ phase' = "running" /\ UNCHANGED backup /\ Next
    BY <1>4 DEF Unrecorded, ChangeCredential, Working, Next
  <2> QED BY <1>1, <2>1 DEF Confirmation
<1>5. CASE CasdoorChanges
  BY <1>5 DEF CasdoorChanges, Confirmation
<1>6. CASE TakeBackup
  <2>1. phase' = "running" /\ row' = row /\ backup'.row = row
    BY <1>6 DEF TakeBackup
  <2> QED BY <1>0, <2>1 DEF Confirmation
<1>7. ASSUME NEW n \in 0 .. Len(log), Restore(n) PROVE Confirmation'
  <2>1. /\ phase = "running" /\ phase' = "replaying" /\ row' = backup.row
        /\ lost'.record = record
        /\ lost'.complete = (backup.bound /\ ~since.silent /\ n = Len(log) /\ Open(n) = {})
    BY <1>7 DEF Restore
  <2>2. lost'.record.version = row.version /\ lost'.record.confirmation = row.confirmation
    <3>1. record = RecordOf(row)
      BY DEF RecordIsRow
    <3> QED BY <2>1, <3>1 DEF RecordOf
  <2> QED BY <2>1, <2>2 DEF Confirmation
<1>8. CASE Replay
  <2>1. phase = "replaying" /\ UNCHANGED <<phase, lost>>
    BY <1>8 DEF Replay
  <2>2. row' = row \/ row'.confirmation = None
    BY <1>8, ReplayFacts, ApplyConfirmation
  <2> QED BY <2>1, <2>2 DEF Confirmation
<1>9. CASE ReplayIntent
  <2>1. phase = "replaying" /\ UNCHANGED <<phase, lost>>
    BY <1>9 DEF ReplayIntent
  <2>2. row' = row \/ row'.confirmation = None
    BY <1>9, IntentFacts, ApplyConfirmation
  <2> QED BY <2>1, <2>2 DEF Confirmation
<1>10. CASE Reopen \/ Later \/ CompareAgain
  BY <1>10 DEF Reopen, Later, CompareAgain, Confirmation
<1>11. CASE UNCHANGED vars
  BY <1>11 DEF vars, Confirmation
<1> QED BY <1>2, <1>3, <1>4, <1>5, <1>6, <1>7, <1>8, <1>9, <1>10, <1>11 DEF Next

LEMMA RestoredStep ==
    ASSUME TypeOK, TypeOK', Running, RecordIsRow, Recorded, ReplayedSoFar, Confirmation,
           [Next]_vars
    PROVE  Recorded' /\ ReplayedSoFar' /\ Confirmation'
<1>1. CASE Next
  BY <1>1, RecordedStep, ReplayedSoFarStep, ConfirmationStep
<1>2. CASE UNCHANGED vars
  <2>1. SinceBackup' = SinceBackup
    BY <1>2 DEF vars, SinceBackup
  <2>2. Recorded' /\ ReplayedSoFar'
    BY <1>2, <2>1 DEF vars, Recorded, ReplayedSoFar, ConsoleHands
  <2> QED BY <2>2, ConfirmationStep
<1> QED BY <1>1, <1>2

LEMMA RestoredInit == Init => Recorded /\ ReplayedSoFar /\ Confirmation
<1> SUFFICES ASSUME Init PROVE Recorded /\ ReplayedSoFar /\ Confirmation
  OBVIOUS
<1>1. Unmarked(row)
  BY DEF Init, NewRow, Unmarked
<1>2. ConsoleHands
  BY DEF Init, NoHands, ConsoleHands
<1>3. phase = "running" /\ ~backup.bound
  BY DEF Init, NoBackup
<1> QED BY <1>1, <1>2, <1>3 DEF Recorded, ReplayedSoFar, Confirmation

\* The replay leaves the status record that went out last before the disaster,
\* or that record without its confirmation (ReplayStatus, changeEv): for any
\* number of changes, confirmations, backups and records, when all since the
\* backup was recorded and no record was lost.
THEOREM RestoredAlways == Spec => []Restored
<1>1. ASSUME TypeOK, RecordIsRow, ReplayedSoFar, Confirmation PROVE Restored
  <2> SUFFICES ASSUME Replayed, lost.complete, ~lost.remarked
               PROVE  \E k \in {None, lost.record.confirmation} :
                         record = [lost.record EXCEPT !.confirmation = k]
    BY DEF Restored
  <2>1. Leads(Bare(row), <<>>, Bare(lost.record))
    BY <1>1 DEF Replayed, ReplayedSoFar
  <2>2. Bare(row) \in StatusRecord
    BY <1>1, Parts, BareType
  <2>3. Bare(row) = Bare(lost.record)
    BY <2>1, <2>2, LeadsNowhere
  <2>4. /\ row.status = lost.record.status /\ row.mark = lost.record.mark
        /\ row.version = lost.record.version /\ row.evidence = lost.record.evidence
    BY <2>3, BareFields
  <2>5. row.confirmation \in {None, lost.record.confirmation}
    BY <1>1, <2>4 DEF Replayed, Confirmation
  <2>6. lost.record \in StatusRecord /\ record \in StatusRecord /\ record = RecordOf(row)
    BY <1>1 DEF TypeOK, Lost, RecordIsRow
  <2>7. record = [lost.record EXCEPT !.confirmation = row.confirmation]
    <3> DEFINE p == [lost.record EXCEPT !.confirmation = row.confirmation]
    <3>1. row.confirmation \in Confirmations \union {None}
      BY <1>1 DEF TypeOK, Row
    <3>2. /\ p \in StatusRecord /\ p.status = lost.record.status
          /\ p.mark = lost.record.mark /\ p.version = lost.record.version
          /\ p.confirmation = row.confirmation /\ p.evidence = lost.record.evidence
      BY <2>6, <3>1 DEF StatusRecord
    <3>3. /\ record.status = row.status /\ record.mark = row.mark
          /\ record.version = row.version /\ record.confirmation = row.confirmation
          /\ record.evidence = row.evidence
      BY <2>6 DEF RecordOf
    <3> HIDE DEF p
    <3>4. p = record
      BY <2>4, <2>6, <3>2, <3>3, SameRecord
    <3> QED BY <3>4 DEF p
  <2> QED BY <2>5, <2>7
<1>2. Invariant => Running
  BY DEF Invariant
<1> QED BY <1>1, <1>2, InvariantInit, InvariantStep, RestoredInit, RestoredStep,
           RecordIsRowAlways, RecoveryTypes, PTL DEF Spec
=============================================================================
