-------------------------- MODULE AccountRow_proofs --------------------------
(***************************************************************************)
(* What the transactions of AccountRow return, preserve and decide.        *)
(***************************************************************************)
EXTENDS AccountRow, TLAPS

\* A new row and the user of nobody are well formed.
LEMMA NewRowType == NewRow \in Row /\ Gone \in User
  BY NoFactorsAssumption DEF NewRow, Row, Gone, User, Statuses, Marks

\* A row's status record is a status record.
LEMMA RecordType ==
    ASSUME NEW r \in Row PROVE RecordOf(r) \in StatusRecord
  BY DEF Row, RecordOf, StatusRecord

\* A security change takes the version up by one and changes neither the
\* status, the mark nor the baselines (store.go changeEv).
LEMMA ChangedRow ==
    ASSUME NEW r \in Row, NEW k \in Confirmations \union {None},
           NEW e \in Writers \union {None}
    PROVE  /\ Changed(r, k, e) \in Row
           /\ Changed(r, k, e).version = r.version + 1
           /\ Changed(r, k, e).status = r.status
           /\ Changed(r, k, e).mark = r.mark
           /\ Changed(r, k, e).confirmation = k
           /\ Changed(r, k, e).evidence = e
<1>1. r.version \in Nat /\ r.version + 1 \in Nat \ {0}
  BY DEF Row
<1>2. Changed(r, k, e) \in Row
  BY <1>1 DEF Row, Changed
<1> QED BY <1>2 DEF Row, Changed

\* A requested status is written with its mark and nothing else.
LEMMA WithStatusRow ==
    ASSUME NEW r \in Row, NEW s \in Statuses, NEW m \in Marks
    PROVE  /\ WithStatus(r, s, m) \in Row
           /\ WithStatus(r, s, m).version = r.version
           /\ WithStatus(r, s, m).status = s
           /\ WithStatus(r, s, m).mark = m
  BY DEF Row, WithStatus

\* The baselines are written and nothing else.
LEMMA BaselinedRow ==
    ASSUME NEW r \in Row, NEW u \in User
    PROVE  /\ Baselined(r, u) \in Row
           /\ Baselined(r, u).version = r.version
           /\ Baselined(r, u).status = r.status
           /\ Baselined(r, u).mark = r.mark
           /\ RecordOf(Baselined(r, u)) = RecordOf(r)
  BY DEF Row, User, Baselined, RecordOf

\* The four reasons a comparison has.
LEMMA ReasonType ==
    ASSUME NEW r, NEW u, NEW recent
    PROVE  /\ CompareReason(r, u, recent) \in {"none", "disabled", "password", "second_factor"}
           /\ CompareReason(r, u, recent) = "disabled" <=> TakesDisablement(r, u, recent)
           /\ SeesRollback(r, u, recent) => CompareReason(r, u, recent) = "none"
  BY DEF CompareReason, TakesDisablement, SeesRollback

\* A comparison either leaves the version, and then everything the status
\* record carries, or takes it up by one; it changes the status of an account
\* only from active to disabled, and then with the version (store.go Compare).
LEMMA ComparedRowFacts ==
    ASSUME NEW r \in Row, NEW u \in User, NEW recent \in BOOLEAN,
           NEW e \in Writers \union {None}
    PROVE  LET after == ComparedRow(r, u, recent, e)
               reason == CompareReason(r, u, recent)
           IN  /\ after \in Row
               /\ after.mark = r.mark
               /\ reason = "none" =>
                    /\ RecordOf(after) = RecordOf(r)
                    /\ after.version = r.version
                    /\ after.status = r.status
               /\ reason # "none" => after.version = r.version + 1
               /\ reason = "disabled" =>
                    /\ r.status = "active" /\ after.status = "disabled"
                    /\ after.confirmation = None /\ after.evidence = e
               /\ reason \in {"password", "second_factor"} =>
                    /\ after.status = r.status
                    /\ after.confirmation = None /\ after.evidence = None
<1> DEFINE b == Baselined(r, u)
           d == [b EXCEPT !.status = "disabled"]
           after == ComparedRow(r, u, recent, e)
           reason == CompareReason(r, u, recent)
<1>1. /\ b \in Row /\ b.version = r.version /\ b.status = r.status
      /\ b.mark = r.mark /\ RecordOf(b) = RecordOf(r)
  BY BaselinedRow
<1>2. /\ d \in Row /\ d.version = r.version /\ d.status = "disabled" /\ d.mark = r.mark
  <2> HIDE DEF b
  <2> QED BY <1>1 DEF Row, Statuses
<1>3. CASE reason = "none"
  <2>1. after = b
    BY <1>3 DEF ComparedRow
  <2> QED BY <1>1, <1>3, <2>1
<1>4. CASE reason = "disabled"
  <2>1. after = Changed(d, None, e)
    BY <1>4 DEF ComparedRow
  <2>2. r.status = "active"
    BY <1>4, ReasonType DEF TakesDisablement
  <2>3. /\ Changed(d, None, e) \in Row
        /\ Changed(d, None, e).version = d.version + 1
        /\ Changed(d, None, e).status = d.status
        /\ Changed(d, None, e).mark = d.mark
        /\ Changed(d, None, e).confirmation = None
        /\ Changed(d, None, e).evidence = e
    <3> HIDE DEF d
    <3> QED BY <1>2, ChangedRow
  <2> HIDE DEF d, after, reason
  <2> QED BY <1>2, <1>4, <2>1, <2>2, <2>3 DEF after, reason
<1>5. CASE reason \in {"password", "second_factor"}
  <2>1. after = Changed(b, None, None)
    BY <1>5 DEF ComparedRow
  <2>3. /\ Changed(b, None, None) \in Row
        /\ Changed(b, None, None).version = b.version + 1
        /\ Changed(b, None, None).status = b.status
        /\ Changed(b, None, None).mark = b.mark
        /\ Changed(b, None, None).confirmation = None
        /\ Changed(b, None, None).evidence = None
    <3> HIDE DEF b
    <3> QED BY <1>1, ChangedRow
  <2> HIDE DEF b, after, reason
  <2> QED BY <1>1, <1>5, <2>1, <2>3 DEF after, reason
<1> QED BY <1>3, <1>4, <1>5, ReasonType

\* Whatever a comparison decides, what it saw is the next one's baseline.
LEMMA ComparedBaseline ==
    ASSUME NEW r \in Row, NEW u \in User, NEW recent \in BOOLEAN,
           NEW e \in Writers \union {None}
    PROVE  /\ ComparedRow(r, u, recent, e).password = u.password
           /\ ComparedRow(r, u, recent, e).factors = u.factors
<1> DEFINE b == Baselined(r, u)
           d == [b EXCEPT !.status = "disabled"]
<1>1. b \in Row /\ b.password = u.password /\ b.factors = u.factors
  BY BaselinedRow DEF Baselined, Row
<1> HIDE DEF b
<1>2. d.password = b.password /\ d.factors = b.factors
  BY <1>1 DEF Row
<1>3. d \in Row
  BY <1>1 DEF Row, Statuses
<1> HIDE DEF d
<1>4. ASSUME NEW w \in Row, NEW k
      PROVE  Changed(w, None, k).password = w.password /\ Changed(w, None, k).factors = w.factors
  BY DEF Changed, Row
<1>5. ComparedRow(r, u, recent, e) \in {b, Changed(d, None, e), Changed(b, None, None)}
  BY DEF ComparedRow, b, d
<1> QED BY <1>1, <1>2, <1>3, <1>4, <1>5
=============================================================================
