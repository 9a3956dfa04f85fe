-------------------------- MODULE LiveStreamProofs ---------------------------
(***************************************************************************)
(* The captures of an endpoint and their live streams, for every number of *)
(* requests, streams, connections and faults.  The invariant of the        *)
(* captures (CaptureInv) stands alone: the notifier only reads their       *)
(* tables.  That of the notifier (NotifierInv) is about the one connection *)
(* and the one reader that start() keeps under its lock.                   *)
(***************************************************************************)
EXTENDS LiveStream, FiniteSetTheorems, SequenceTheorems, TLAPS

-----------------------------------------------------------------------------
(* The captures.                                                           *)

(* Until a request is over its transaction has left no row.                *)
OpenLeavesNoRow ==
    \A r \in Requests : capture[r].pc # "over" => rows[r].request = "absent"

(* A transaction that can still commit holds the forward its endpoint asks *)
(* for, once execute() is past its insert.                                 *)
ForwardInTransaction ==
    \A r \in Requests :
        capture[r].pc \in {"executed", "answered"} /\ ~capture[r].aborted
            => capture[r].forward = ForwardUrl

(* A blob_key is in the transaction only behind its blob.                  *)
BlobBeforeKey ==
    \A r \in Requests :
        (capture[r].pc \in {"ready", "saved", "counted", "executed", "answered"}
          /\ capture[r].kept = "blob") => r \in blobs

(* The lock on the endpoint's row: one transaction has counted, from the   *)
(* committed count.                                                        *)
CountsUnderLock ==
    /\ \A r \in Requests : HoldsForUpdate(r) => capture[r].count = endpoint.request_count + 1
    /\ \A r, s \in Requests : HoldsForUpdate(r) /\ HoldsForUpdate(s) => r = s

Captured == {r \in Requests : rows[r].request # "absent"}

CaptureInv ==
    /\ CaptureTypeOK
    /\ OpenLeavesNoRow
    /\ ForwardInTransaction
    /\ BlobBeforeKey
    /\ CountsUnderLock
    /\ WholeOrAbsent
    /\ BlobBacksRow
    /\ IsFiniteSet(Captured) /\ CountIsExact

(* What a body becomes in the row (CapturedRequest.create).                *)
LEMMA PreviewType == ASSUME NEW body \in BodyKinds PROVE Preview(body) \in Kept
BY DEF BodyKinds, Preview, Kept

(* Whether the endpoint forwards is a Boolean constant.                    *)
LEMMA ForwardUrlType == ForwardUrl \in BOOLEAN
BY CaptureAssumption DEF CaptureAssumption

(* What the steps of one request write has its type.                       *)
LEMMA CaptureStepTypes ==
    ASSUME CaptureTypeOK, NEW r \in Requests, CaptureStep(r) \/ CommitCapture(r)
    PROVE  CaptureTypeOK'
<1> USE DEF CaptureTypeOK
<1>1. /\ capture[r] \in Capture /\ rows[r] \in Row
      /\ endpoint \in [exists : BOOLEAN, request_count : Nat]
      /\ Preview(capture[r].body) \in Kept /\ ForwardUrl \in BOOLEAN
  BY PreviewType, ForwardUrlType DEF Capture
<1>2. CASE RefuseBody(r)
  BY <1>1, <1>2 DEF RefuseBody, Told, Capture
<1>3. CASE FindEndpoint(r)
  <2>1. CASE endpoint.exists
    <3>1. capture' = [capture EXCEPT ![r] = [capture[r] EXCEPT
            !.pc = IF Preview(capture[r].body) = "blob" THEN "offload" ELSE "ready",
            !.kept = Preview(capture[r].body)]]
      BY <1>3, <2>1 DEF FindEndpoint
    <3>2. QED
      BY <1>1, <1>3, <3>1 DEF FindEndpoint, Capture
  <2>2. CASE ~endpoint.exists
    BY <1>1, <1>3, <2>2 DEF FindEndpoint, Told, Capture
  <2>3. QED
    BY <2>1, <2>2
<1>4. CASE PutBlob(r)
  BY <1>1, <1>4 DEF PutBlob, Moves, Capture
<1>5. CASE PutBlobFails(r)
  <2>1. capture' = [capture EXCEPT ![r] = [capture[r] EXCEPT !.pc = "ready", !.kept = "nothing"]]
    BY <1>5 DEF PutBlobFails
  <2>2. QED
    BY <1>1, <1>5, <2>1 DEF PutBlobFails, Fault, Capture, Kept
<1>6. CASE SaveRequest(r)
  BY <1>1, <1>6 DEF SaveRequest, Moves, Told, Capture
<1>7. CASE IncrementRequestCount(r)
  <2>1. capture' = [capture EXCEPT ![r] = [capture[r] EXCEPT !.pc = "counted",
                                     !.count = endpoint.request_count + 1]]
    BY <1>7 DEF IncrementRequestCount
  <2>2. QED
    BY <1>1, <1>7, <2>1 DEF IncrementRequestCount, Capture
<1>8. CASE SaveForward(r)
  BY <1>1, <1>8 DEF SaveForward, Capture
<1>9. CASE SaveForwardFails(r)
  <2>1. capture' = [capture EXCEPT ![r] = [capture[r] EXCEPT !.pc = "executed", !.aborted = TRUE]]
    BY <1>9 DEF SaveForwardFails
  <2>2. QED
    BY <1>1, <1>9, <2>1 DEF SaveForwardFails, Fault, Capture
<1>10. CASE AnswerCapture(r)
  BY <1>1, <1>10 DEF AnswerCapture, Capture
<1>11. CASE RollbackCapture(r)
  BY <1>1, <1>11 DEF RollbackCapture, Moves, Capture
<1>12. CASE CaptureLost(r)
  BY <1>1, <1>12 DEF CaptureLost, Fault, Moves, Capture
<1>13. CASE CommitCapture(r)
  BY <1>1, <1>13 DEF CommitCapture, Moves, Capture, Row
<1>14. QED
  BY <1>2, <1>3, <1>4, <1>5, <1>6, <1>7, <1>8, <1>9, <1>10, <1>11, <1>12, <1>13
     DEF CaptureStep

(* A step of one request changes nothing else of the others.               *)
LEMMA CaptureStepKeepsOthers ==
    ASSUME CaptureTypeOK, NEW r \in Requests, CaptureStep(r) \/ CommitCapture(r)
    PROVE  \A q \in Requests \ {r} : capture'[q] = capture[q] /\ rows'[q] = rows[q]
BY DEF CaptureTypeOK, CaptureStep, RefuseBody, FindEndpoint, PutBlob, PutBlobFails,
       SaveRequest, IncrementRequestCount, SaveForward, SaveForwardFails, AnswerCapture,
       RollbackCapture, CaptureLost, CommitCapture, Moves, Told

(* Up to the commit: no table but that of the blobs changes, and no count  *)
(* is taken while another transaction holds the row.                       *)
LEMMA CaptureStepKeepsInv ==
    ASSUME CaptureInv, NEW r \in Requests, CaptureStep(r)
    PROVE  CaptureInv'
<1> USE DEF CaptureStep, RefuseBody, FindEndpoint, PutBlob, PutBlobFails, SaveRequest,
            IncrementRequestCount, SaveForward, SaveForwardFails, AnswerCapture,
            RollbackCapture, CaptureLost, Moves, Told
<1>1. CaptureTypeOK /\ CaptureTypeOK'
  BY CaptureStepTypes DEF CaptureInv
<1>2. \A q \in Requests \ {r} : capture'[q] = capture[q] /\ rows'[q] = rows[q]
  BY <1>1, CaptureStepKeepsOthers
<1>3. UNCHANGED <<rows, endpoint>> /\ blobs \subseteq blobs'
  OBVIOUS
<1>4. OpenLeavesNoRow'
  <2>1. capture'[r].pc # "over" => capture[r].pc # "over"
    BY <1>1 DEF CaptureTypeOK
  <2>2. QED
    BY <1>2, <1>3, <2>1 DEF CaptureInv, OpenLeavesNoRow
<1>5. ForwardInTransaction'
  <2>1. capture'[r].pc \in {"executed", "answered"} /\ ~capture'[r].aborted
          => capture'[r].forward = ForwardUrl
    BY <1>1, ForwardUrlType DEF CaptureInv, ForwardInTransaction, CaptureTypeOK, Capture
  <2>2. QED
    BY <1>2, <2>1 DEF CaptureInv, ForwardInTransaction
<1>6. BlobBeforeKey'
  <2>1. (capture'[r].pc \in {"ready", "saved", "counted", "executed", "answered"}
          /\ capture'[r].kept = "blob") => r \in blobs'
    BY <1>1 DEF CaptureInv, BlobBeforeKey, CaptureTypeOK, Capture
  <2>2. QED
    BY <1>2, <1>3, <2>1 DEF CaptureInv, BlobBeforeKey
<1>7. CountsUnderLock'
  <2>1. ASSUME HoldsForUpdate(r)'
        PROVE  /\ capture'[r].count = endpoint.request_count + 1
               /\ HoldsForUpdate(r) \/ \A q \in Requests : ~HoldsForUpdate(q)
    BY <1>1, <2>1 DEF CaptureInv, CountsUnderLock, CaptureTypeOK, Capture,
                      HoldsForUpdate, Holds
  <2>2. \A q \in Requests \ {r} : HoldsForUpdate(q)' => HoldsForUpdate(q)
    BY <1>2 DEF HoldsForUpdate, Holds
  <2>3. QED
    BY <1>2, <1>3, <2>1, <2>2 DEF CaptureInv, CountsUnderLock
<1>8. WholeOrAbsent' /\ BlobBacksRow' /\ IsFiniteSet(Captured)' /\ CountIsExact'
  BY <1>3 DEF CaptureInv, WholeOrAbsent, BlobBacksRow, Captured, CountIsExact, Stored
<1>9. QED
  BY <1>1, <1>4, <1>5, <1>6, <1>7, <1>8 DEF CaptureInv

(* The commit: the row, its forward and the count become visible at once,  *)
(* and the lock is given up with the count it was held for.                *)
LEMMA CommitKeepsInv ==
    ASSUME CaptureInv, NEW r \in Requests, CommitCapture(r)
    PROVE  CaptureInv'
<1>1. CaptureTypeOK /\ CaptureTypeOK'
  BY CaptureStepTypes DEF CaptureInv
<1>2. \A q \in Requests \ {r} : capture'[q] = capture[q] /\ rows'[q] = rows[q]
  BY <1>1, CaptureStepKeepsOthers
<1>3. /\ capture[r].pc = "answered" /\ ~capture[r].aborted /\ capture'[r].pc = "over"
      /\ rows[r].request = "absent"
      /\ rows'[r] = [request |-> "stored", kept |-> capture[r].kept,
                     forward |-> capture[r].forward]
      /\ endpoint'.request_count = capture[r].count
      /\ UNCHANGED blobs
  BY <1>1 DEF CommitCapture, Moves, CaptureTypeOK, Capture, CaptureInv, OpenLeavesNoRow
<1>4. OpenLeavesNoRow' /\ ForwardInTransaction' /\ BlobBeforeKey'
  BY <1>2, <1>3 DEF CaptureInv, OpenLeavesNoRow, ForwardInTransaction, BlobBeforeKey
<1>5. HoldsForUpdate(r) /\ ~HoldsForUpdate(r)'
  BY <1>3 DEF HoldsForUpdate, Holds
<1>6. CountsUnderLock'
  BY <1>2, <1>5 DEF CaptureInv, CountsUnderLock, HoldsForUpdate, Holds
<1>7. WholeOrAbsent'
  BY <1>2, <1>3 DEF CaptureInv, WholeOrAbsent, ForwardInTransaction, Stored
<1>8. BlobBacksRow'
  BY <1>2, <1>3 DEF CaptureInv, BlobBacksRow, BlobBeforeKey, Stored
<1>9. IsFiniteSet(Captured)' /\ CountIsExact'
  <2>1. Captured' = Captured \cup {r} /\ r \notin Captured
    BY <1>2, <1>3 DEF Captured
  <2>2. IsFiniteSet(Captured \cup {r})
        /\ Cardinality(Captured \cup {r}) = Cardinality(Captured) + 1
    BY <2>1, FS_AddElement DEF CaptureInv
  <2>3. endpoint'.request_count = endpoint.request_count + 1
    BY <1>3, <1>5 DEF CaptureInv, CountsUnderLock
  <2>4. QED
    BY <2>1, <2>2, <2>3 DEF CaptureInv, CountIsExact, Captured
<1>10. QED
  BY <1>1, <1>4, <1>6, <1>7, <1>8, <1>9 DEF CaptureInv

(* The cleaner's delete waits for every transaction that holds the row.    *)
LEMMA DeleteKeepsInv == ASSUME CaptureInv, DeleteExpired PROVE CaptureInv'
<1>1. CaptureTypeOK'
  BY DEF CaptureInv, CaptureTypeOK, DeleteExpired, Row
<1>2. UNCHANGED <<capture, blobs>> /\ endpoint'.request_count = endpoint.request_count
  BY DEF CaptureInv, CaptureTypeOK, DeleteExpired
<1>3. ASSUME NEW q \in Requests
      PROVE  /\ rows'[q].request = "absent" => rows[q].request = "absent"
             /\ rows[q].request = "absent" => rows'[q].request = "absent"
  BY DEF CaptureInv, CaptureTypeOK, DeleteExpired, Row
<1>4. ASSUME NEW q \in Requests, rows'[q].request = "stored"
      PROVE  rows'[q] = rows[q]
  BY <1>4 DEF CaptureInv, CaptureTypeOK, DeleteExpired, Row
<1>5. OpenLeavesNoRow'
  BY <1>2, <1>3 DEF CaptureInv, OpenLeavesNoRow
<1>6. ForwardInTransaction' /\ BlobBeforeKey' /\ CountsUnderLock'
  BY <1>2 DEF CaptureInv, ForwardInTransaction, BlobBeforeKey, CountsUnderLock,
              HoldsForUpdate, Holds
<1>7. WholeOrAbsent' /\ BlobBacksRow'
  BY <1>2, <1>4 DEF CaptureInv, WholeOrAbsent, BlobBacksRow, Stored
<1>8. Captured' = Captured
  BY <1>3 DEF Captured
<1>9. QED
  BY <1>1, <1>2, <1>5, <1>6, <1>7, <1>8 DEF CaptureInv, CountIsExact, Captured

(* What the notifier's steps do to the captures: a fault at most.          *)
LEMMA NotifierKeepsInv ==
    ASSUME CaptureInv, UNCHANGED <<capture, rows, endpoint, blobs>>,
           Fault \/ UNCHANGED faults
    PROVE  CaptureInv'
BY DEF CaptureInv, CaptureTypeOK, Fault, OpenLeavesNoRow, ForwardInTransaction, BlobBeforeKey,
       CountsUnderLock, HoldsForUpdate, Holds, WholeOrAbsent, BlobBacksRow, Stored,
       Captured, CountIsExact

(* The captures start in their invariant.                                  *)
LEMMA InitCaptures == CaptureInit => CaptureInv
<1> SUFFICES ASSUME CaptureInit PROVE CaptureInv
  OBVIOUS
<1>1. CaptureTypeOK
  <2>1. Bodies \subseteq BodyKinds
    BY CaptureAssumption DEF CaptureAssumption
  <2>2. ASSUME NEW r \in Requests
        PROVE  capture[r] \in Capture
    <3>1. PICK b \in Bodies : capture[r] = [pc |-> "new", body |-> b, kept |-> "nothing",
                                            forward |-> FALSE, count |-> 0,
                                            aborted |-> FALSE, told |-> "none"]
      BY DEF CaptureInit
    <3>2. QED
      BY <2>1, <3>1 DEF Capture, Kept
  <2>3. capture \in [Requests -> Capture]
    BY <2>2 DEF CaptureInit
  <2>4. QED
    BY <2>3 DEF CaptureInit, CaptureTypeOK, Row, Kept
<1>2. OpenLeavesNoRow /\ ForwardInTransaction /\ BlobBeforeKey /\ CountsUnderLock
        /\ WholeOrAbsent /\ BlobBacksRow
  BY DEF CaptureInit, OpenLeavesNoRow, ForwardInTransaction, BlobBeforeKey, CountsUnderLock,
         HoldsForUpdate, Holds, WholeOrAbsent, BlobBacksRow, Stored
<1>3. Captured = {} /\ endpoint.request_count = 0
  BY DEF CaptureInit, Captured
<1>4. QED
  BY <1>1, <1>2, <1>3, FS_EmptySet DEF CaptureInv, CountIsExact, Captured

-----------------------------------------------------------------------------
(* The notifier.                                                           *)

NotifierTypeOK ==
    /\ listen_conn \in 0 .. MaxConns
    /\ reader_task \in 0 .. MaxConns
    /\ conns \in [Conns -> Conn]
    /\ task \in [Conns -> {"none", "running", "crashed", "done"}]
    /\ stream \in [Streams -> Stream]
    /\ owed \in [Streams -> Seq(Requests)]

HoldsLock(s) == stream[s].pc \in {"connecting", "listening"}

OneHolder == \A s, t \in Streams : HoldsLock(s) /\ HoldsLock(t) => s = t

(* While start() runs there is no reader: it found none under the lock,    *)
(* and nobody else makes one.                                              *)
NoReaderUnderLock ==
    \A s \in Streams : HoldsLock(s) => \A k \in Conns : task[k] \notin {"running", "crashed"}

(* What start() has left of the connection before, and made of its own.    *)
StartsAfresh ==
    \A s \in Streams :
        /\ (stream[s].pc = "connecting" /\ listen_conn # 0)
              => conns[listen_conn].state = "closed"
        /\ stream[s].pc = "listening" => listen_conn # 0

(* Only a connection that listens has something to deliver, and it has a   *)
(* reader; a crashed one has lost its connection.                          *)
ReadersMatchConnections ==
    \A k \in Conns :
        /\ conns[k].state # "listening" => conns[k].channel = <<>>
        /\ conns[k].state = "listening" => task[k] = "running"
        /\ task[k] = "crashed" => conns[k].state \in {"lost", "closed"}

(* Connections are numbered as they are opened.                            *)
OpenedInOrder ==
    /\ listen_conn # 0 => conns[listen_conn].state # "unused"
    /\ \A j, k \in Conns : (conns[j].state = "unused" /\ j < k) => conns[k].state = "unused"

EmptyUntilRegistered ==
    \A s \in Streams : stream[s].pc # "waiting" =>
        stream[s].queue = <<>> /\ stream[s].taken = <<>> /\ stream[s].skipped = {}

(* A notification never overtakes its commit.                              *)
NotifiedAreCaptured ==
    /\ \A k \in Conns : conns[k].channel \in Seq(Captured)
    /\ \A s \in Streams : stream[s].queue \in Seq(Captured)

NotifierInv ==
    /\ NotifierTypeOK
    /\ OneHolder
    /\ NoReaderUnderLock
    /\ StartsAfresh
    /\ ReadersMatchConnections
    /\ OpenedInOrder
    /\ EmptyUntilRegistered
    /\ NotifiedAreCaptured
    /\ ResetsItsOwn
    /\ OnceInOrder
    /\ SkipsOnlyDeleted

-----------------------------------------------------------------------------
(* What a queue and a channel hold together: the sequence taken, queued,   *)
(* to come, under the operations of the notifier.                          *)

(* NOTIFY appends to the channel. *)
LEMMA AppendToLast ==
    ASSUME NEW S, NEW a \in Seq(S), NEW b \in Seq(S), NEW x \in S
    PROVE  a \o Append(b, x) = Append(a \o b, x)
<1>1. /\ Append(b, x) = b \o <<x>> /\ <<x>> \in Seq(S)
      /\ a \o b \in Seq(S)
  BY AppendIsConcat, ConcatProperties, AppendProperties, EmptySeq
<1>2. Append(a \o b, x) = (a \o b) \o <<x>>
  BY <1>1, AppendIsConcat
<1>3. QED
  BY <1>1, <1>2, ConcatAssociative

(* The reader moves the head of the channel to the end of a queue, and the *)
(* stream moves the head of its queue to what it has taken.                *)
LEMMA MoveHead ==
    ASSUME NEW S, NEW a \in Seq(S), NEW b \in Seq(S), b # <<>>
    PROVE  Append(a, Head(b)) \o Tail(b) = a \o b
<1>1. /\ Head(b) \in S /\ Tail(b) \in Seq(S) /\ Len(Tail(b)) = Len(b) - 1
      /\ \A i \in 1 .. Len(Tail(b)) : Tail(b)[i] = b[i + 1]
      /\ Len(b) \in Nat /\ Len(b) > 0 /\ Head(b) = b[1]
  BY HeadTailProperties, LenProperties, EmptySeq
<1>2. /\ Append(a, Head(b)) \in Seq(S) /\ Len(Append(a, Head(b))) = Len(a) + 1
      /\ \A i \in 1 .. Len(a) : Append(a, Head(b))[i] = a[i]
      /\ Append(a, Head(b))[Len(a) + 1] = b[1]
      /\ Len(a) \in Nat
  BY <1>1, AppendProperties, LenProperties
<1> DEFINE l == Append(a, Head(b)) \o Tail(b)
           m == a \o b
<1>3. /\ l \in Seq(S) /\ Len(l) = Len(a) + Len(b)
      /\ \A i \in 1 .. Len(a) + Len(b) :
            l[i] = IF i <= Len(a) + 1 THEN Append(a, Head(b))[i] ELSE Tail(b)[i - (Len(a) + 1)]
  BY <1>1, <1>2, ConcatProperties
<1>4. /\ m \in Seq(S) /\ Len(m) = Len(a) + Len(b)
      /\ \A i \in 1 .. Len(a) + Len(b) : m[i] = IF i <= Len(a) THEN a[i] ELSE b[i - Len(a)]
  BY ConcatProperties
<1>5. ASSUME NEW i \in 1 .. Len(l) PROVE l[i] = m[i]
  <2>1. CASE i <= Len(a)
    BY <1>1, <1>2, <1>3, <1>4, <2>1
  <2>2. CASE i = Len(a) + 1
    BY <1>1, <1>2, <1>3, <1>4, <2>2
  <2>3. CASE i > Len(a) + 1
    BY <1>1, <1>2, <1>3, <1>4, <2>3
  <2>4. QED
    BY <1>1, <1>2, <1>3, <2>1, <2>2, <2>3
<1>6. QED
  BY <1>3, <1>4, <1>5, SeqEqual

(* A lost connection takes with it what it had not delivered.              *)
LEMMA CutLast ==
    ASSUME NEW S, NEW a \in Seq(S), NEW b \in Seq(S)
    PROVE  SubSeq(a \o b, 1, Len(a \o b) - Len(b)) = a
<1>1. /\ a \o b \in Seq(S) /\ Len(a \o b) = Len(a) + Len(b)
      /\ Len(a) \in Nat /\ Len(b) \in Nat
      /\ \A i \in 1 .. Len(a) : (a \o b)[i] = a[i] /\ a[i] \in S
  BY ConcatProperties, LenProperties, ElementOfSeq
<1>2. Len(a \o b) - Len(b) = Len(a)
  BY <1>1
<1>3. /\ SubSeq(a \o b, 1, Len(a)) \in Seq(S)
      /\ Len(SubSeq(a \o b, 1, Len(a))) = Len(a)
      /\ \A i \in 1 .. Len(a) : SubSeq(a \o b, 1, Len(a))[i] = (a \o b)[i]
  BY <1>1, SubSeqProperties
<1>4. QED
  BY <1>1, <1>2, <1>3, SeqEqual

-----------------------------------------------------------------------------
(* The steps of the notifier.                                              *)

(* No step takes a captured row back, or revives a deleted one.            *)
LEMMA RowsMoveOn ==
    ASSUME CaptureInv, NEW r \in Requests,
           CaptureStep(r) \/ CommitCapture(r) \/ DeleteExpired
    PROVE  /\ Captured \subseteq Captured'
           /\ \A q \in Requests : rows[q].request = "deleted" => rows'[q].request = "deleted"
<1>1. CASE CaptureStep(r)
  BY <1>1 DEF Captured, CaptureStep, RefuseBody, FindEndpoint, PutBlob, PutBlobFails,
              SaveRequest, IncrementRequestCount, SaveForward, SaveForwardFails,
              AnswerCapture, RollbackCapture, CaptureLost
<1>2. CASE CommitCapture(r)
  BY <1>2 DEF Captured, CommitCapture, CaptureInv, CaptureTypeOK, OpenLeavesNoRow
<1>3. CASE DeleteExpired
  BY <1>3 DEF Captured, DeleteExpired, CaptureInv, CaptureTypeOK, Row
<1>4. QED
  BY <1>1, <1>2, <1>3

(* Where the notifier stands still its invariant rests on the rows alone.  *)
LEMMA NotifierIdle ==
    ASSUME NotifierInv, UNCHANGED notifierVars, Captured \subseteq Captured',
           \A q \in Requests : rows[q].request = "deleted" => rows'[q].request = "deleted"
    PROVE  NotifierInv'
<1>1. /\ NotifierTypeOK' /\ OneHolder' /\ NoReaderUnderLock' /\ StartsAfresh'
      /\ ReadersMatchConnections' /\ EmptyUntilRegistered' /\ ResetsItsOwn' /\ OnceInOrder'
      /\ OpenedInOrder'
  BY DEF NotifierInv, NotifierTypeOK, OneHolder, HoldsLock, NoReaderUnderLock, StartsAfresh,
         ReadersMatchConnections, OpenedInOrder, EmptyUntilRegistered, ResetsItsOwn,
         OnceInOrder, Coming, notifierVars
<1>2. NotifiedAreCaptured'
  BY SeqMonotonic DEF NotifierInv, NotifiedAreCaptured, notifierVars
<1>3. SkipsOnlyDeleted'
  BY DEF NotifierInv, NotifierTypeOK, Stream, SkipsOnlyDeleted, notifierVars
<1>4. QED
  BY <1>1, <1>2, <1>3 DEF NotifierInv

(* A stream that changes nothing but its place before the registration.    *)
LEMMA StreamMovesOn ==
    ASSUME NotifierInv, UNCHANGED <<rows, owed, task, reader_task>>,
           NEW s \in Streams, NEW pc \in {"probed", "starting", "connecting", "listening"},
           stream[s].pc # "waiting", StreamMoves(s, pc)
    PROVE  /\ stream' \in [Streams -> Stream]
           /\ \A t \in Streams \ {s} : stream'[t] = stream[t]
           /\ stream'[s].pc = pc
           /\ EmptyUntilRegistered'
           /\ \A t \in Streams : stream'[t].queue \in Seq(Captured)'
           /\ SkipsOnlyDeleted'
<1>1. stream \in [Streams -> Stream]
  BY DEF NotifierInv, NotifierTypeOK
<1>2. stream' \in [Streams -> Stream]
  BY <1>1 DEF StreamMoves, Stream
<1>3. /\ \A t \in Streams \ {s} : stream'[t] = stream[t]
      /\ stream'[s].pc = pc /\ stream'[s].queue = stream[s].queue
      /\ stream'[s].taken = stream[s].taken /\ stream'[s].skipped = stream[s].skipped
  BY <1>1 DEF StreamMoves, Stream
<1>4. EmptyUntilRegistered'
  BY <1>3 DEF NotifierInv, EmptyUntilRegistered
<1>5. \A t \in Streams : stream'[t].queue \in Seq(Captured)'
  BY <1>3 DEF NotifierInv, NotifiedAreCaptured, Captured
<1>6. SkipsOnlyDeleted'
  BY <1>3 DEF NotifierInv, SkipsOnlyDeleted
<1>7. QED
  BY <1>2, <1>3, <1>4, <1>5, <1>6

(* A probe of a stream registers nothing.                                  *)
LEMMA OpenStreamKeepsInv ==
    ASSUME NotifierInv, NEW s \in Streams, OpenStream(s)
    PROVE  NotifierInv'
<1>1. /\ UNCHANGED <<rows, owed, task, reader_task, conns, listen_conn>>
      /\ stream[s].pc = "closed" /\ StreamMoves(s, "probed")
  BY DEF OpenStream, captureVars
<1>2. /\ stream' \in [Streams -> Stream]
      /\ \A t \in Streams \ {s} : stream'[t] = stream[t]
      /\ stream'[s].pc = "probed"
      /\ EmptyUntilRegistered'
      /\ \A t \in Streams : stream'[t].queue \in Seq(Captured)'
      /\ SkipsOnlyDeleted'
  BY <1>1, StreamMovesOn
<1>3. NotifierTypeOK'
  BY <1>1, <1>2 DEF NotifierInv, NotifierTypeOK
<1>4. OneHolder' /\ NoReaderUnderLock' /\ StartsAfresh'
  BY <1>1, <1>2 DEF NotifierInv, OneHolder, NoReaderUnderLock, StartsAfresh, HoldsLock
<1>5. ReadersMatchConnections' /\ OpenedInOrder' /\ NotifiedAreCaptured' /\ ResetsItsOwn'
  BY <1>1, <1>2 DEF NotifierInv, ReadersMatchConnections, OpenedInOrder, NotifiedAreCaptured,
                    ResetsItsOwn, Captured
<1>6. OnceInOrder'
  BY <1>1, <1>2 DEF NotifierInv, OnceInOrder, Coming
<1>7. QED
  BY <1>2, <1>3, <1>4, <1>5, <1>6 DEF NotifierInv

(* A stream that registers its queue is owed what the connection has yet   *)
(* to deliver.                                                             *)
LEMMA StreamRegisters ==
    ASSUME NotifierInv, UNCHANGED <<rows, listen_conn>>,
           NEW s \in Streams, stream[s].pc # "waiting",
           NEW k \in Conns, listen_conn = k, Register(s, k),
           conns' \in [Conns -> Conn], conns'[k].channel = conns[k].channel
    PROVE  /\ stream' \in [Streams -> Stream] /\ owed' \in [Streams -> Seq(Requests)]
           /\ \A t \in Streams \ {s} : stream'[t] = stream[t]
           /\ stream'[s].pc = "waiting"
           /\ EmptyUntilRegistered'
           /\ \A t \in Streams : stream'[t].queue \in Seq(Captured)'
           /\ SkipsOnlyDeleted'
           /\ OnceInOrder'
<1>1. /\ stream \in [Streams -> Stream] /\ owed \in [Streams -> Seq(Requests)]
      /\ conns \in [Conns -> Conn]
  BY DEF NotifierInv, NotifierTypeOK
<1>2. stream' \in [Streams -> Stream]
  BY <1>1 DEF Register, Stream
<1>3. /\ \A t \in Streams \ {s} : stream'[t] = stream[t] /\ owed'[t] = owed[t]
      /\ stream'[s].pc = "waiting" /\ stream'[s].queue = <<>>
      /\ stream'[s].taken = <<>> /\ stream'[s].skipped = {}
      /\ owed'[s] = conns[k].channel
  BY <1>1 DEF Register, Stream, NotifierInv, EmptyUntilRegistered
<1>4. conns[k].channel \in Seq(Requests)
  BY <1>1 DEF Conn
<1>5. owed' \in [Streams -> Seq(Requests)]
  BY <1>1, <1>3, <1>4 DEF Register
<1>6. EmptyUntilRegistered' /\ SkipsOnlyDeleted'
  BY <1>3 DEF NotifierInv, EmptyUntilRegistered, SkipsOnlyDeleted
<1>7. \A t \in Streams : stream'[t].queue \in Seq(Captured)'
  BY <1>3, EmptySeq DEF NotifierInv, NotifiedAreCaptured, Captured
<1>8. k # 0
  BY StreamAssumption DEF Conns
<1>9. ASSUME NEW t \in Streams, stream'[t].pc = "waiting"
      PROVE  Coming(t)' = owed'[t]
  <2>1. CASE t = s
    BY <1>3, <1>4, <1>8, <2>1, ConcatEmptySeq, EmptySeq DEF Coming
  <2>2. CASE t # s
    BY <1>3, <1>8, <1>9, <2>2 DEF Coming, NotifierInv, OnceInOrder
  <2>3. QED
    BY <2>1, <2>2
<1>10. QED
  BY <1>2, <1>3, <1>5, <1>6, <1>7, <1>9 DEF OnceInOrder

(* A stream that finds the reader alive registers, with or without the     *)
(* lock: nothing else changes.                                             *)
LEMMA RegisterKeepsInv ==
    ASSUME NotifierInv, NEW s \in Streams, stream[s].pc # "waiting",
           Alive, Register(s, listen_conn),
           UNCHANGED <<rows, listen_conn, reader_task, conns, task>>
    PROVE  NotifierInv'
<1>1. /\ conns \in [Conns -> Conn] /\ listen_conn \in Conns
  BY StreamAssumption DEF NotifierInv, NotifierTypeOK, Alive, Conns
<1>2. /\ stream' \in [Streams -> Stream] /\ owed' \in [Streams -> Seq(Requests)]
      /\ \A t \in Streams \ {s} : stream'[t] = stream[t]
      /\ stream'[s].pc = "waiting"
      /\ EmptyUntilRegistered'
      /\ \A t \in Streams : stream'[t].queue \in Seq(Captured)'
      /\ SkipsOnlyDeleted'
      /\ OnceInOrder'
  BY <1>1, StreamRegisters
<1>3. NotifierTypeOK'
  BY <1>2 DEF NotifierInv, NotifierTypeOK
<1>4. OneHolder' /\ NoReaderUnderLock' /\ StartsAfresh'
  BY <1>2 DEF NotifierInv, OneHolder, NoReaderUnderLock, StartsAfresh, HoldsLock
<1>5. ReadersMatchConnections' /\ OpenedInOrder' /\ NotifiedAreCaptured' /\ ResetsItsOwn'
  BY <1>2 DEF NotifierInv, ReadersMatchConnections, OpenedInOrder, NotifiedAreCaptured,
              ResetsItsOwn, Captured
<1>6. QED
  BY <1>2, <1>3, <1>4, <1>5 DEF NotifierInv

(* A subscription finds the reader alive, or starts one.                   *)
LEMMA SubscribeKeepsInv ==
    ASSUME NotifierInv, NEW s \in Streams, Subscribe(s)
    PROVE  NotifierInv'
<1>1. /\ UNCHANGED <<rows, task, reader_task, conns, listen_conn>>
      /\ stream[s].pc = "probed"
  BY DEF Subscribe, captureVars
<1>2. CASE Alive
  BY <1>1, <1>2, RegisterKeepsInv DEF Subscribe
<1>3. CASE ~Alive
  <2>1. StreamMoves(s, "starting") /\ UNCHANGED owed
    BY <1>3 DEF Subscribe
  <2>2. /\ stream' \in [Streams -> Stream]
        /\ \A t \in Streams \ {s} : stream'[t] = stream[t]
        /\ stream'[s].pc = "starting"
        /\ EmptyUntilRegistered'
        /\ \A t \in Streams : stream'[t].queue \in Seq(Captured)'
        /\ SkipsOnlyDeleted'
    BY <1>1, <2>1, StreamMovesOn
  <2>3. NotifierTypeOK'
    BY <1>1, <2>1, <2>2 DEF NotifierInv, NotifierTypeOK
  <2>4. OneHolder' /\ NoReaderUnderLock' /\ StartsAfresh'
    BY <1>1, <2>2 DEF NotifierInv, OneHolder, NoReaderUnderLock, StartsAfresh, HoldsLock
  <2>5. ReadersMatchConnections' /\ OpenedInOrder' /\ NotifiedAreCaptured' /\ ResetsItsOwn'
    BY <1>1, <2>2 DEF NotifierInv, ReadersMatchConnections, OpenedInOrder,
                      NotifiedAreCaptured, ResetsItsOwn, Captured
  <2>6. OnceInOrder'
    BY <1>1, <2>1, <2>2 DEF NotifierInv, OnceInOrder, Coming
  <2>7. QED
    BY <2>2, <2>3, <2>4, <2>5, <2>6 DEF NotifierInv
<1>4. QED
  BY <1>2, <1>3

(* Without a reader no connection listens, and none has anything to        *)
(* deliver.                                                                *)
LEMMA QuietWithoutReader ==
    ASSUME NotifierInv, \A k \in Conns : task[k] \notin {"running", "crashed"}
    PROVE  \A k \in Conns : conns[k].state # "listening" /\ conns[k].channel = <<>>
BY DEF NotifierInv, ReadersMatchConnections

(* The second test of start(): whoever is not alive has no reader left, so *)
(* nothing is lost with the connection it closes.                          *)
LEMMA StartKeepsInv ==
    ASSUME NotifierInv, NEW s \in Streams, Start(s)
    PROVE  NotifierInv'
<1>1. /\ UNCHANGED <<rows, task, reader_task, listen_conn>>
      /\ stream[s].pc = "starting" /\ LockFree
  BY DEF Start, captureVars
<1>2. CASE Alive
  BY <1>1, <1>2, RegisterKeepsInv DEF Start
<1>3. CASE ~Alive
  <2>1. /\ StreamMoves(s, "connecting") /\ UNCHANGED owed
        /\ conns' = IF listen_conn = 0 THEN conns
                    ELSE [conns EXCEPT ![listen_conn] = [state |-> "closed", channel |-> <<>>]]
    BY <1>3 DEF Start
  <2>2. /\ stream' \in [Streams -> Stream]
        /\ \A t \in Streams \ {s} : stream'[t] = stream[t]
        /\ stream'[s].pc = "connecting"
        /\ EmptyUntilRegistered'
        /\ \A t \in Streams : stream'[t].queue \in Seq(Captured)'
        /\ SkipsOnlyDeleted'
    BY <1>1, <2>1, StreamMovesOn
  <2>3. \A k \in Conns : task[k] \notin {"running", "crashed"}
    <3>1. ASSUME NEW k \in Conns, task[k] \in {"running", "crashed"} PROVE Alive
      BY <3>1, StreamAssumption DEF NotifierInv, ResetsItsOwn, Alive, Conns
    <3>2. QED
      BY <1>3, <3>1
  <2>4. \A k \in Conns : conns[k].state # "listening" /\ conns[k].channel = <<>>
    BY <2>3, QuietWithoutReader
  <2>5. /\ conns \in [Conns -> Conn]
        /\ listen_conn # 0 => listen_conn \in Conns
    BY StreamAssumption DEF NotifierInv, NotifierTypeOK, Conns
  <2>6. /\ conns' \in [Conns -> Conn]
        /\ \A k \in Conns : conns'[k].state # "listening" /\ conns'[k].channel = <<>>
        /\ \A k \in Conns : k # listen_conn => conns'[k] = conns[k]
        /\ listen_conn # 0 => conns'[listen_conn].state = "closed"
    <3>1. [state |-> "closed", channel |-> <<>>] \in Conn
      BY EmptySeq DEF Conn
    <3>2. QED
      BY <2>1, <2>4, <2>5, <3>1
  <2>7. NotifierTypeOK'
    BY <1>1, <2>1, <2>2, <2>6 DEF NotifierInv, NotifierTypeOK
  <2>8. OneHolder' /\ NoReaderUnderLock' /\ StartsAfresh'
    BY <1>1, <2>2, <2>3, <2>6 DEF LockFree, OneHolder, NoReaderUnderLock, StartsAfresh, HoldsLock
  <2>9. ReadersMatchConnections' /\ ResetsItsOwn'
    BY <1>1, <2>3, <2>6 DEF ReadersMatchConnections, ResetsItsOwn
  <2>10. OpenedInOrder'
    <3>1. ASSUME NEW k \in Conns
          PROVE  (conns'[k].state = "unused") = (conns[k].state = "unused")
      <4>1. CASE k = listen_conn
        <5>1. k # 0
          BY DEF Conns
        <5>2. QED
          BY <2>6, <4>1, <5>1 DEF NotifierInv, OpenedInOrder
      <4>2. CASE k # listen_conn
        BY <2>6, <4>2
      <4>3. QED
        BY <4>1, <4>2
    <3>2. listen_conn # 0 => conns'[listen_conn].state # "unused"
      BY <2>6
    <3>3. QED
      BY <1>1, <3>1, <3>2 DEF NotifierInv, OpenedInOrder
  <2>11. NotifiedAreCaptured'
    BY <1>1, <2>2, <2>6, EmptySeq DEF NotifierInv, NotifiedAreCaptured, Captured
  <2>12. OnceInOrder'
    BY <1>1, <2>1, <2>2, <2>4, <2>5, <2>6 DEF NotifierInv, OnceInOrder, Coming
  <2>13. QED
    BY <2>2, <2>7, <2>8, <2>9, <2>10, <2>11, <2>12 DEF NotifierInv
<1>4. QED
  BY <1>2, <1>3

(* The lock's holder connects: its connection is new and still silent.     *)
LEMMA ConnectKeepsInv ==
    ASSUME NotifierInv, NEW s \in Streams, NEW k \in Conns, Connect(s, k)
    PROVE  NotifierInv'
<1>1. /\ UNCHANGED <<rows, owed, task, reader_task>>
      /\ stream[s].pc = "connecting" /\ StreamMoves(s, "listening")
      /\ conns[k].state = "unused" /\ \A j \in 1 .. k - 1 : conns[j].state # "unused"
      /\ listen_conn' = k /\ conns' = [conns EXCEPT ![k].state = "open"]
  BY DEF Connect, captureVars
<1>2. /\ stream' \in [Streams -> Stream]
      /\ \A t \in Streams \ {s} : stream'[t] = stream[t]
      /\ stream'[s].pc = "listening"
      /\ EmptyUntilRegistered'
      /\ \A t \in Streams : stream'[t].queue \in Seq(Captured)'
      /\ SkipsOnlyDeleted'
  BY <1>1, StreamMovesOn
<1>3. \A j \in Conns : task[j] \notin {"running", "crashed"}
  BY <1>1 DEF NotifierInv, NoReaderUnderLock, HoldsLock
<1>4. \A j \in Conns : conns[j].state # "listening" /\ conns[j].channel = <<>>
  BY <1>3, QuietWithoutReader
<1>5. /\ conns \in [Conns -> Conn] /\ k # 0 /\ k \in 0 .. MaxConns
      /\ listen_conn # 0 => listen_conn \in Conns
  BY StreamAssumption DEF NotifierInv, NotifierTypeOK, Conns
<1>6. /\ conns' \in [Conns -> Conn]
      /\ \A j \in Conns : conns'[j].state # "listening" /\ conns'[j].channel = <<>>
      /\ \A j \in Conns \ {k} : conns'[j] = conns[j]
      /\ conns'[k].state = "open"
  BY <1>1, <1>4, <1>5 DEF Conn
<1>7. NotifierTypeOK'
  BY <1>1, <1>2, <1>5, <1>6 DEF NotifierInv, NotifierTypeOK
<1>8. OneHolder' /\ NoReaderUnderLock' /\ StartsAfresh'
  BY <1>1, <1>2, <1>3, <1>5 DEF NotifierInv, OneHolder, NoReaderUnderLock, StartsAfresh, HoldsLock
<1>9. ReadersMatchConnections' /\ ResetsItsOwn'
  BY <1>1, <1>3, <1>6 DEF ReadersMatchConnections, ResetsItsOwn
<1>10. OpenedInOrder'
  <2>1. ASSUME NEW i \in Conns, NEW j \in Conns, conns'[i].state = "unused", i < j
        PROVE  conns'[j].state = "unused"
    <3>1. i # k /\ i \notin 1 .. k - 1
      BY <1>1, <1>6, <2>1
    <3>2. i > k /\ j # k
      BY <2>1, <3>1 DEF Conns
    <3>3. QED
      BY <1>6, <2>1, <3>1, <3>2 DEF NotifierInv, OpenedInOrder
  <2>2. QED
    BY <1>1, <1>6, <2>1 DEF OpenedInOrder
<1>11. NotifiedAreCaptured'
  BY <1>2, <1>6, EmptySeq DEF NotifiedAreCaptured
<1>12. ASSUME NEW t \in Streams, stream'[t].pc = "waiting"
       PROVE  Coming(t)' = owed'[t]
  <2>1. t # s /\ stream'[t] = stream[t] /\ owed'[t] = owed[t] /\ owed[t] = Coming(t)
    BY <1>1, <1>2, <1>12 DEF NotifierInv, OnceInOrder
  <2>2. Coming(t) = stream[t].taken \o stream[t].queue \o <<>>
    BY <1>4, <1>5 DEF Coming
  <2>3. Coming(t)' = stream'[t].taken \o stream'[t].queue \o <<>>
    BY <1>1, <1>5, <1>6 DEF Coming
  <2>4. QED
    BY <2>1, <2>2, <2>3
<1>13. QED
  BY <1>2, <1>7, <1>8, <1>9, <1>10, <1>11, <1>12 DEF NotifierInv, OnceInOrder

(* The end of start(): the connection listens, has a reader, and the lock  *)
(* is free.                                                                *)
LEMMA ListenKeepsInv ==
    ASSUME NotifierInv, NEW s \in Streams, Listen(s)
    PROVE  NotifierInv'
<1>1. /\ UNCHANGED <<rows, listen_conn>> /\ reader_task' = listen_conn
      /\ stream[s].pc = "listening" /\ Register(s, listen_conn)
      /\ conns[listen_conn].state = "open"
      /\ conns' = [conns EXCEPT ![listen_conn].state = "listening"]
      /\ task' = [task EXCEPT ![listen_conn] = "running"]
  BY DEF Listen, captureVars
<1>2. /\ listen_conn \in Conns /\ conns \in [Conns -> Conn]
      /\ task \in [Conns -> {"none", "running", "crashed", "done"}]
  BY <1>1, StreamAssumption DEF NotifierInv, NotifierTypeOK, StartsAfresh, Conns
<1>3. /\ conns' \in [Conns -> Conn]
      /\ \A j \in Conns \ {listen_conn} : conns'[j] = conns[j] /\ task'[j] = task[j]
      /\ conns'[listen_conn].state = "listening" /\ task'[listen_conn] = "running"
      /\ conns'[listen_conn].channel = conns[listen_conn].channel
      /\ task' \in [Conns -> {"none", "running", "crashed", "done"}]
  BY <1>1, <1>2 DEF Conn
<1>4. /\ stream' \in [Streams -> Stream] /\ owed' \in [Streams -> Seq(Requests)]
      /\ \A t \in Streams \ {s} : stream'[t] = stream[t]
      /\ stream'[s].pc = "waiting"
      /\ EmptyUntilRegistered'
      /\ \A t \in Streams : stream'[t].queue \in Seq(Captured)'
      /\ SkipsOnlyDeleted'
      /\ OnceInOrder'
  BY <1>1, <1>2, <1>3, StreamRegisters
<1>5. \A j \in Conns : task[j] \notin {"running", "crashed"}
  BY <1>1 DEF NotifierInv, NoReaderUnderLock, HoldsLock
<1>6. \A t \in Streams : ~HoldsLock(t)'
  BY <1>1, <1>4 DEF NotifierInv, OneHolder, HoldsLock
<1>7. NotifierTypeOK'
  BY <1>1, <1>3, <1>4 DEF NotifierInv, NotifierTypeOK
<1>8. OneHolder' /\ NoReaderUnderLock' /\ StartsAfresh'
  BY <1>6 DEF OneHolder, NoReaderUnderLock, StartsAfresh, HoldsLock
<1>9. ReadersMatchConnections' /\ ResetsItsOwn'
  BY <1>1, <1>3, <1>5 DEF NotifierInv, ReadersMatchConnections, ResetsItsOwn
<1>10. OpenedInOrder'
  BY <1>1, <1>2, <1>3 DEF NotifierInv, OpenedInOrder
<1>11. NotifiedAreCaptured'
  BY <1>1, <1>2, <1>3, <1>4 DEF NotifierInv, NotifiedAreCaptured, Captured
<1>12. QED
  BY <1>4, <1>7, <1>8, <1>9, <1>10, <1>11 DEF NotifierInv

(* A stream that ends with nothing registered frees the lock it held.      *)
LEMMA StartFailsKeepsInv ==
    ASSUME NotifierInv, NEW s \in Streams, StartFails(s)
    PROVE  NotifierInv'
<1>1. /\ UNCHANGED <<rows, listen_conn, reader_task, conns, task, owed>>
      /\ stream[s].pc \in {"connecting", "listening"}
      /\ stream' = [stream EXCEPT ![s] = ClosedStream]
  BY DEF StartFails
<1>2. /\ stream' \in [Streams -> Stream]
      /\ \A t \in Streams \ {s} : stream'[t] = stream[t]
      /\ stream'[s] = ClosedStream
  BY <1>1, EmptySeq DEF NotifierInv, NotifierTypeOK, Stream, ClosedStream
<1>3. NotifierTypeOK'
  BY <1>1, <1>2 DEF NotifierInv, NotifierTypeOK
<1>4. OneHolder' /\ NoReaderUnderLock' /\ StartsAfresh' /\ EmptyUntilRegistered'
        /\ SkipsOnlyDeleted'
  BY <1>1, <1>2 DEF NotifierInv, OneHolder, NoReaderUnderLock, StartsAfresh, HoldsLock,
                    EmptyUntilRegistered, SkipsOnlyDeleted, ClosedStream
<1>5. ReadersMatchConnections' /\ OpenedInOrder' /\ ResetsItsOwn'
  BY <1>1 DEF NotifierInv, ReadersMatchConnections, OpenedInOrder, ResetsItsOwn
<1>6. NotifiedAreCaptured'
  BY <1>1, <1>2, EmptySeq DEF NotifierInv, NotifiedAreCaptured, Captured, ClosedStream
<1>7. OnceInOrder'
  BY <1>1, <1>2 DEF NotifierInv, OnceInOrder, Coming, ClosedStream
<1>8. QED
  BY <1>3, <1>4, <1>5, <1>6, <1>7 DEF NotifierInv

(* A browser that leaves takes its queue along, and is owed nothing.       *)
LEMMA CloseStreamKeepsInv ==
    ASSUME NotifierInv, NEW s \in Streams, CloseStream(s)
    PROVE  NotifierInv'
<1>1. /\ UNCHANGED <<rows, listen_conn, reader_task, conns, task>>
      /\ stream' = [stream EXCEPT ![s] = ClosedStream]
      /\ owed' = [owed EXCEPT ![s] = <<>>]
  BY DEF CloseStream, captureVars
<1>2. /\ stream' \in [Streams -> Stream]
      /\ \A t \in Streams \ {s} : stream'[t] = stream[t] /\ owed'[t] = owed[t]
      /\ stream'[s] = ClosedStream
      /\ owed' \in [Streams -> Seq(Requests)]
  BY <1>1, EmptySeq DEF NotifierInv, NotifierTypeOK, Stream, ClosedStream
<1>3. NotifierTypeOK'
  BY <1>1, <1>2 DEF NotifierInv, NotifierTypeOK
<1>4. OneHolder' /\ NoReaderUnderLock' /\ StartsAfresh' /\ EmptyUntilRegistered'
        /\ SkipsOnlyDeleted'
  BY <1>1, <1>2 DEF NotifierInv, OneHolder, NoReaderUnderLock, StartsAfresh, HoldsLock,
                    EmptyUntilRegistered, SkipsOnlyDeleted, ClosedStream
<1>5. ReadersMatchConnections' /\ OpenedInOrder' /\ ResetsItsOwn'
  BY <1>1 DEF NotifierInv, ReadersMatchConnections, OpenedInOrder, ResetsItsOwn
<1>6. NotifiedAreCaptured'
  BY <1>1, <1>2, EmptySeq DEF NotifierInv, NotifiedAreCaptured, Captured, ClosedStream
<1>7. OnceInOrder'
  BY <1>1, <1>2 DEF NotifierInv, OnceInOrder, Coming, ClosedStream
<1>8. QED
  BY <1>3, <1>4, <1>5, <1>6, <1>7 DEF NotifierInv

(* What is taken was queued before; a row it does not find was captured,   *)
(* so it has been deleted.                                                 *)
LEMMA ReceiveKeepsInv ==
    ASSUME NotifierInv, CaptureTypeOK, NEW s \in Streams, Receive(s)
    PROVE  NotifierInv'
<1> DEFINE r == Head(stream[s].queue)
           skipped == IF rows[r].request = "stored" THEN stream[s].skipped
                      ELSE stream[s].skipped \cup {r}
<1>1. /\ UNCHANGED <<rows, listen_conn, reader_task, conns, task, owed>>
      /\ stream[s].pc = "waiting" /\ stream[s].queue # <<>>
      /\ stream \in [Streams -> Stream] /\ stream[s] \in Stream
  BY DEF Receive, captureVars, NotifierInv, NotifierTypeOK
<1>2. /\ stream[s].queue \in Seq(Requests) /\ stream[s].taken \in Seq(Requests)
      /\ stream[s].skipped \subseteq Requests
      /\ stream[s].queue \in Seq(Captured)
  BY <1>1 DEF Stream, NotifierInv, NotifiedAreCaptured
<1>3. /\ r \in Captured /\ Tail(stream[s].queue) \in Seq(Captured)
      /\ Tail(stream[s].queue) \in Seq(Requests)
  BY <1>1, <1>2, HeadTailProperties
<1>4. r \in Requests /\ rows[r].request \in {"stored", "deleted"}
  BY <1>3 DEF Captured, CaptureTypeOK, Row
<1>5. Append(stream[s].taken, r) \in Seq(Requests)
  BY <1>2, <1>4, AppendProperties
<1>6. stream' = [stream EXCEPT ![s] = [stream[s] EXCEPT
                    !.queue = Tail(stream[s].queue), !.taken = Append(stream[s].taken, r),
                    !.skipped = skipped]]
  BY <1>1 DEF Receive
<1>7. /\ stream'[s].pc = "waiting" /\ stream'[s].queue = Tail(stream[s].queue)
      /\ stream'[s].taken = Append(stream[s].taken, r)
      /\ stream'[s].skipped = skipped
      /\ \A t \in Streams \ {s} : stream'[t] = stream[t]
  BY <1>1, <1>6 DEF Stream
<1>8. stream' \in [Streams -> Stream]
  <2>1. skipped \subseteq Requests
    BY <1>2, <1>4
  <2>2. [stream[s] EXCEPT !.queue = Tail(stream[s].queue),
                          !.taken = Append(stream[s].taken, r), !.skipped = skipped] \in Stream
    BY <1>1, <1>3, <1>5, <2>1 DEF Stream
  <2>3. QED
    BY <1>1, <1>6, <2>2
<1> HIDE DEF r, skipped
<1>9. NotifierTypeOK'
  BY <1>1, <1>8 DEF NotifierInv, NotifierTypeOK
<1>10. OneHolder' /\ NoReaderUnderLock' /\ StartsAfresh' /\ EmptyUntilRegistered'
  BY <1>1, <1>7 DEF NotifierInv, OneHolder, NoReaderUnderLock, StartsAfresh, HoldsLock,
                    EmptyUntilRegistered
<1>11. ReadersMatchConnections' /\ OpenedInOrder' /\ ResetsItsOwn'
  BY <1>1 DEF NotifierInv, ReadersMatchConnections, OpenedInOrder, ResetsItsOwn
<1>12. NotifiedAreCaptured'
  BY <1>1, <1>3, <1>7 DEF NotifierInv, NotifiedAreCaptured, Captured
<1>13. SkipsOnlyDeleted'
  BY <1>1, <1>4, <1>7 DEF NotifierInv, SkipsOnlyDeleted, skipped
<1>14. OnceInOrder'
  <2>1. stream'[s].taken \o stream'[s].queue = stream[s].taken \o stream[s].queue
    BY <1>1, <1>2, <1>7, MoveHead DEF r
  <2>2. QED
    BY <1>1, <1>7, <2>1 DEF NotifierInv, OnceInOrder, Coming
<1>15. QED
  BY <1>9, <1>10, <1>11, <1>12, <1>13, <1>14 DEF NotifierInv

(* The one reader reads the connection the notifier keeps: what leaves its *)
(* channel enters the queue of every stream that is owed it.               *)
LEMMA ReadLoopKeepsInv ==
    ASSUME NotifierInv, NEW k \in Conns, ReadLoop(k)
    PROVE  NotifierInv'
<1> DEFINE r == Head(conns[k].channel)
<1>1. /\ UNCHANGED <<rows, listen_conn, reader_task, task, owed>>
      /\ task[k] = "running" /\ conns[k].channel # <<>>
      /\ conns' = [conns EXCEPT ![k].channel = Tail(@)]
      /\ stream' = [s \in Streams |->
                      IF stream[s].pc = "waiting"
                      THEN [stream[s] EXCEPT !.queue = Append(@, r)] ELSE stream[s]]
      /\ stream \in [Streams -> Stream] /\ conns \in [Conns -> Conn]
  BY DEF ReadLoop, captureVars, NotifierInv, NotifierTypeOK
<1>2. /\ listen_conn = k /\ k # 0
      /\ conns[k].state = "listening"
  BY <1>1, StreamAssumption DEF NotifierInv, ResetsItsOwn, ReadersMatchConnections, Conns
<1>3. /\ conns[k].channel \in Seq(Requests) /\ conns[k].channel \in Seq(Captured)
  BY <1>1 DEF Conn, NotifierInv, NotifiedAreCaptured
<1>4. /\ r \in Captured /\ r \in Requests
      /\ Tail(conns[k].channel) \in Seq(Captured) /\ Tail(conns[k].channel) \in Seq(Requests)
  BY <1>1, <1>3, HeadTailProperties DEF Captured
<1>5. /\ conns' \in [Conns -> Conn]
      /\ conns'[k].state = "listening" /\ conns'[k].channel = Tail(conns[k].channel)
      /\ \A j \in Conns \ {k} : conns'[j] = conns[j]
  BY <1>1, <1>2, <1>4 DEF Conn
<1>6. ASSUME NEW s \in Streams
      PROVE  /\ stream'[s] \in Stream
             /\ stream'[s].pc = stream[s].pc /\ stream'[s].taken = stream[s].taken
             /\ stream'[s].skipped = stream[s].skipped
             /\ stream'[s].queue = IF stream[s].pc = "waiting" THEN Append(stream[s].queue, r)
                                   ELSE stream[s].queue
  <2>1. stream[s] \in Stream /\ stream[s].queue \in Seq(Requests)
    BY <1>1 DEF Stream
  <2>2. Append(stream[s].queue, r) \in Seq(Requests)
    BY <1>4, <2>1, AppendProperties
  <2> HIDE DEF r
  <2>3. QED
    BY <1>1, <2>1, <2>2 DEF Stream
<1> HIDE DEF r
<1>7. NotifierTypeOK'
  <2>1. stream' \in [Streams -> Stream]
    BY <1>1, <1>6
  <2>2. QED
    BY <1>1, <1>5, <2>1 DEF NotifierInv, NotifierTypeOK
<1>8. OneHolder' /\ NoReaderUnderLock' /\ EmptyUntilRegistered' /\ SkipsOnlyDeleted'
  BY <1>1, <1>6 DEF NotifierInv, OneHolder, NoReaderUnderLock, HoldsLock, EmptyUntilRegistered,
                    SkipsOnlyDeleted
<1>9. StartsAfresh'
  BY <1>1, <1>2, <1>5, <1>6 DEF NotifierInv, StartsAfresh
<1>10. ReadersMatchConnections' /\ OpenedInOrder' /\ ResetsItsOwn'
  BY <1>1, <1>2, <1>5 DEF NotifierInv, ReadersMatchConnections, OpenedInOrder, ResetsItsOwn
<1>11. NotifiedAreCaptured'
  <2>1. \A s \in Streams : stream[s].queue \in Seq(Captured)
    BY DEF NotifierInv, NotifiedAreCaptured
  <2>2. \A s \in Streams : Append(stream[s].queue, r) \in Seq(Captured)
    BY <1>4, <2>1, AppendProperties
  <2>3. QED
    BY <1>1, <1>4, <1>5, <1>6, <2>1, <2>2 DEF NotifierInv, NotifiedAreCaptured, Captured
<1>12. ASSUME NEW s \in Streams, stream'[s].pc = "waiting"
       PROVE  Coming(s)' = owed'[s]
  <2> DEFINE a == stream[s].taken
             b == stream[s].queue
             c == conns[k].channel
  <2>1. /\ a \in Seq(Requests) /\ b \in Seq(Requests) /\ a \o b \in Seq(Requests)
        /\ stream[s].pc = "waiting"
    BY <1>1, <1>6, <1>12, ConcatProperties DEF Stream
  <2>2. Coming(s) = (a \o b) \o c /\ Coming(s)' = (a \o Append(b, r)) \o Tail(c)
    BY <1>1, <1>2, <1>5, <1>6, <2>1 DEF Coming
  <2> HIDE DEF a, b
  <2>3. a \o Append(b, r) = Append(a \o b, r)
    BY <1>4, <2>1, AppendToLast
  <2>4. Append(a \o b, r) \o Tail(c) = (a \o b) \o c
    BY <1>1, <1>3, <2>1, MoveHead DEF r
  <2>5. QED
    BY <1>1, <2>1, <2>2, <2>3, <2>4 DEF NotifierInv, OnceInOrder, a, b
<1>13. QED
  BY <1>7, <1>8, <1>9, <1>10, <1>11, <1>12 DEF NotifierInv, OnceInOrder

(* A connection that is lost takes along what it had not delivered, and    *)
(* nothing else.                                                           *)
LEMMA ConnectionLostKeepsInv ==
    ASSUME NotifierInv, NEW k \in Conns, ConnectionLost(k)
    PROVE  NotifierInv'
<1>1. /\ UNCHANGED <<rows, listen_conn, reader_task, task, stream>>
      /\ conns[k].state \in {"open", "listening"}
      /\ conns' = [conns EXCEPT ![k] = [state |-> "lost", channel |-> <<>>]]
      /\ owed' = [s \in Streams |-> IF stream[s].pc = "waiting" /\ k = listen_conn
                                    THEN SubSeq(owed[s], 1, Len(owed[s]) - Len(conns[k].channel))
                                    ELSE owed[s]]
      /\ conns \in [Conns -> Conn] /\ stream \in [Streams -> Stream]
      /\ owed \in [Streams -> Seq(Requests)] /\ k # 0
  BY StreamAssumption DEF ConnectionLost, NotifierInv, NotifierTypeOK, Conns
<1>2. /\ conns' \in [Conns -> Conn]
      /\ conns'[k].state = "lost" /\ conns'[k].channel = <<>>
      /\ \A j \in Conns \ {k} : conns'[j] = conns[j]
  <2>1. [state |-> "lost", channel |-> <<>>] \in Conn
    BY EmptySeq DEF Conn
  <2>2. QED
    BY <1>1, <2>1
<1>3. ASSUME NEW s \in Streams, stream[s].pc = "waiting", k = listen_conn
      PROVE  /\ owed'[s] = stream[s].taken \o stream[s].queue
             /\ Coming(s)' = stream[s].taken \o stream[s].queue
             /\ stream[s].taken \o stream[s].queue \in Seq(Requests)
  <2> DEFINE ab == stream[s].taken \o stream[s].queue
             c == conns[k].channel
  <2>1. ab \in Seq(Requests) /\ c \in Seq(Requests)
    BY <1>1, ConcatProperties DEF Stream, Conn
  <2>2. owed[s] = ab \o c
    BY <1>1, <1>3 DEF NotifierInv, OnceInOrder, Coming
  <2>3. owed'[s] = SubSeq(ab \o c, 1, Len(ab \o c) - Len(c))
    BY <1>1, <1>3, <2>2
  <2>4. Coming(s)' = ab \o <<>>
    BY <1>1, <1>2, <1>3 DEF Coming
  <2> HIDE DEF ab, c
  <2>5. owed'[s] = ab
    BY <2>1, <2>3, CutLast
  <2>6. Coming(s)' = ab
    BY <2>1, <2>4, ConcatEmptySeq
  <2>7. QED
    BY <2>1, <2>5, <2>6 DEF ab
<1>4. OnceInOrder'
  <2>1. ASSUME NEW s \in Streams, stream[s].pc = "waiting", k # listen_conn
        PROVE  Coming(s)' = owed'[s]
    <3>1. listen_conn # 0 => listen_conn \in Conns
      BY StreamAssumption DEF NotifierInv, NotifierTypeOK, Conns
    <3>2. QED
      BY <1>1, <1>2, <2>1, <3>1 DEF NotifierInv, OnceInOrder, Coming
  <2>2. QED
    BY <1>1, <1>3, <2>1 DEF OnceInOrder
<1>5. NotifierTypeOK'
  <2>1. owed' \in [Streams -> Seq(Requests)]
    BY <1>1, <1>3
  <2>2. QED
    BY <1>1, <1>2, <2>1 DEF NotifierInv, NotifierTypeOK
<1>6. OneHolder' /\ NoReaderUnderLock' /\ EmptyUntilRegistered' /\ SkipsOnlyDeleted'
        /\ ResetsItsOwn'
  BY <1>1 DEF NotifierInv, OneHolder, NoReaderUnderLock, HoldsLock, EmptyUntilRegistered,
              SkipsOnlyDeleted, ResetsItsOwn
<1>7. StartsAfresh'
  <2>1. listen_conn # 0 => listen_conn \in Conns
    BY StreamAssumption DEF NotifierInv, NotifierTypeOK, Conns
  <2>2. QED
    BY <1>1, <1>2, <2>1 DEF NotifierInv, StartsAfresh
<1>8. ReadersMatchConnections'
  BY <1>1, <1>2 DEF NotifierInv, ReadersMatchConnections
<1>9. OpenedInOrder'
  <2>1. listen_conn # 0 => listen_conn \in Conns
    BY StreamAssumption DEF NotifierInv, NotifierTypeOK, Conns
  <2>2. QED
    BY <1>1, <1>2, <2>1 DEF NotifierInv, OpenedInOrder
<1>10. NotifiedAreCaptured'
  BY <1>1, <1>2, EmptySeq DEF NotifierInv, NotifiedAreCaptured, Captured
<1>11. QED
  BY <1>4, <1>5, <1>6, <1>7, <1>8, <1>9, <1>10 DEF NotifierInv

(* Only a reader whose connection is gone crashes.                         *)
LEMMA ReaderCrashesKeepsInv ==
    ASSUME NotifierInv, NEW k \in Conns, ReaderCrashes(k)
    PROVE  NotifierInv'
<1>1. /\ UNCHANGED <<rows, listen_conn, reader_task, conns, stream, owed>>
      /\ task[k] = "running" /\ conns[k].state \in {"lost", "closed"}
      /\ task' = [task EXCEPT ![k] = "crashed"]
  BY DEF ReaderCrashes, captureVars
<1>2. /\ task' \in [Conns -> {"none", "running", "crashed", "done"}]
      /\ task'[k] = "crashed" /\ \A j \in Conns \ {k} : task'[j] = task[j]
  BY <1>1 DEF NotifierInv, NotifierTypeOK
<1>3. NotifierTypeOK'
  BY <1>1, <1>2 DEF NotifierInv, NotifierTypeOK
<1>4. OneHolder' /\ NoReaderUnderLock' /\ StartsAfresh' /\ EmptyUntilRegistered'
        /\ SkipsOnlyDeleted' /\ ResetsItsOwn'
  BY <1>1, <1>2 DEF NotifierInv, OneHolder, NoReaderUnderLock, StartsAfresh, HoldsLock,
                    EmptyUntilRegistered, SkipsOnlyDeleted, ResetsItsOwn
<1>5. ReadersMatchConnections' /\ OpenedInOrder'
  BY <1>1, <1>2 DEF NotifierInv, ReadersMatchConnections, OpenedInOrder
<1>6. NotifiedAreCaptured' /\ OnceInOrder'
  BY <1>1 DEF NotifierInv, NotifiedAreCaptured, Captured, OnceInOrder, Coming
<1>7. QED
  BY <1>3, <1>4, <1>5, <1>6 DEF NotifierInv

(* The connection a crashed reader closes is its own, and has nothing to   *)
(* deliver any more.                                                       *)
LEMMA ResetForRecoveryKeepsInv ==
    ASSUME NotifierInv, NEW k \in Conns, ResetForRecovery(k)
    PROVE  NotifierInv'
<1>1. /\ UNCHANGED <<rows, stream, owed>>
      /\ task[k] = "crashed" /\ LockFree
      /\ listen_conn' = 0 /\ reader_task' = 0
      /\ task' = [task EXCEPT ![k] = "done"]
      /\ conns \in [Conns -> Conn] /\ stream \in [Streams -> Stream] /\ k # 0
  BY DEF ResetForRecovery, captureVars, NotifierInv, NotifierTypeOK, Conns
<1>2. /\ listen_conn = k /\ conns[k].state \in {"lost", "closed"} /\ conns[k].channel = <<>>
      /\ \A j \in Conns : task[j] \in {"running", "crashed"} => j = k
  BY <1>1 DEF NotifierInv, ResetsItsOwn, ReadersMatchConnections
<1>3. conns' = [conns EXCEPT ![k] = [state |-> "closed", channel |-> <<>>]]
  BY <1>1, <1>2 DEF ResetForRecovery
<1>4. /\ conns' \in [Conns -> Conn]
      /\ conns'[k].state = "closed" /\ conns'[k].channel = <<>>
      /\ \A j \in Conns \ {k} : conns'[j] = conns[j]
  <2>1. [state |-> "closed", channel |-> <<>>] \in Conn
    BY EmptySeq DEF Conn
  <2>2. QED
    BY <1>1, <1>3, <2>1
<1>5. /\ task' \in [Conns -> {"none", "running", "crashed", "done"}]
      /\ task'[k] = "done" /\ \A j \in Conns \ {k} : task'[j] = task[j]
  BY <1>1 DEF NotifierInv, NotifierTypeOK
<1>6. NotifierTypeOK'
  BY <1>1, <1>4, <1>5, StreamAssumption DEF NotifierInv, NotifierTypeOK
<1>7. OneHolder' /\ NoReaderUnderLock' /\ StartsAfresh' /\ EmptyUntilRegistered'
        /\ SkipsOnlyDeleted'
  BY <1>1 DEF NotifierInv, OneHolder, NoReaderUnderLock, StartsAfresh, HoldsLock, LockFree,
              EmptyUntilRegistered, SkipsOnlyDeleted
<1>8. ReadersMatchConnections' /\ ResetsItsOwn'
  BY <1>2, <1>4, <1>5 DEF NotifierInv, ReadersMatchConnections, ResetsItsOwn
<1>9. OpenedInOrder'
  BY <1>1, <1>2, <1>4 DEF NotifierInv, OpenedInOrder
<1>10. NotifiedAreCaptured'
  BY <1>1, <1>4, EmptySeq DEF NotifierInv, NotifiedAreCaptured, Captured
<1>11. OnceInOrder'
  BY <1>1, <1>2 DEF NotifierInv, OnceInOrder, Coming
<1>12. QED
  BY <1>6, <1>7, <1>8, <1>9, <1>10, <1>11 DEF NotifierInv

(* A restart leaves no stream, no reader and no connection but the new.    *)
LEMMA RestartWebKeepsInv ==
    ASSUME NotifierInv, NEW k \in Conns, RestartWeb(k)
    PROVE  NotifierInv'
<1>1. /\ UNCHANGED rows
      /\ conns[k].state = "unused" /\ \A j \in 1 .. k - 1 : conns[j].state # "unused"
      /\ conns' = [j \in Conns |-> IF j < k THEN [state |-> "closed", channel |-> <<>>]
                                 ELSE IF j = k THEN [state |-> "listening", channel |-> <<>>]
                                 ELSE conns[j]]
      /\ task' = [j \in Conns |-> IF j = k THEN "running"
                                ELSE IF task[j] = "none" THEN "none" ELSE "done"]
      /\ listen_conn' = k /\ reader_task' = k
      /\ stream' = [s \in Streams |-> ClosedStream]
      /\ owed' = [s \in Streams |-> <<>>]
      /\ conns \in [Conns -> Conn]
      /\ k \in 1 .. MaxConns /\ k # 0 /\ k \in 0 .. MaxConns
  BY StreamAssumption DEF RestartWeb, NotifierInv, NotifierTypeOK, Conns
<1>2. ASSUME NEW j \in Conns
      PROVE  /\ conns'[j].channel = <<>>
             /\ j < k => conns'[j].state = "closed"
             /\ j = k => conns'[j].state = "listening"
             /\ j > k => conns'[j].state = "unused"
  <2>1. j > k => (conns[j].state = "unused" /\ conns[j].channel = <<>> /\ conns'[j] = conns[j])
    BY <1>1 DEF NotifierInv, OpenedInOrder, ReadersMatchConnections, Conns
  <2>2. QED
    BY <1>1, <2>1 DEF Conns
<1>3. NotifierTypeOK'
  <2>1. /\ [state |-> "closed", channel |-> <<>>] \in Conn
        /\ [state |-> "listening", channel |-> <<>>] \in Conn
        /\ ClosedStream \in Stream /\ <<>> \in Seq(Requests)
    BY EmptySeq DEF Conn, Stream, ClosedStream
  <2>2. conns' \in [Conns -> Conn]
    BY <1>1, <2>1
  <2>3. QED
    BY <1>1, <2>1, <2>2 DEF NotifierTypeOK
<1>4. /\ OneHolder' /\ NoReaderUnderLock' /\ StartsAfresh' /\ EmptyUntilRegistered'
      /\ SkipsOnlyDeleted' /\ OnceInOrder'
  BY <1>1 DEF OneHolder, NoReaderUnderLock, StartsAfresh, HoldsLock, EmptyUntilRegistered,
              SkipsOnlyDeleted, OnceInOrder, ClosedStream
<1>5. ReadersMatchConnections' /\ ResetsItsOwn'
  BY <1>1, <1>2 DEF ReadersMatchConnections, ResetsItsOwn, Conns
<1>6. OpenedInOrder'
  BY <1>1, <1>2 DEF OpenedInOrder, Conns
<1>7. NotifiedAreCaptured'
  BY <1>1, <1>2, EmptySeq DEF NotifiedAreCaptured, ClosedStream
<1>8. QED
  BY <1>3, <1>4, <1>5, <1>6, <1>7 DEF NotifierInv

(* A commit and its notification: one more for every stream that waits,    *)
(* and one more on the connection that is to bring it.                     *)
LEMMA NotifyKeepsInv ==
    ASSUME NotifierInv, CaptureInv, NEW r \in Requests, CommitCapture(r), Notify(r)
    PROVE  NotifierInv'
<1>1. /\ UNCHANGED <<listen_conn, reader_task, task, stream>>
      /\ conns' = [k \in Conns |-> IF conns[k].state = "listening"
                                   THEN [conns[k] EXCEPT !.channel = Append(@, r)] ELSE conns[k]]
      /\ owed' = [s \in Streams |-> IF stream[s].pc = "waiting"
                                       /\ listen_conn # 0 /\ conns[listen_conn].state = "listening"
                                    THEN Append(owed[s], r) ELSE owed[s]]
      /\ conns \in [Conns -> Conn] /\ stream \in [Streams -> Stream]
      /\ owed \in [Streams -> Seq(Requests)]
      /\ listen_conn # 0 => listen_conn \in Conns
  BY StreamAssumption DEF Notify, NotifierInv, NotifierTypeOK, Conns
<1>2. /\ Captured \subseteq Captured' /\ r \in Captured'
      /\ \A q \in Requests : rows[q].request = "deleted" => rows'[q].request = "deleted"
  <2>1. rows'[r].request = "stored"
    BY DEF CommitCapture, CaptureInv, CaptureTypeOK
  <2>2. QED
    BY <2>1, RowsMoveOn DEF Captured
<1>3. ASSUME NEW k \in Conns
      PROVE  /\ conns'[k] \in Conn /\ conns'[k].state = conns[k].state
             /\ conns'[k].channel = IF conns[k].state = "listening"
                                    THEN Append(conns[k].channel, r) ELSE conns[k].channel
  <2>1. conns[k] \in Conn /\ Append(conns[k].channel, r) \in Seq(Requests)
    BY <1>1, AppendProperties DEF Conn
  <2>2. QED
    BY <1>1, <2>1 DEF Conn
<1>4. NotifierTypeOK'
  <2>1. conns' \in [Conns -> Conn]
    BY <1>1, <1>3
  <2>2. owed' \in [Streams -> Seq(Requests)]
    BY <1>1, AppendProperties
  <2>3. QED
    BY <1>1, <2>1, <2>2 DEF NotifierInv, NotifierTypeOK
<1>5. /\ OneHolder' /\ NoReaderUnderLock' /\ EmptyUntilRegistered' /\ ResetsItsOwn'
      /\ StartsAfresh' /\ OpenedInOrder'
  BY <1>1, <1>3 DEF NotifierInv, OneHolder, NoReaderUnderLock, HoldsLock, EmptyUntilRegistered,
                    ResetsItsOwn, StartsAfresh, OpenedInOrder
<1>6. ReadersMatchConnections'
  BY <1>1, <1>3 DEF NotifierInv, ReadersMatchConnections
<1>7. SkipsOnlyDeleted'
  BY <1>1, <1>2 DEF NotifierInv, SkipsOnlyDeleted, Stream
<1>8. NotifiedAreCaptured'
  <2>1. \A k \in Conns : conns[k].channel \in Seq(Captured')
    BY <1>2, SeqMonotonic DEF NotifierInv, NotifiedAreCaptured
  <2>2. \A s \in Streams : stream[s].queue \in Seq(Captured')
    BY <1>2, SeqMonotonic DEF NotifierInv, NotifiedAreCaptured
  <2>3. \A k \in Conns : Append(conns[k].channel, r) \in Seq(Captured')
    BY <1>2, <2>1, AppendProperties
  <2>4. QED
    BY <1>1, <1>3, <2>1, <2>2, <2>3 DEF NotifiedAreCaptured
<1>9. ASSUME NEW s \in Streams, stream[s].pc = "waiting"
      PROVE  Coming(s)' = owed'[s]
  <2> DEFINE ab == stream[s].taken \o stream[s].queue
  <2>1. ab \in Seq(Requests) /\ Coming(s) = owed[s]
    BY <1>1, <1>9, ConcatProperties DEF Stream, NotifierInv, OnceInOrder
  <2>2. CASE listen_conn # 0 /\ conns[listen_conn].state = "listening"
    <3> DEFINE c == conns[listen_conn].channel
    <3>1. c \in Seq(Requests)
      BY <1>1, <2>2 DEF Conn
    <3>2. Coming(s) = ab \o c /\ Coming(s)' = ab \o Append(c, r)
      BY <1>1, <1>3, <2>2 DEF Coming
    <3>3. owed'[s] = Append(owed[s], r)
      BY <1>1, <1>9, <2>2
    <3> HIDE DEF ab, c
    <3>4. ab \o Append(c, r) = Append(ab \o c, r)
      BY <2>1, <3>1, AppendToLast
    <3>5. QED
      BY <2>1, <3>2, <3>3, <3>4
  <2>3. CASE ~(listen_conn # 0 /\ conns[listen_conn].state = "listening")
    BY <1>1, <1>3, <2>1, <2>3 DEF Coming
  <2>4. QED
    BY <2>2, <2>3
<1>10. OnceInOrder'
  BY <1>1, <1>9 DEF OnceInOrder
<1>11. QED
  BY <1>4, <1>5, <1>6, <1>7, <1>8, <1>10 DEF NotifierInv

-----------------------------------------------------------------------------
(* The specification.                                                      *)

StreamInv == CaptureInv /\ NotifierInv

(* The lifespan has opened the first connection and started its reader.    *)
LEMMA InitStreams == Init => StreamInv
<1> SUFFICES ASSUME Init PROVE StreamInv
  OBVIOUS
<1>1. CaptureInv
  BY InitCaptures DEF Init
<1>2. ClosedStream \in Stream /\ <<>> \in Seq(Requests) /\ <<>> \in Seq(Captured)
  BY EmptySeq DEF ClosedStream, Stream
<1>3. NotifierTypeOK
  <2>1. \A k \in Conns :
          [state |-> IF k = 1 THEN "listening" ELSE "unused", channel |-> <<>>] \in Conn
    BY <1>2 DEF Conn
  <2>2. conns \in [Conns -> Conn]
    BY <2>1 DEF Init
  <2>3. QED
    BY <1>2, <2>2, StreamAssumption DEF Init, NotifierTypeOK
<1>4. /\ OneHolder /\ NoReaderUnderLock /\ StartsAfresh /\ EmptyUntilRegistered
      /\ SkipsOnlyDeleted /\ OnceInOrder
  BY DEF Init, OneHolder, NoReaderUnderLock, HoldsLock, StartsAfresh, EmptyUntilRegistered,
         SkipsOnlyDeleted, OnceInOrder, ClosedStream
<1>5. ReadersMatchConnections /\ ResetsItsOwn
  BY DEF Init, ReadersMatchConnections, ResetsItsOwn
<1>6. OpenedInOrder
  BY StreamAssumption DEF Init, OpenedInOrder, Conns
<1>7. NotifiedAreCaptured
  BY <1>2 DEF Init, NotifiedAreCaptured, ClosedStream
<1>8. QED
  BY <1>1, <1>3, <1>4, <1>5, <1>6, <1>7 DEF StreamInv, NotifierInv

(* Every step of the ingestor, the cleaner, a stream or a reader.          *)
LEMMA NextKeepsInv == StreamInv /\ [Next]_vars => StreamInv'
<1> SUFFICES ASSUME StreamInv, [Next]_vars PROVE StreamInv'
  OBVIOUS
<1> USE DEF StreamInv
<1>1. CASE \E r \in Requests : NotifyAtCommit(r)
  <2>1. PICK r \in Requests : NotifyAtCommit(r)
    BY <1>1
  <2>2. CASE CaptureStep(r) /\ UNCHANGED notifierVars
    BY <2>2, CaptureStepKeepsInv, RowsMoveOn, NotifierIdle
  <2>3. CASE CommitCapture(r) /\ Notify(r)
    BY <2>3, CommitKeepsInv, NotifyKeepsInv
  <2>4. QED
    BY <2>1, <2>2, <2>3 DEF NotifyAtCommit
<1>2. CASE DeleteExpired /\ UNCHANGED notifierVars
  <2>1. CaptureInv'
    BY <1>2, DeleteKeepsInv
  <2>2. Captured \subseteq Captured'
        /\ \A q \in Requests : rows[q].request = "deleted" => rows'[q].request = "deleted"
    BY <1>2 DEF Captured, DeleteExpired, CaptureInv, CaptureTypeOK, Row
  <2>3. QED
    BY <1>2, <2>1, <2>2, NotifierIdle
<1>3. CASE \E s \in Streams : StreamStep(s)
  <2>1. PICK s \in Streams : StreamStep(s)
    BY <1>3
  <2>2. CaptureInv'
    <3>1. UNCHANGED <<capture, rows, endpoint, blobs>> /\ (Fault \/ UNCHANGED faults)
      BY <2>1 DEF StreamStep, OpenStream, Subscribe, Start, Connect, Listen, StartFails, Receive,
                  CloseStream, captureVars
    <3>2. QED
      BY <3>1, NotifierKeepsInv
  <2>3. NotifierInv'
    BY <2>1, OpenStreamKeepsInv, SubscribeKeepsInv, StartKeepsInv, ConnectKeepsInv,
       ListenKeepsInv, StartFailsKeepsInv, ReceiveKeepsInv, CloseStreamKeepsInv
       DEF StreamStep, CaptureInv
  <2>4. QED
    BY <2>2, <2>3
<1>4. CASE \E k \in Conns : ReaderStep(k)
  <2>1. PICK k \in Conns : ReaderStep(k)
    BY <1>4
  <2>2. CaptureInv'
    <3>1. UNCHANGED <<capture, rows, endpoint, blobs>> /\ (Fault \/ UNCHANGED faults)
      BY <2>1 DEF ReaderStep, ReadLoop, ConnectionLost, ReaderCrashes, ResetForRecovery,
                  RestartWeb, captureVars
    <3>2. QED
      BY <3>1, NotifierKeepsInv
  <2>3. NotifierInv'
    BY <2>1, ReadLoopKeepsInv, ConnectionLostKeepsInv, ReaderCrashesKeepsInv,
       ResetForRecoveryKeepsInv, RestartWebKeepsInv DEF ReaderStep
  <2>4. QED
    BY <2>2, <2>3
<1>5. CASE UNCHANGED vars
  <2>1. UNCHANGED captureVars /\ UNCHANGED notifierVars
    BY <1>5 DEF vars
  <2>2. CaptureInv'
    BY <2>1, NotifierKeepsInv DEF captureVars
  <2>3. Captured' = Captured /\ rows' = rows
    BY <2>1 DEF captureVars, Captured
  <2>4. QED
    BY <2>1, <2>2, <2>3, NotifierIdle
<1>6. QED
  BY <1>1, <1>2, <1>3, <1>4, <1>5 DEF Next

(* The inductive invariant, of the captures and the notifier together.     *)
THEOREM StreamInvariant == Spec => []StreamInv
<1>1. QED
  BY InitStreams, NextKeepsInv, PTL DEF Spec

(* The state the captures and the notifier keep has its type, in every     *)
(* reachable state.                                                        *)
THEOREM StreamsWellTyped == Spec => []TypeOK
<1>1. StreamInv => TypeOK
  BY DEF StreamInv, CaptureInv, NotifierInv, NotifierTypeOK, TypeOK
<1>2. QED
  BY <1>1, StreamInvariant, PTL

(* A failed forward insert is swallowed, and still no request is stored    *)
(* without its forward (capture_request.py:158-178).                       *)
THEOREM CapturesAreWhole == Spec => []WholeOrAbsent
<1>1. StreamInv => WholeOrAbsent
  BY DEF StreamInv, CaptureInv
<1>2. QED
  BY <1>1, StreamInvariant, PTL

(* A stored blob_key leads to a blob, whatever failed in between           *)
(* (capture_request.py:132-155).                                           *)
THEOREM BlobsBackRows == Spec => []BlobBacksRow
<1>1. StreamInv => BlobBacksRow
  BY DEF StreamInv, CaptureInv
<1>2. QED
  BY <1>1, StreamInvariant, PTL

(* Any number of concurrent captures, failures and rollbacks: the count on *)
(* the endpoint's row is that of the rows (endpoint_repository.py:79-85).  *)
THEOREM NoCountIsLost == Spec => []CountIsExact
<1>1. StreamInv => CountIsExact
  BY DEF StreamInv, CaptureInv
<1>2. QED
  BY <1>1, StreamInvariant, PTL

(* No stream loses, repeats or reorders what was committed while it        *)
(* waited, through every crash, reconnection and restart of the reader     *)
(* (postgres_notifier.py:34-103).                                          *)
THEOREM StreamsInOrder == Spec => []OnceInOrder
<1>1. StreamInv => OnceInOrder
  BY DEF StreamInv, NotifierInv
<1>2. QED
  BY <1>1, StreamInvariant, PTL

(* What a stream does not find has been deleted: no notification overtakes *)
(* its commit (sse.py:61-64).                                              *)
THEOREM StreamsSkipOnlyDeleted == Spec => []SkipsOnlyDeleted
<1>1. StreamInv => SkipsOnlyDeleted
  BY DEF StreamInv, NotifierInv
<1>2. QED
  BY <1>1, StreamInvariant, PTL

(* The recovery of a crashed reader never closes a connection that         *)
(* replaced its own (postgres_notifier.py:96-103).                         *)
THEOREM RecoveryIsItsOwn == Spec => []ResetsItsOwn
<1>1. StreamInv => ResetsItsOwn
  BY DEF StreamInv, NotifierInv
<1>2. QED
  BY <1>1, StreamInvariant, PTL
==============================================================================
