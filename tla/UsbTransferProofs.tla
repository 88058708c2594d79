------------------------- MODULE UsbTransferProofs -------------------------
(***************************************************************************)
(* Proofs about UsbTransfer, for any set of transfers, any lengths and any *)
(* chunk size: the queue itself, and what the client is told.  The         *)
(* outcomes of transfers are true and final, they are answered in order,   *)
(* and the queue implements UsbDeviceProtocol.                             *)
(***************************************************************************)
EXTENDS UsbTransfer, FiniteSetTheorems, TLAPS

USE DEF LockFree, Statuses

-----------------------------------------------------------------------------
(* Sequences as queues: what Tail, Append and SubSeq leave. *)

LEMMA TailFacts ==
  ASSUME NEW S, NEW s \in Seq(S), s # <<>>
  PROVE  /\ Len(s) \in Nat /\ Len(s) > 0
         /\ Head(s) \in S /\ Head(s) = s[1]
         /\ Tail(s) \in Seq(S)
         /\ Len(Tail(s)) = Len(s) - 1
         /\ \A i \in 1..Len(s) - 1 : Tail(s)[i] = s[i + 1]
  OBVIOUS

LEMMA AppendFacts ==
  ASSUME NEW S, NEW s \in Seq(S), NEW e \in S
  PROVE  /\ Append(s, e) \in Seq(S)
         /\ Append(s, e) # <<>>
         /\ Len(Append(s, e)) = Len(s) + 1
         /\ \A i \in 1..Len(s) : Append(s, e)[i] = s[i]
         /\ Append(s, e)[Len(s) + 1] = e
         /\ Head(Append(s, e)) = IF s = <<>> THEN e ELSE Head(s)
  OBVIOUS

LEMMA SubSeqFacts ==
  ASSUME NEW S, NEW s \in Seq(S), NEW k \in 0..1, k <= Len(s)
  PROVE  /\ SubSeq(s, k + 1, Len(s)) \in Seq(S)
         /\ SubSeq(s, 1, k) \in Seq(S)
         /\ Len(SubSeq(s, k + 1, Len(s))) = Len(s) - k
         /\ \A i \in 1..Len(s) - k : SubSeq(s, k + 1, Len(s))[i] = s[i + k]
         /\ Len(SubSeq(s, 1, k)) = k
         /\ k = 1 => SubSeq(s, 1, k) # <<>> /\ Head(SubSeq(s, 1, k)) = Head(s)
         /\ k = 0 => SubSeq(s, 1, k) = <<>>
  OBVIOUS

LEMMA ConcatFacts ==
  ASSUME NEW S, NEW s \in Seq(S), NEW t \in Seq(S)
  PROVE  /\ s \o t \in Seq(S)
         /\ Len(s \o t) = Len(s) + Len(t)
         /\ \A i \in 1..Len(s) : (s \o t)[i] = s[i]
         /\ \A i \in 1..Len(t) : (s \o t)[Len(s) + i] = t[i]
  OBVIOUS

(* A chunk is never more than what is left of the buffer.                  *)
LEMMA ChunkBound ==
  ASSUME NEW length \in Nat, NEW written \in Nat, written <= length
  PROVE  /\ Chunk(length, written) \in Nat
         /\ written + Chunk(length, written) <= length
  BY UsbTransferAssumption DEF UsbTransferAssumption, Chunk

-----------------------------------------------------------------------------
(* The queue's control invariant.  It is inductive only with the fact that *)
(* req_complete's loop runs on an idle queue, and that what is left of the *)
(* buffer bounds the chunk the controller has.                             *)
RestartingIsIdle == restarting => mRequestState = "IDLE"

ChunkFits ==
  /\ \A r \in Requests : bytes_written[r] <= Length[r]
  /\ udc # None => bytes_written[udc] + xfer_len[udc] <= Length[udc]

QueueInv == /\ UsbTypeOK
            /\ CompletionHitsHead
            /\ IdleQueueIsEmpty
            /\ RestartingIsIdle
            /\ ChunkFits

LEMMA QueueInvInit == UsbInit => QueueInv
<1> SUFFICES ASSUME UsbInit PROVE QueueInv
  OBVIOUS
<1> USE UsbTransferAssumption DEF UsbTransferAssumption, UsbInit
<1>1. UsbTypeOK
  <2>1. /\ mRequestQueue \in Seq(Requests)
        /\ mFinishedRequestQueue \in Seq(Requests)
        /\ submitted \in Seq(Requests)
        /\ reports \in Seq(Notifications)
    OBVIOUS
  <2>2. /\ TransferStatus \in [Requests -> Statuses \cup {"unset"}]
        /\ xfer_len \in [Requests -> Nat]
        /\ bytes_written \in [Requests -> Nat]
    OBVIOUS
  <2> QED BY <2>1, <2>2 DEF UsbTypeOK
<1>2. CompletionHitsHead /\ IdleQueueIsEmpty /\ RestartingIsIdle
  BY DEF CompletionHitsHead, IdleQueueIsEmpty, RestartingIsIdle
<1>3. ChunkFits
  BY DEF ChunkFits
<1> QED BY <1>1, <1>2, <1>3 DEF QueueInv

(* What req_queue_request leaves, whatever its caller did before: r heads  *)
(* `queue`, `rest` is `queue` without r, and `written` bytes are done.     *)
LEMMA ReqQueueRequestStep ==
  ASSUME UsbTypeOK, NEW r \in Requests, NEW queue, NEW rest, NEW written,
         NEW ok \in BOOLEAN,
         ReqQueueRequest(r, queue, rest, written, ok),
         written \in Nat, written <= Length[r],
         queue \in Seq(Requests), rest \in Seq(Requests),
         queue # <<>>, Head(queue) = r
  PROVE  /\ xfer_len' \in [Requests -> Nat]
         /\ written + xfer_len'[r] <= Length[r]
         /\ TransferStatus' \in [Requests -> Statuses \cup {"unset"}]
         /\ mRequestQueue' \in Seq(Requests)
         /\ mFinishedRequestQueue' \in Seq(Requests)
         /\ mEventsAvailable' \in BOOLEAN
         /\ \/ /\ ok
               /\ mRequestState' = "TRANSFER"
               /\ mRequestQueue' = queue
               /\ udc' = r
            \/ /\ ~ok
               /\ mRequestState' = "IDLE"
               /\ mRequestQueue' = rest
               /\ udc' = None
<1> USE UsbTransferAssumption DEF UsbTransferAssumption, UsbTypeOK
<1>1. xfer_len' \in [Requests -> Nat] /\ written + xfer_len'[r] <= Length[r]
  <2>1. Length[r] \in Nat
    OBVIOUS
  <2>2. /\ Chunk(Length[r], written) \in Nat
        /\ written + Chunk(Length[r], written) <= Length[r]
    BY <2>1, ChunkBound
  <2> QED BY <2>2 DEF ReqQueueRequest
<1>2. CASE ok
  BY <1>1, <1>2 DEF ReqQueueRequest
<1>3. CASE ~ok
  <2>1. Append(mFinishedRequestQueue, r) \in Seq(Requests)
    BY AppendFacts
  <2> QED BY <1>1, <1>3, <2>1 DEF ReqQueueRequest
<1> QED BY <1>2, <1>3

LEMMA TransferStep ==
  ASSUME QueueInv, NEW r \in Requests, NEW ok \in BOOLEAN, Transfer(r, ok)
  PROVE  QueueInv'
<1> USE UsbTransferAssumption
<1> USE DEF UsbTransferAssumption, QueueInv, deviceVars, reportVars
<1>0. UsbTypeOK /\ LockFree /\ mRequestQueue \in Seq(Requests)
  BY DEF UsbTypeOK, Transfer
<1>1. /\ Append(mRequestQueue, r) \in Seq(Requests)
      /\ Append(submitted, r) \in Seq(Requests)
      /\ Append(mRequestQueue, r) # <<>>
      /\ Head(Append(mRequestQueue, r))
            = IF mRequestQueue = <<>> THEN r ELSE Head(mRequestQueue)
  BY SMTT(40), <1>0, AppendFacts DEF UsbTypeOK
<1>2. submitted' \in Seq(Requests) /\ bytes_written' \in [Requests -> Nat]
  BY <1>0, <1>1 DEF UsbTypeOK, Transfer
<1>3. CASE mRequestState = "IDLE"
  <2>1. mRequestQueue = <<>>
    BY <1>0, <1>3 DEF IdleQueueIsEmpty
  <2>2. ReqQueueRequest(r, Append(mRequestQueue, r), mRequestQueue, 0, ok)
    BY <1>3 DEF Transfer
  <2>3. /\ xfer_len' \in [Requests -> Nat]
        /\ 0 + xfer_len'[r] <= Length[r]
        /\ TransferStatus' \in [Requests -> Statuses \cup {"unset"}]
        /\ mRequestQueue' \in Seq(Requests)
        /\ mFinishedRequestQueue' \in Seq(Requests)
        /\ mEventsAvailable' \in BOOLEAN
        /\ \/ /\ ok
              /\ mRequestState' = "TRANSFER"
              /\ mRequestQueue' = Append(mRequestQueue, r)
              /\ udc' = r
           \/ /\ ~ok
              /\ mRequestState' = "IDLE"
              /\ mRequestQueue' = mRequestQueue
              /\ udc' = None
    <3> HIDE DEF QueueInv
    <3> HIDE UsbTransferAssumption
    <3>1. 0 \in Nat /\ 0 <= Length[r]
      BY UsbTransferAssumption
    <3>2. Head(Append(mRequestQueue, r)) = r
      BY <1>1, <2>1
    <3> QED BY <1>0, <1>1, <2>2, <3>1, <3>2, ReqQueueRequestStep
  <2>4. UsbTypeOK'
    BY <1>2, <2>3 DEF UsbTypeOK, Transfer
  <2>5. /\ CompletionHitsHead' /\ IdleQueueIsEmpty' /\ RestartingIsIdle'
    BY <1>0, <1>1, <2>1, <2>3
    DEF CompletionHitsHead, IdleQueueIsEmpty, RestartingIsIdle, Transfer
  <2>6. ChunkFits'
    <3>1. bytes_written' = [bytes_written EXCEPT ![r] = 0]
      BY DEF Transfer
    <3> QED BY <2>3, <3>1 DEF ChunkFits, UsbTypeOK
  <2> QED BY <2>4, <2>5, <2>6
<1>4. CASE mRequestState # "IDLE"
  <2>1. UsbTypeOK'
    BY <1>1, <1>2, <1>4 DEF UsbTypeOK, Transfer
  <2>2. /\ CompletionHitsHead' /\ IdleQueueIsEmpty' /\ RestartingIsIdle'
    BY <1>0, <1>1, <1>4
    DEF CompletionHitsHead, IdleQueueIsEmpty, RestartingIsIdle, Transfer
  <2>3. ChunkFits'
    <3>1. /\ bytes_written' = [bytes_written EXCEPT ![r] = 0]
          /\ UNCHANGED <<udc, xfer_len>>
      BY <1>4 DEF Transfer
    <3> QED BY <1>0, <3>1 DEF ChunkFits, UsbTypeOK
  <2> QED BY <2>1, <2>2, <2>3
<1> QED BY <1>3, <1>4

(* The head of the queue and what is left of its buffer, when the          *)
(* controller completes it.                                                *)
LEMMA HeadFacts ==
  ASSUME QueueInv, mRequestQueue # <<>>
  PROVE  /\ Head(mRequestQueue) \in Requests
         /\ Tail(mRequestQueue) \in Seq(Requests)
         /\ bytes_written[Head(mRequestQueue)] \in Nat
         /\ bytes_written[Head(mRequestQueue)] <= Length[Head(mRequestQueue)]
<1>1. mRequestQueue \in Seq(Requests)
  BY DEF QueueInv, UsbTypeOK
<1>2. Head(mRequestQueue) \in Requests /\ Tail(mRequestQueue) \in Seq(Requests)
  BY <1>1, TailFacts
<1> QED BY <1>2 DEF QueueInv, UsbTypeOK, ChunkFits

(* Finishing the head leaves an idle queue.                                *)
LEMMA FinishStep ==
  ASSUME UsbTypeOK, mRequestQueue # <<>>, NEW status \in Statuses,
         Finish(Head(mRequestQueue), status)
  PROVE  /\ TransferStatus' \in [Requests -> Statuses \cup {"unset"}]
         /\ mRequestQueue' \in Seq(Requests)
         /\ mFinishedRequestQueue' \in Seq(Requests)
         /\ mRequestState' = "IDLE" /\ udc' = None
         /\ mEventsAvailable' \in BOOLEAN /\ xfer_len' = xfer_len
<1>1. /\ Head(mRequestQueue) \in Requests
      /\ Tail(mRequestQueue) \in Seq(Requests)
  BY TailFacts DEF UsbTypeOK
<1>2. Append(mFinishedRequestQueue, Head(mRequestQueue)) \in Seq(Requests)
  BY <1>1, AppendFacts DEF UsbTypeOK
<1> QED BY <1>1, <1>2 DEF Finish, UsbTypeOK

LEMMA ReqCompleteStep ==
  ASSUME QueueInv, NEW actual \in Actual, NEW good \in BOOLEAN,
         NEW ok \in BOOLEAN, ReqComplete(actual, good, ok)
  PROVE  QueueInv'
<1> USE DEF deviceVars, reportVars
<1>0. udc # None /\ UsbTypeOK /\ LockFree
  BY DEF ReqComplete, QueueInv
<1>1. /\ mRequestQueue # <<>> /\ mRequestState = "TRANSFER"
      /\ udc = Head(mRequestQueue)
  BY <1>0 DEF QueueInv, CompletionHitsHead
<1> DEFINE r == Head(mRequestQueue)
<1>2. /\ r \in Requests
      /\ bytes_written[r] \in Nat /\ xfer_len[r] \in Nat /\ Length[r] \in Nat
      /\ actual \in 0..xfer_len[r]
      /\ bytes_written[r] + actual <= Length[r]
  BY <1>0, <1>1, HeadFacts, UsbTransferAssumption
  DEF Actual, QueueInv, UsbTypeOK, ChunkFits, UsbTransferAssumption
<1>3. bytes_written' \in [Requests -> Nat]
      /\ \A q \in Requests : bytes_written'[q] <= Length[q]
  <2>1. \/ bytes_written' = bytes_written
        \/ bytes_written' = [bytes_written EXCEPT ![r] = @ + actual]
    BY <1>1 DEF ReqComplete
  <2>2. bytes_written \in [Requests -> Nat]
        /\ \A q \in Requests : bytes_written[q] <= Length[q]
    BY DEF QueueInv, UsbTypeOK, ChunkFits
  <2> HIDE DEF r
  <2> QED BY <1>2, <2>1, <2>2
<1>4. restarting' = (mRequestState' = "IDLE")
  BY <1>1 DEF ReqComplete
<1>5. /\ UNCHANGED <<mReportDeviceState, mDeviceState, pc, current, reports,
                     reportedState, life, submitted, flushed>>
  BY DEF ReqComplete
<1>6. ASSUME NEW status \in Statuses, Finish(r, status)
      PROVE  QueueInv'
  <2>1. /\ TransferStatus' \in [Requests -> Statuses \cup {"unset"}]
        /\ mRequestQueue' \in Seq(Requests)
        /\ mFinishedRequestQueue' \in Seq(Requests)
        /\ mRequestState' = "IDLE" /\ udc' = None
        /\ mEventsAvailable' \in BOOLEAN /\ xfer_len' = xfer_len
    BY <1>0, <1>1, <1>6, FinishStep
  <2>2. restarting' = TRUE
    BY <1>4, <2>1
  <2>3. UsbTypeOK'
    BY <1>0, <1>3, <1>5, <2>1, <2>2 DEF UsbTypeOK
  <2>4. /\ CompletionHitsHead' /\ IdleQueueIsEmpty' /\ RestartingIsIdle'
        /\ ChunkFits'
    BY <1>3, <2>1, <2>2
    DEF CompletionHitsHead, IdleQueueIsEmpty, RestartingIsIdle, ChunkFits
  <2> QED BY <2>3, <2>4 DEF QueueInv
<1>7. ASSUME good,
             bytes_written' = [bytes_written EXCEPT ![r] = @ + actual],
             ReqQueueRequest(r, mRequestQueue, Tail(mRequestQueue),
                             bytes_written[r] + actual, ok)
      PROVE  QueueInv'
  <2> DEFINE written == bytes_written[r] + actual
  <2>1. /\ written \in Nat /\ written <= Length[r]
        /\ bytes_written'[r] = written
    BY <1>0, <1>2, <1>7 DEF UsbTypeOK
  <2>2. /\ mRequestQueue \in Seq(Requests)
        /\ Tail(mRequestQueue) \in Seq(Requests)
        /\ Head(mRequestQueue) = r
    BY <1>0, <1>1, HeadFacts DEF UsbTypeOK
  <2> HIDE DEF written
  <2>3. ReqQueueRequest(r, mRequestQueue, Tail(mRequestQueue), written, ok)
    BY <1>7 DEF written
  <2> HIDE DEF r
  <2>4. /\ xfer_len' \in [Requests -> Nat]
        /\ written + xfer_len'[r] <= Length[r]
        /\ TransferStatus' \in [Requests -> Statuses \cup {"unset"}]
        /\ mRequestQueue' \in Seq(Requests)
        /\ mFinishedRequestQueue' \in Seq(Requests)
        /\ mEventsAvailable' \in BOOLEAN
        /\ \/ /\ ok
              /\ mRequestState' = "TRANSFER"
              /\ mRequestQueue' = mRequestQueue
              /\ udc' = r
           \/ /\ ~ok
              /\ mRequestState' = "IDLE"
              /\ mRequestQueue' = Tail(mRequestQueue)
              /\ udc' = None
    BY <1>0, <1>1, <1>2, <2>1, <2>2, <2>3, ReqQueueRequestStep
  <2>5. UsbTypeOK'
    BY <1>0, <1>2, <1>3, <1>4, <1>5, <2>4 DEF UsbTypeOK
  <2>6. /\ CompletionHitsHead' /\ IdleQueueIsEmpty' /\ RestartingIsIdle'
    <3>1. r # None
      BY <1>2, UsbTransferAssumption DEF UsbTransferAssumption
    <3>2. CASE ok
      BY <1>1, <1>4, <2>2, <2>4, <3>1, <3>2
      DEF CompletionHitsHead, IdleQueueIsEmpty, RestartingIsIdle
    <3>3. CASE ~ok
      BY <1>4, <2>4, <3>3
      DEF CompletionHitsHead, IdleQueueIsEmpty, RestartingIsIdle
    <3> QED BY <3>2, <3>3
  <2>7. ChunkFits'
    BY <1>3, <2>1, <2>4 DEF ChunkFits
  <2> QED BY <2>5, <2>6, <2>7 DEF QueueInv
<1>8. CASE ~good
  BY <1>1, <1>6, <1>8 DEF ReqComplete
<1>9. CASE good
  <2>1. CASE HasMore(r, actual)
    BY <1>1, <1>7, <1>9, <2>1, <1>6 DEF ReqComplete
  <2>2. CASE ~HasMore(r, actual)
    BY <1>1, <1>6, <1>9, <2>2 DEF ReqComplete
  <2> QED BY <2>1, <2>2
<1> QED BY <1>8, <1>9

LEMMA RestartQueueStep ==
  ASSUME QueueInv, NEW ok \in BOOLEAN, RestartQueue(ok)
  PROVE  QueueInv'
<1> USE DEF deviceVars, reportVars
<1>0. restarting /\ mRequestState = "IDLE" /\ UsbTypeOK /\ udc = None
  BY DEF RestartQueue, QueueInv, RestartingIsIdle, CompletionHitsHead
<1>1. /\ UNCHANGED <<mReportDeviceState, mDeviceState, pc, current, reports,
                     reportedState, life, submitted, flushed, bytes_written>>
  BY DEF RestartQueue
<1>2. CASE mRequestQueue = <<>>
  <2>1. restarting' = FALSE
        /\ UNCHANGED <<mRequestState, mRequestQueue, mFinishedRequestQueue,
                       TransferStatus, xfer_len, mEventsAvailable, udc>>
    BY <1>2 DEF RestartQueue, queueVars
  <2> QED BY <1>0, <1>1, <1>2, <2>1
      DEF QueueInv, UsbTypeOK, CompletionHitsHead, IdleQueueIsEmpty,
          RestartingIsIdle, ChunkFits
<1>3. CASE mRequestQueue # <<>>
  <2> DEFINE r == Head(mRequestQueue)
  <2>1. /\ r \in Requests
        /\ mRequestQueue \in Seq(Requests)
        /\ Tail(mRequestQueue) \in Seq(Requests)
        /\ bytes_written[r] \in Nat /\ bytes_written[r] <= Length[r]
    BY <1>0, <1>3, HeadFacts DEF UsbTypeOK
  <2>2. /\ restarting' = ~ok
        /\ ReqQueueRequest(r, mRequestQueue, Tail(mRequestQueue),
                           bytes_written[r], ok)
    BY <1>3 DEF RestartQueue
  <2>3. Head(mRequestQueue) = r
    OBVIOUS
  <2> HIDE DEF r
  <2>4. /\ xfer_len' \in [Requests -> Nat]
        /\ bytes_written[r] + xfer_len'[r] <= Length[r]
        /\ TransferStatus' \in [Requests -> Statuses \cup {"unset"}]
        /\ mRequestQueue' \in Seq(Requests)
        /\ mFinishedRequestQueue' \in Seq(Requests)
        /\ mEventsAvailable' \in BOOLEAN
        /\ \/ /\ ok
              /\ mRequestState' = "TRANSFER"
              /\ mRequestQueue' = mRequestQueue
              /\ udc' = r
           \/ /\ ~ok
              /\ mRequestState' = "IDLE"
              /\ mRequestQueue' = Tail(mRequestQueue)
              /\ udc' = None
    BY <1>0, <1>3, <2>1, <2>2, <2>3, ReqQueueRequestStep
  <2>5. UsbTypeOK'
    BY <1>0, <1>1, <2>1, <2>2, <2>4 DEF UsbTypeOK
  <2>6. /\ CompletionHitsHead' /\ IdleQueueIsEmpty' /\ RestartingIsIdle'
    <3>1. r # None
      BY <2>1, UsbTransferAssumption DEF UsbTransferAssumption
    <3>2. CASE ok
      BY <1>3, <2>2, <2>3, <2>4, <3>1, <3>2
      DEF CompletionHitsHead, IdleQueueIsEmpty, RestartingIsIdle
    <3>3. CASE ~ok
      BY <2>2, <2>4, <3>3
      DEF CompletionHitsHead, IdleQueueIsEmpty, RestartingIsIdle
    <3> QED BY <3>2, <3>3
  <2>7. ChunkFits'
    BY <1>1, <2>1, <2>4 DEF QueueInv, ChunkFits
  <2> QED BY <2>5, <2>6, <2>7 DEF QueueInv
<1> QED BY <1>2, <1>3

(* An OFFLINE event keeps the head exactly if the controller has it.       *)
LEMMA NotifyOfflineTypes ==
  ASSUME UsbTypeOK, NotifyOffline
  PROVE  /\ UsbTypeOK'
         /\ mRequestQueue # <<>> /\ mRequestState = "TRANSFER"
              => mRequestQueue' # <<>> /\ Head(mRequestQueue') = Head(mRequestQueue)
         /\ ~(mRequestQueue # <<>> /\ mRequestState = "TRANSFER")
              => mRequestQueue' = <<>>
<1> DEFINE keep == IF mRequestQueue # <<>> /\ mRequestState = "TRANSFER"
                     THEN 1 ELSE 0
           gone == SubSeq(mRequestQueue, keep + 1, Len(mRequestQueue))
<1>0. mRequestQueue \in Seq(Requests)
  BY DEF UsbTypeOK
<1>1. keep \in 0..1 /\ keep <= Len(mRequestQueue)
  BY <1>0
<1>2. /\ gone \in Seq(Requests)
      /\ SubSeq(mRequestQueue, 1, keep) \in Seq(Requests)
      /\ keep = 1 => /\ SubSeq(mRequestQueue, 1, keep) # <<>>
                     /\ Head(SubSeq(mRequestQueue, 1, keep))
                           = Head(mRequestQueue)
      /\ keep = 0 => SubSeq(mRequestQueue, 1, keep) = <<>>
  <2> HIDE DEF keep
  <2> QED BY <1>0, <1>1, SubSeqFacts
<1>3. mFinishedRequestQueue \o gone \in Seq(Requests)
  BY <1>2, ConcatFacts DEF UsbTypeOK
<1>4. flushed \cup Elements(gone) \in SUBSET Requests
  <2> HIDE DEF gone, keep
  <2>1. Elements(gone) \in SUBSET Requests
    BY <1>2 DEF Elements
  <2>2. flushed \in SUBSET Requests
    BY DEF UsbTypeOK
  <2> QED BY <2>1, <2>2
<1>5. /\ mRequestQueue' = SubSeq(mRequestQueue, 1, keep)
      /\ mFinishedRequestQueue' = mFinishedRequestQueue \o gone
      /\ flushed' = flushed \cup Elements(gone)
      /\ mDeviceState' = "Disconnected"
      /\ mReportDeviceState' = (mReportDeviceState \/ mDeviceState = "Connected")
      /\ mEventsAvailable' = TRUE
      /\ UNCHANGED <<mRequestState, TransferStatus, xfer_len, bytes_written,
                     pc, current, reports, reportedState, life, restarting,
                     udc, submitted>>
  BY DEF NotifyOffline, GadgetOffline, entryVars, reportVars
<1> HIDE DEF gone
<1>6. UsbTypeOK'
  BY <1>2, <1>3, <1>4, <1>5 DEF UsbTypeOK
<1> QED BY <1>2, <1>5, <1>6

LEMMA NotifyOfflineStep ==
  ASSUME QueueInv, NotifyOffline
  PROVE  QueueInv'
<1>1. /\ LockFree
      /\ UNCHANGED <<mRequestState, xfer_len, bytes_written, life, restarting, udc>>
  BY DEF NotifyOffline, entryVars
<1>2. /\ UsbTypeOK'
      /\ mRequestQueue # <<>> /\ mRequestState = "TRANSFER"
           => mRequestQueue' # <<>> /\ Head(mRequestQueue') = Head(mRequestQueue)
      /\ ~(mRequestQueue # <<>> /\ mRequestState = "TRANSFER")
           => mRequestQueue' = <<>>
  BY NotifyOfflineTypes DEF QueueInv
<1>3. CompletionHitsHead'
  BY <1>1, <1>2 DEF QueueInv, CompletionHitsHead
<1>4. IdleQueueIsEmpty' /\ RestartingIsIdle' /\ ChunkFits'
  BY <1>1, <1>2 DEF QueueInv, IdleQueueIsEmpty, RestartingIsIdle, ChunkFits
<1> QED BY <1>2, <1>3, <1>4 DEF QueueInv

(* ReportEvents only touches the finished queue and its own state.         *)
LEMMA TakeFinishedStep ==
  ASSUME UsbTypeOK, TakeFinished
  PROVE  /\ mFinishedRequestQueue' \in Seq(Requests)
         /\ current' \in Requests \cup {None}
         /\ pc' \in {"idle", "state", "transfer", "client"}
<1>1. mFinishedRequestQueue \in Seq(Requests)
  BY DEF UsbTypeOK
<1>2. CASE mFinishedRequestQueue # <<>>
  BY <1>1, <1>2, TailFacts DEF TakeFinished
<1>3. CASE mFinishedRequestQueue = <<>>
  BY <1>1, <1>3 DEF TakeFinished
<1> QED BY <1>2, <1>3

(* ReportEvents holds a request exactly while it is to report it.          *)
HandInv == pc = "transfer" <=> current # None

LEMMA ReportTypes ==
  ASSUME UsbTypeOK, HandInv, Report
  PROVE  UsbTypeOK'
<1> USE DEF queueVars, entryVars, deviceVars, reportVars
<1>1. /\ UNCHANGED <<mRequestState, mRequestQueue, TransferStatus, xfer_len,
                     bytes_written, mDeviceState, life, restarting, udc,
                     submitted, flushed>>
  BY DEF Report, ReportStart, ReportState, ReportLoop, ReportTransfer
<1>2. ASSUME ReportStart PROVE UsbTypeOK'
  <2>1. CASE mReportDeviceState
    BY <1>1, <1>2, <2>1 DEF ReportStart, UsbTypeOK
  <2>2. CASE ~mReportDeviceState
    <3>1. TakeFinished
      BY <1>2, <2>2 DEF ReportStart
    <3> QED BY <1>1, <1>2, <2>2, <3>1, TakeFinishedStep
        DEF ReportStart, UsbTypeOK
  <2> QED BY <2>1, <2>2
<1>3. ASSUME ReportState PROVE UsbTypeOK'
  BY <1>1, <1>3 DEF ReportState, UsbTypeOK
<1>4. ASSUME ReportLoop PROVE UsbTypeOK'
  BY <1>1, <1>4, TakeFinishedStep DEF ReportLoop, UsbTypeOK
<1>5. ASSUME NEW status \in Statuses, ReportTransfer(status)
      PROVE  UsbTypeOK'
  <2> DEFINE rep == [req |-> current, status |-> status,
                     size |-> bytes_written[current]]
  <2>1. current \in Requests
    BY <1>5 DEF UsbTypeOK, ReportTransfer, HandInv
  <2>2. rep \in Notifications
    BY <2>1 DEF UsbTypeOK, Notifications
  <2>3. Append(reports, rep) \in Seq(Notifications)
    BY <2>2, AppendFacts DEF UsbTypeOK
  <2>4. reports' = Append(reports, rep)
    BY <1>5 DEF ReportTransfer
  <2> HIDE DEF rep
  <2> QED BY <1>1, <1>5, <2>3, <2>4 DEF UsbTypeOK, ReportTransfer
<1> QED BY <1>2, <1>3, <1>4, <1>5 DEF Report

LEMMA ReportStep ==
  ASSUME QueueInv, HandInv, Report
  PROVE  QueueInv'
<1>1. UNCHANGED <<mRequestState, mRequestQueue, xfer_len, bytes_written, life,
                  restarting, udc>>
  BY DEF Report, ReportStart, ReportState, ReportLoop, ReportTransfer, entryVars, queueVars
<1>2. CompletionHitsHead' /\ IdleQueueIsEmpty' /\ RestartingIsIdle'
      /\ ChunkFits'
  BY <1>1 DEF QueueInv, CompletionHitsHead, IdleQueueIsEmpty,
              RestartingIsIdle, ChunkFits
<1> QED BY <1>2, ReportTypes DEF QueueInv

LEMMA ReportHands ==
  ASSUME UsbTypeOK, HandInv, Report
  PROVE  HandInv'
<1> USE DEF HandInv
<1>1. ASSUME TakeFinished PROVE HandInv'
  <2>1. mFinishedRequestQueue # <<>> => Head(mFinishedRequestQueue) # None
    BY SMTT(40), TailFacts, UsbTransferAssumption DEF UsbTypeOK, UsbTransferAssumption
  <2> QED BY <1>1, <2>1 DEF TakeFinished
<1> QED BY <1>1 DEF Report, ReportStart, ReportState, ReportLoop, ReportTransfer

LEMMA HandInvStep ==
  ASSUME QueueInv, HandInv, [UsbNext]_usbVars
  PROVE  HandInv'
<1> USE DEF queueVars, entryVars, deviceVars, reportVars
<1>1. CASE Report
  BY <1>1, ReportHands DEF QueueInv
<1>2. ASSUME ~Report PROVE UNCHANGED <<pc, current>>
  BY <1>2 DEF UsbNext, usbVars, Start, Stop, Client, Transfer, Complete,
              ReqComplete, Restart, RestartQueue, NotifyOnline, NotifyOffline
<1> QED BY <1>1, <1>2 DEF HandInv

LEMMA QueueInvStep ==
  ASSUME QueueInv, HandInv, [UsbNext]_usbVars
  PROVE  QueueInv'
<1> USE DEF queueVars, entryVars, deviceVars, reportVars
<1>1. CASE Start
  BY <1>1 DEF Start, QueueInv, UsbTypeOK, CompletionHitsHead,
              IdleQueueIsEmpty, RestartingIsIdle, ChunkFits
<1>2. CASE Stop
  BY <1>2 DEF Stop, LockFree, QueueInv, UsbTypeOK, CompletionHitsHead,
              IdleQueueIsEmpty, RestartingIsIdle, ChunkFits
<1>3. CASE Client
  BY <1>3, TransferStep DEF Client
<1>4. CASE Complete
  BY <1>4, ReqCompleteStep DEF Complete
<1>5. CASE Restart
  BY <1>5, RestartQueueStep DEF Restart
<1>6. CASE NotifyOnline
  BY <1>6 DEF NotifyOnline, QueueInv, UsbTypeOK, CompletionHitsHead,
              IdleQueueIsEmpty, RestartingIsIdle, ChunkFits
<1>7. CASE NotifyOffline
  BY <1>7, NotifyOfflineStep
<1>8. CASE Report
  BY <1>8, ReportStep
<1>9. CASE UNCHANGED usbVars
  BY <1>9 DEF usbVars, QueueInv, UsbTypeOK, CompletionHitsHead,
              IdleQueueIsEmpty, RestartingIsIdle, ChunkFits
<1> QED BY <1>1, <1>2, <1>3, <1>4, <1>5, <1>6, <1>7, <1>8, <1>9 DEF UsbNext

(* The queue's control invariant holds in every behaviour.                 *)
THEOREM QueueInvariant == UsbSpec => [](QueueInv /\ HandInv)
<1>1. UsbInit => QueueInv /\ HandInv
  BY QueueInvInit DEF UsbInit, HandInv
<1>2. QueueInv /\ HandInv /\ [UsbNext]_usbVars => (QueueInv /\ HandInv)'
  BY QueueInvStep, HandInvStep
<1> QED BY <1>1, <1>2, PTL DEF UsbSpec

(* Every variable keeps its type: in particular no chunk length or byte    *)
(* count of Usb.c ever wraps below zero.                                   *)
THEOREM UsbTypeCorrect == UsbSpec => []UsbTypeOK
BY QueueInvariant, PTL DEF QueueInv

(* A completion is always charged to the request the controller was given, *)
(* although Usb.c gives it the same udc_request for every transfer.        *)
THEOREM CompletionsHitTheHead == UsbSpec => []CompletionHitsHead
BY QueueInvariant, PTL DEF QueueInv

(* Outside req_complete an idle queue is empty: no transfer is stranded.   *)
THEOREM IdleQueueHoldsNothing == UsbSpec => []IdleQueueIsEmpty
BY QueueInvariant, PTL DEF QueueInv

-----------------------------------------------------------------------------
(* The event that runs ReportEvents is never missed: every step that adds  *)
(* work signals it, and ReportEvents only goes idle on an empty queue.     *)
THEOREM NoSignalIsMissed == UsbSpec => []NoMissedSignal
<1> USE DEF queueVars, entryVars, deviceVars, reportVars, NoMissedSignal
<1>1. UsbInit => NoMissedSignal
  BY DEF UsbInit
<1>2. ASSUME NoMissedSignal, [UsbNext]_usbVars
      PROVE  NoMissedSignal'
  <2>1. CASE Client
    BY <1>2, <2>1 DEF Client, Transfer, ReqQueueRequest
  <2>2. CASE Complete
    BY <1>2, <2>2 DEF Complete, ReqComplete, ReqQueueRequest, Finish
  <2>3. CASE Restart
    BY <1>2, <2>3 DEF Restart, RestartQueue, ReqQueueRequest
  <2>4. CASE NotifyOnline \/ NotifyOffline
    BY <1>2, <2>4 DEF NotifyOnline, NotifyOffline, GadgetOffline
  <2>5. CASE Report
    BY <1>2, <2>5 DEF Report, ReportStart, ReportState, ReportLoop,
                      ReportTransfer, TakeFinished
  <2>6. CASE Start \/ Stop \/ UNCHANGED usbVars
    BY <1>2, <2>6 DEF Start, Stop, usbVars
  <2> QED BY <1>2, <2>1, <2>2, <2>3, <2>4, <2>5, <2>6 DEF UsbNext
<1> QED BY <1>1, <1>2, PTL DEF UsbSpec

(* The client is never left with a stale device state: a report read after *)
(* the lock was dropped is newer than the flag, never older.               *)
THEOREM ToldStateIsCurrent == UsbSpec => []ToldStateConverges
<1> USE DEF queueVars, entryVars, deviceVars, reportVars, ToldStateConverges
<1>1. UsbInit => ToldStateConverges
  BY DEF UsbInit
<1>2. ASSUME QueueInv, ToldStateConverges, [UsbNext]_usbVars
      PROVE  ToldStateConverges'
  <2>1. CASE Client \/ Complete \/ Restart \/ Start \/ Stop \/ UNCHANGED usbVars
    <3>1. UNCHANGED <<mReportDeviceState, mDeviceState, pc, reportedState>>
      BY <2>1 DEF Client, Transfer, Complete, ReqComplete, Restart,
                  RestartQueue, Start, Stop, usbVars
    <3> QED BY <1>2, <3>1
  <2>2. CASE NotifyOnline
    BY <1>2, <2>2 DEF NotifyOnline
  <2>3. CASE NotifyOffline
    BY <1>2, <2>3 DEF NotifyOffline, GadgetOffline, QueueInv, UsbTypeOK
  <2>4. CASE Report
    BY <1>2, <2>4 DEF Report, ReportStart, ReportState, ReportLoop,
                      ReportTransfer, TakeFinished
  <2> QED BY <1>2, <2>1, <2>2, <2>3, <2>4 DEF UsbNext
<1> QED BY <1>1, <1>2, QueueInvariant, PTL DEF UsbSpec

-----------------------------------------------------------------------------
(* Every transfer has one owner.  The queues as sets: what the queue       *)
(* operations do to their elements and to their being free of duplicates.  *)

LEMMA ElementsOfAppend ==
  ASSUME NEW S, NEW s \in Seq(S), NEW e \in S
  PROVE  /\ Elements(Append(s, e)) = Elements(s) \cup {e}
         /\ Distinct(s) /\ e \notin Elements(s) => Distinct(Append(s, e))
<1> DEFINE t == Append(s, e)
<1>1. /\ Len(t) = Len(s) + 1 /\ Len(s) \in Nat
      /\ \A i \in 1..Len(s) : t[i] = s[i]
      /\ t[Len(s) + 1] = e
  BY AppendFacts
<1> HIDE DEF t
<1>2. Elements(t) = Elements(s) \cup {e}
  <2>1. Elements(t) \subseteq Elements(s) \cup {e}
    BY <1>1 DEF Elements
  <2>2. Elements(s) \subseteq Elements(t)
    BY <1>1 DEF Elements
  <2>3. e \in Elements(t)
    BY <1>1 DEF Elements
  <2> QED BY <2>1, <2>2, <2>3
<1>3. ASSUME Distinct(s), e \notin Elements(s)
      PROVE  Distinct(t)
  BY <1>1, <1>3 DEF Distinct, Elements
<1> QED BY <1>2, <1>3 DEF t

LEMMA ElementsOfTail ==
  ASSUME NEW S, NEW s \in Seq(S), s # <<>>, Distinct(s)
  PROVE  /\ Head(s) \in Elements(s)
         /\ Elements(Tail(s)) = Elements(s) \ {Head(s)}
         /\ Distinct(Tail(s))
<1> DEFINE t == Tail(s)
<1>1. /\ Len(s) \in Nat /\ Len(s) > 0 /\ Len(t) = Len(s) - 1
      /\ Head(s) = s[1]
      /\ \A i \in 1..Len(s) - 1 : t[i] = s[i + 1]
  BY TailFacts
<1> HIDE DEF t
<1>2. Head(s) \in Elements(s)
  BY <1>1 DEF Elements
<1>3. ASSUME NEW x \in Elements(t) PROVE x \in Elements(s) \ {Head(s)}
  <2>1. PICK i \in 1..Len(t) : x = t[i]
    BY DEF Elements
  <2>2. x = s[i + 1] /\ i + 1 \in 1..Len(s) /\ i + 1 # 1 /\ 1 \in 1..Len(s)
    BY <1>1, <2>1
  <2> QED BY <1>1, <2>2 DEF Elements, Distinct
<1>4. ASSUME NEW x \in Elements(s) \ {Head(s)} PROVE x \in Elements(t)
  <2>1. PICK i \in 1..Len(s) : x = s[i]
    BY DEF Elements
  <2>2. i # 1
    BY <1>1, <2>1
  <2>3. i - 1 \in 1..Len(t) /\ t[i - 1] = x
    BY <1>1, <2>1, <2>2
  <2> QED BY <2>3 DEF Elements
<1>5. Distinct(t)
  <2> SUFFICES ASSUME NEW i \in 1..Len(t), NEW j \in 1..Len(t), t[i] = t[j]
               PROVE  i = j
    BY DEF Distinct
  <2>1. /\ i + 1 \in 1..Len(s) /\ j + 1 \in 1..Len(s)
        /\ s[i + 1] = s[j + 1]
    BY <1>1
  <2>2. i + 1 = j + 1
    BY <2>1 DEF Distinct
  <2> QED BY <1>1, <2>2
<1> QED BY <1>2, <1>3, <1>4, <1>5 DEF t

(* ... and without the assumption that it holds no element twice.          *)
LEMMA ElementsAreHeadAndTail ==
  ASSUME NEW S, NEW s \in Seq(S), s # <<>>
  PROVE  Elements(s) = Elements(Tail(s)) \cup {Head(s)}
<1> DEFINE t == Tail(s)
<1>1. /\ Len(s) \in Nat /\ Len(s) > 0 /\ Len(t) = Len(s) - 1
      /\ Head(s) = s[1]
      /\ \A i \in 1..Len(s) - 1 : t[i] = s[i + 1]
  BY TailFacts
<1> HIDE DEF t
<1>2. ASSUME NEW i \in 1..Len(s), i # 1 PROVE s[i] \in Elements(t)
  <2>1. i - 1 \in 1..Len(t) /\ t[i - 1] = s[i]
    BY <1>1, <1>2
  <2> QED BY <2>1 DEF Elements
<1>3. ASSUME NEW i \in 1..Len(t) PROVE t[i] \in Elements(s)
  <2>1. i + 1 \in 1..Len(s) /\ s[i + 1] = t[i]
    BY <1>1
  <2> QED BY <2>1 DEF Elements
<1>4. s[1] \in Elements(s)
  BY <1>1 DEF Elements
<1> QED BY <1>1, <1>2, <1>3, <1>4 DEF Elements, t

LEMMA ElementsOfConcat ==
  ASSUME NEW S, NEW s \in Seq(S), NEW t \in Seq(S)
  PROVE  /\ Elements(s \o t) = Elements(s) \cup Elements(t)
         /\ Distinct(s) /\ Distinct(t) /\ Elements(s) \cap Elements(t) = {}
              => Distinct(s \o t)
<1> DEFINE u == s \o t
<1>1. /\ Len(s) \in Nat /\ Len(t) \in Nat /\ Len(u) = Len(s) + Len(t)
      /\ \A i \in 1..Len(s) : u[i] = s[i]
      /\ \A i \in 1..Len(t) : u[Len(s) + i] = t[i]
  BY ConcatFacts
<1> HIDE DEF u
<1>2. ASSUME NEW i \in 1..Len(u)
      PROVE  \/ i \in 1..Len(s) /\ u[i] = s[i]
             \/ i - Len(s) \in 1..Len(t) /\ u[i] = t[i - Len(s)]
  <2>1. CASE i <= Len(s)
    BY <1>1, <2>1
  <2>2. CASE i > Len(s)
    <3>1. i - Len(s) \in 1..Len(t) /\ Len(s) + (i - Len(s)) = i
      BY <1>1, <2>2
    <3> QED BY <1>1, <3>1
  <2> QED BY <1>1, <2>1, <2>2
<1>3. Elements(u) \subseteq Elements(s) \cup Elements(t)
  BY <1>2 DEF Elements
<1>4. Elements(s) \subseteq Elements(u)
  BY <1>1 DEF Elements
<1>5. ASSUME NEW x \in Elements(t) PROVE x \in Elements(u)
  <2>1. PICK i \in 1..Len(t) : x = t[i]
    BY DEF Elements
  <2>2. Len(s) + i \in 1..Len(u) /\ u[Len(s) + i] = x
    BY <1>1, <2>1
  <2> QED BY <2>2 DEF Elements
<1>6. ASSUME Distinct(s), Distinct(t), Elements(s) \cap Elements(t) = {}
      PROVE  Distinct(u)
  <2> SUFFICES ASSUME NEW i \in 1..Len(u), NEW j \in 1..Len(u), u[i] = u[j]
               PROVE  i = j
    BY DEF Distinct
  <2>1. CASE i \in 1..Len(s) /\ u[i] = s[i]
    <3>1. u[i] \in Elements(s)
      BY <2>1 DEF Elements
    <3>2. ~(j - Len(s) \in 1..Len(t) /\ u[j] = t[j - Len(s)])
      BY <1>6, <3>1 DEF Elements
    <3>3. j \in 1..Len(s) /\ u[j] = s[j]
      BY <1>2, <3>2
    <3> QED BY <1>6, <2>1, <3>3 DEF Distinct
  <2>2. CASE i - Len(s) \in 1..Len(t) /\ u[i] = t[i - Len(s)]
    <3>1. u[i] \in Elements(t)
      BY <2>2 DEF Elements
    <3>2. ~(j \in 1..Len(s) /\ u[j] = s[j])
      BY <1>6, <3>1 DEF Elements
    <3>3. j - Len(s) \in 1..Len(t) /\ u[j] = t[j - Len(s)]
      BY <1>2, <3>2
    <3>4. i - Len(s) = j - Len(s)
      BY <1>6, <2>2, <3>3 DEF Distinct
    <3> QED BY <1>1, <3>4
  <2> QED BY <1>2, <2>1, <2>2
<1> QED BY <1>3, <1>4, <1>5, <1>6 DEF u

(* Cutting a queue after its first element, or before it.                  *)
LEMMA ElementsOfCut ==
  ASSUME NEW S, NEW s \in Seq(S), NEW k \in 0..1, k <= Len(s), Distinct(s)
  PROVE  LET kept == SubSeq(s, 1, k)
             gone == SubSeq(s, k + 1, Len(s))
         IN  /\ Elements(kept) \cup Elements(gone) = Elements(s)
             /\ Elements(kept) \cap Elements(gone) = {}
             /\ Distinct(kept) /\ Distinct(gone)
<1> DEFINE kept == SubSeq(s, 1, k)
           gone == SubSeq(s, k + 1, Len(s))
<1>1. /\ Len(s) \in Nat /\ Len(kept) = k /\ Len(gone) = Len(s) - k
      /\ \A i \in 1..Len(s) - k : gone[i] = s[i + k]
      /\ \A i \in 1..k : kept[i] = s[i]
  BY SubSeqFacts
<1> HIDE DEF kept, gone
<1>2. ASSUME NEW x \in Elements(s) PROVE x \in Elements(kept) \cup Elements(gone)
  <2>1. PICK i \in 1..Len(s) : x = s[i]
    BY DEF Elements
  <2>2. CASE i <= k
    BY <1>1, <2>1, <2>2 DEF Elements
  <2>3. CASE i > k
    <3>1. i - k \in 1..Len(gone) /\ gone[i - k] = x
      BY <1>1, <2>1, <2>3
    <3> QED BY <3>1 DEF Elements
  <2> QED BY <1>1, <2>2, <2>3
<1>3. Elements(kept) \subseteq Elements(s)
  BY <1>1 DEF Elements
<1>4. ASSUME NEW x \in Elements(gone)
      PROVE  x \in Elements(s) /\ x \notin Elements(kept)
  <2>1. PICK i \in 1..Len(gone) : x = gone[i]
    BY DEF Elements
  <2>2. i + k \in 1..Len(s) /\ s[i + k] = x
    BY <1>1, <2>1
  <2>3. ASSUME NEW j \in 1..Len(kept), kept[j] = x PROVE FALSE
    <3>1. j \in 1..Len(s) /\ s[j] = x /\ j < i + k
      BY <1>1, <2>3
    <3> QED BY <2>2, <3>1 DEF Distinct
  <2> QED BY <2>2, <2>3 DEF Elements
<1>5. Distinct(kept)
  BY <1>1 DEF Distinct
<1>6. Distinct(gone)
  <2> SUFFICES ASSUME NEW i \in 1..Len(gone), NEW j \in 1..Len(gone),
                      gone[i] = gone[j]
               PROVE  i = j
    BY DEF Distinct
  <2>1. i + k \in 1..Len(s) /\ j + k \in 1..Len(s) /\ s[i + k] = s[j + k]
    BY <1>1
  <2>2. i + k = j + k
    BY <2>1 DEF Distinct
  <2> QED BY <1>1, <2>2
<1> QED BY <1>2, <1>3, <1>4, <1>5, <1>6 DEF kept, gone

(* A step that only moves transfers between the two queues, or adds a new  *)
(* one to either, keeps every transfer with one owner.                     *)
LEMMA QueuesMoved ==
  ASSUME OneOwner, UNCHANGED <<pc, current, reports>>,
         NEW new, new \cap Elements(submitted) = {},
         Elements(submitted)' = Elements(submitted) \cup new,
         Elements(mRequestQueue)' \cup Elements(mFinishedRequestQueue)'
           = Elements(mRequestQueue) \cup Elements(mFinishedRequestQueue)
               \cup new,
         Elements(mRequestQueue)' \cap Elements(mFinishedRequestQueue)' = {},
         Distinct(mRequestQueue)', Distinct(mFinishedRequestQueue)'
  PROVE  OneOwner'
<1>1. Answered' = Answered
  BY DEF Answered
<1>2. /\ Elements(submitted) = Elements(mRequestQueue)
           \cup Elements(mFinishedRequestQueue) \cup ({current} \ {None})
           \cup Answered
      /\ (Elements(mRequestQueue) \cup Elements(mFinishedRequestQueue))
           \cap (({current} \ {None}) \cup Answered) = {}
  BY DEF OneOwner
<1>3. (Elements(mRequestQueue) \cup Elements(mFinishedRequestQueue))'
           \cap (({current} \ {None}) \cup Answered)' = {}
  BY <1>1, <1>2
<1>4. Elements(submitted)' = (Elements(mRequestQueue)
           \cup Elements(mFinishedRequestQueue) \cup ({current} \ {None})
           \cup Answered)'
  BY <1>1, <1>2
<1> QED BY <1>1, <1>3, <1>4 DEF OneOwner

(* The head of the queue is over: it moves to the finished queue.          *)
LEMMA HeadMoved ==
  ASSUME QueueInv, OneOwner, mRequestQueue # <<>>,
         UNCHANGED <<pc, current, reports, submitted>>,
         mRequestQueue' = Tail(mRequestQueue),
         mFinishedRequestQueue'
           = Append(mFinishedRequestQueue, Head(mRequestQueue))
  PROVE  OneOwner'
<1> DEFINE h == Head(mRequestQueue)
<1>1. /\ mRequestQueue \in Seq(Requests)
      /\ mFinishedRequestQueue \in Seq(Requests)
      /\ h \in Requests
  BY HeadFacts DEF QueueInv, UsbTypeOK
<1>2. /\ Distinct(mRequestQueue) /\ Distinct(mFinishedRequestQueue)
      /\ Elements(mRequestQueue) \cap Elements(mFinishedRequestQueue) = {}
  BY DEF OneOwner
<1>3. /\ h \in Elements(mRequestQueue)
      /\ Elements(Tail(mRequestQueue)) = Elements(mRequestQueue) \ {h}
      /\ Distinct(Tail(mRequestQueue))
  BY <1>1, <1>2, ElementsOfTail
<1>4. /\ Elements(Append(mFinishedRequestQueue, h))
           = Elements(mFinishedRequestQueue) \cup {h}
      /\ Distinct(Append(mFinishedRequestQueue, h))
  BY <1>1, <1>2, <1>3, ElementsOfAppend
<1>5. /\ Elements(mRequestQueue)' = Elements(Tail(mRequestQueue))
      /\ Distinct(mRequestQueue)' = Distinct(Tail(mRequestQueue))
      /\ Elements(mFinishedRequestQueue)'
           = Elements(Append(mFinishedRequestQueue, h))
      /\ Distinct(mFinishedRequestQueue)'
           = Distinct(Append(mFinishedRequestQueue, h))
      /\ Elements(submitted)' = Elements(submitted)
  BY DEF Elements, Distinct
<1> HIDE DEF h
<1> QED BY <1>2, <1>3, <1>4, <1>5, QueuesMoved

LEMMA QueuesKept ==
  ASSUME OneOwner, UNCHANGED <<current, reports, submitted, mRequestQueue,
                               mFinishedRequestQueue>>,
         pc' = "transfer" <=> pc = "transfer"
  PROVE  OneOwner'
<1>1. /\ Answered' = Answered /\ Elements(submitted)' = Elements(submitted)
      /\ Elements(mRequestQueue)' = Elements(mRequestQueue)
      /\ Distinct(mRequestQueue)' = Distinct(mRequestQueue)
      /\ Elements(mFinishedRequestQueue)' = Elements(mFinishedRequestQueue)
      /\ Distinct(mFinishedRequestQueue)' = Distinct(mFinishedRequestQueue)
  BY DEF Answered, Elements, Distinct
<1> QED BY <1>1 DEF OneOwner

(* ReportEvents takes the first finished request into its hand.            *)
LEMMA TakeOwner ==
  ASSUME QueueInv, OneOwner, TakeFinished, current = None,
         UNCHANGED <<reports, submitted, mRequestQueue>>
  PROVE  OneOwner'
<1> DEFINE h == Head(mFinishedRequestQueue)
<1>1. mFinishedRequestQueue \in Seq(Requests)
  BY DEF QueueInv, UsbTypeOK
<1>2. /\ Answered' = Answered /\ Elements(submitted)' = Elements(submitted)
      /\ Elements(mRequestQueue)' = Elements(mRequestQueue)
      /\ Distinct(mRequestQueue)' = Distinct(mRequestQueue)
  BY DEF Answered, Elements, Distinct
<1>3. CASE mFinishedRequestQueue # <<>>
  <2>1. /\ h \in Elements(mFinishedRequestQueue) /\ h \in Requests
        /\ Elements(Tail(mFinishedRequestQueue))
             = Elements(mFinishedRequestQueue) \ {h}
        /\ Distinct(Tail(mFinishedRequestQueue))
    BY <1>1, <1>3, ElementsOfTail, TailFacts DEF OneOwner
  <2>2. /\ current' = h /\ pc' = "transfer"
        /\ mFinishedRequestQueue' = Tail(mFinishedRequestQueue)
    BY <1>3 DEF TakeFinished
  <2>3. /\ Elements(mFinishedRequestQueue)'
             = Elements(mFinishedRequestQueue) \ {h}
        /\ Distinct(mFinishedRequestQueue)'
    BY ZenonT(60), <2>1, <2>2 DEF Elements, Distinct
  <2>4. h # None
    BY <2>1, UsbTransferAssumption DEF UsbTransferAssumption
  <2> HIDE DEF h
  <2>5. /\ ({current} \ {None})' = {h}
    BY <2>2, <2>4
  <2> QED BY <1>2, <2>1, <2>2, <2>3, <2>4, <2>5 DEF OneOwner
<1>4. CASE mFinishedRequestQueue = <<>>
  <2>1. current' = None /\ pc' = "idle" /\ UNCHANGED mFinishedRequestQueue
    BY <1>4 DEF TakeFinished
  <2>2. /\ Elements(mFinishedRequestQueue)' = Elements(mFinishedRequestQueue)
        /\ Distinct(mFinishedRequestQueue)' = Distinct(mFinishedRequestQueue)
    BY <2>1 DEF Elements, Distinct
  <2> QED BY <1>2, <2>1, <2>2 DEF OneOwner
<1> QED BY <1>3, <1>4

(* A notification adds its request to the answered ones.                   *)
LEMMA AnsweredGrows ==
  ASSUME reports \in Seq(Notifications), NEW rep \in Notifications,
         reports' = Append(reports, rep)
  PROVE  Answered' = Answered \cup {rep.req}
<1>1. /\ Len(reports') = Len(reports) + 1 /\ Len(reports) \in Nat
      /\ \A i \in 1..Len(reports) : reports'[i] = reports[i]
      /\ reports'[Len(reports) + 1] = rep
  BY AppendFacts
<1>2. Answered' \subseteq Answered \cup {rep.req}
  BY <1>1 DEF Answered
<1>3. Answered \subseteq Answered'
  <2> SUFFICES ASSUME NEW i \in 1..Len(reports)
               PROVE  reports[i].req \in Answered'
    BY DEF Answered
  <2>1. i \in 1..Len(reports') /\ reports'[i] = reports[i]
    BY <1>1
  <2> QED BY <2>1 DEF Answered
<1>4. rep.req \in Answered'
  <2>1. Len(reports) + 1 \in 1..Len(reports')
    BY <1>1
  <2> QED BY <1>1, <2>1 DEF Answered
<1> QED BY <1>2, <1>3, <1>4

(* ... and hands it to the client, which was not given it before.          *)
LEMMA ReportOwner ==
  ASSUME QueueInv, HandInv, OneOwner, NEW status \in Statuses,
         ReportTransfer(status)
  PROVE  OneOwner'
<1> DEFINE rep == [req |-> current, status |-> status,
                   size |-> bytes_written[current]]
<1>1. current \in Requests /\ current # None /\ reports \in Seq(Notifications)
  BY DEF QueueInv, UsbTypeOK, HandInv, ReportTransfer
<1>2. rep \in Notifications /\ rep.req = current
  BY <1>1 DEF QueueInv, UsbTypeOK, Notifications
<1>3. /\ reports' = Append(reports, rep) /\ current' = None /\ pc' = "client"
      /\ UNCHANGED <<submitted, mRequestQueue, mFinishedRequestQueue>>
  BY DEF ReportTransfer, queueVars
<1> HIDE DEF rep
<1>4. /\ Len(reports') = Len(reports) + 1 /\ Len(reports) \in Nat
      /\ \A i \in 1..Len(reports) : reports'[i] = reports[i]
      /\ reports'[Len(reports) + 1] = rep
  BY <1>1, <1>2, <1>3, AppendFacts
<1>5. Answered' = Answered \cup {current}
  BY <1>1, <1>2, <1>3, AnsweredGrows
<1>6. current \notin Answered
  BY <1>1 DEF OneOwner
<1>7. \A i, j \in 1..Len(reports') : reports'[i].req = reports'[j].req => i = j
  <2> SUFFICES ASSUME NEW i \in 1..Len(reports'), NEW j \in 1..Len(reports'),
                      reports'[i].req = reports'[j].req
               PROVE  i = j
    OBVIOUS
  <2>1. \A k \in 1..Len(reports) : reports'[k].req # current
    BY <1>4, <1>6 DEF Answered
  <2>2. reports'[Len(reports) + 1].req = current
    BY <1>2, <1>4
  <2>3. CASE i \in 1..Len(reports) /\ j \in 1..Len(reports)
    BY <1>4, <2>3 DEF OneOwner
  <2>4. CASE i = Len(reports) + 1 \/ j = Len(reports) + 1
    BY <1>4, <2>1, <2>2, <2>4
  <2> QED BY <1>4, <2>3, <2>4
<1>8. /\ Elements(submitted)' = Elements(submitted)
      /\ Elements(mRequestQueue)' = Elements(mRequestQueue)
      /\ Distinct(mRequestQueue)' = Distinct(mRequestQueue)
      /\ Elements(mFinishedRequestQueue)' = Elements(mFinishedRequestQueue)
      /\ Distinct(mFinishedRequestQueue)' = Distinct(mFinishedRequestQueue)
  BY <1>3 DEF Elements, Distinct
<1>9. /\ ({current} \ {None})' = {}
      /\ ({current} \ {None}) \cup Answered = Answered'
  BY <1>1, <1>3, <1>5
<1> QED BY <1>3, <1>7, <1>8, <1>9 DEF OneOwner

(* A transfer handed over is new, and joins one of the queues.             *)
LEMMA TransferOwner ==
  ASSUME QueueInv, OneOwner, NEW r \in Requests, NEW ok \in BOOLEAN,
         Transfer(r, ok)
  PROVE  OneOwner'
<1>1. /\ r \notin Elements(submitted) /\ submitted' = Append(submitted, r)
      /\ UNCHANGED <<pc, current, reports>>
  BY DEF Transfer, reportVars
<1>2. /\ mRequestQueue \in Seq(Requests) /\ submitted \in Seq(Requests)
      /\ mFinishedRequestQueue \in Seq(Requests)
  BY DEF QueueInv, UsbTypeOK
<1>3. /\ Distinct(mRequestQueue) /\ Distinct(mFinishedRequestQueue)
      /\ Elements(mRequestQueue) \cap Elements(mFinishedRequestQueue) = {}
      /\ r \notin Elements(mRequestQueue)
      /\ r \notin Elements(mFinishedRequestQueue)
  BY <1>1 DEF OneOwner
<1>4. Elements(submitted)' = Elements(submitted) \cup {r}
  <2>1. Elements(Append(submitted, r)) = Elements(submitted) \cup {r}
    BY <1>2, ElementsOfAppend
  <2> QED BY <1>1, <2>1 DEF Elements
<1>5. CASE /\ mRequestQueue' = Append(mRequestQueue, r)
           /\ UNCHANGED mFinishedRequestQueue
  <2>1. /\ Elements(Append(mRequestQueue, r)) = Elements(mRequestQueue) \cup {r}
        /\ Distinct(Append(mRequestQueue, r))
    BY <1>2, <1>3, ElementsOfAppend
  <2>2. /\ Elements(mRequestQueue)' = Elements(mRequestQueue) \cup {r}
        /\ Distinct(mRequestQueue)'
        /\ Elements(mFinishedRequestQueue)' = Elements(mFinishedRequestQueue)
        /\ Distinct(mFinishedRequestQueue)'
    BY <1>3, <1>5, <2>1 DEF Elements, Distinct
  <2>3. /\ {r} \cap Elements(submitted) = {}
        /\ Elements(mRequestQueue)' \cup Elements(mFinishedRequestQueue)'
             = Elements(mRequestQueue) \cup Elements(mFinishedRequestQueue)
                 \cup {r}
        /\ Elements(mRequestQueue)' \cap Elements(mFinishedRequestQueue)' = {}
    BY <1>1, <1>3, <2>2
  <2> QED BY <1>1, <1>4, <2>2, <2>3, QueuesMoved
<1>6. CASE /\ mFinishedRequestQueue' = Append(mFinishedRequestQueue, r)
           /\ UNCHANGED mRequestQueue
  <2>1. /\ Elements(Append(mFinishedRequestQueue, r))
             = Elements(mFinishedRequestQueue) \cup {r}
        /\ Distinct(Append(mFinishedRequestQueue, r))
    BY <1>2, <1>3, ElementsOfAppend
  <2>2. /\ Elements(mRequestQueue)' = Elements(mRequestQueue)
        /\ Distinct(mRequestQueue)'
        /\ Elements(mFinishedRequestQueue)'
             = Elements(mFinishedRequestQueue) \cup {r}
        /\ Distinct(mFinishedRequestQueue)'
    BY <1>3, <1>6, <2>1 DEF Elements, Distinct
  <2>3. /\ {r} \cap Elements(submitted) = {}
        /\ Elements(mRequestQueue)' \cup Elements(mFinishedRequestQueue)'
             = Elements(mRequestQueue) \cup Elements(mFinishedRequestQueue)
                 \cup {r}
        /\ Elements(mRequestQueue)' \cap Elements(mFinishedRequestQueue)' = {}
    BY <1>1, <1>3, <2>2
  <2> QED BY <1>1, <1>4, <2>2, <2>3, QueuesMoved
<1> QED BY <1>5, <1>6 DEF Transfer, ReqQueueRequest

(* An OFFLINE event moves what the controller does not have.               *)
LEMMA OfflineOwner ==
  ASSUME QueueInv, OneOwner, NotifyOffline
  PROVE  OneOwner'
<1> DEFINE keep == IF mRequestQueue # <<>> /\ mRequestState = "TRANSFER"
                     THEN 1 ELSE 0
           kept == SubSeq(mRequestQueue, 1, keep)
           gone == SubSeq(mRequestQueue, keep + 1, Len(mRequestQueue))
<1>1. /\ mRequestQueue \in Seq(Requests)
      /\ mFinishedRequestQueue \in Seq(Requests)
      /\ Distinct(mRequestQueue) /\ Distinct(mFinishedRequestQueue)
      /\ Elements(mRequestQueue) \cap Elements(mFinishedRequestQueue) = {}
  BY DEF QueueInv, UsbTypeOK, OneOwner
<1>2. keep \in 0..1 /\ keep <= Len(mRequestQueue)
  BY <1>1
<1>3. /\ mRequestQueue' = kept
      /\ mFinishedRequestQueue' = mFinishedRequestQueue \o gone
      /\ UNCHANGED <<pc, current, reports, submitted>>
  BY DEF NotifyOffline, GadgetOffline, reportVars
<1> HIDE DEF keep
<1>4. /\ Elements(kept) \cup Elements(gone) = Elements(mRequestQueue)
      /\ Elements(kept) \cap Elements(gone) = {}
      /\ Distinct(kept) /\ Distinct(gone)
  BY <1>1, <1>2, ElementsOfCut
<1>5. gone \in Seq(Requests)
  BY <1>1, <1>2, SubSeqFacts
<1> HIDE DEF kept, gone
<1>6. /\ Elements(mFinishedRequestQueue \o gone)
           = Elements(mFinishedRequestQueue) \cup Elements(gone)
      /\ Distinct(mFinishedRequestQueue \o gone)
  <2>1. Elements(mFinishedRequestQueue) \cap Elements(gone) = {}
    BY <1>1, <1>4
  <2> QED BY <1>1, <1>4, <1>5, <2>1, ElementsOfConcat
<1>7. /\ Elements(mRequestQueue)' = Elements(kept) /\ Distinct(mRequestQueue)'
      /\ Elements(mFinishedRequestQueue)'
           = Elements(mFinishedRequestQueue) \cup Elements(gone)
      /\ Distinct(mFinishedRequestQueue)'
      /\ Elements(submitted)' = Elements(submitted)
  BY <1>3, <1>4, <1>6 DEF Elements, Distinct
<1> QED BY <1>1, <1>3, <1>4, <1>7, QueuesMoved

(* Every transfer has exactly one owner: it is waiting, finished, in       *)
(* ReportEvents' hand or answered, and only once.  So none is lost, freed  *)
(* twice, or answered twice.                                               *)
THEOREM EveryTransferHasOneOwner == UsbSpec => []OneOwner
<1> USE DEF queueVars, entryVars, deviceVars, reportVars
<1>1. UsbInit => OneOwner
  BY DEF UsbInit, OneOwner, Elements, Distinct, Answered
<1>2. ASSUME QueueInv, HandInv, OneOwner, [UsbNext]_usbVars
      PROVE  OneOwner'
  <2>1. CASE Client
    BY <1>2, <2>1, TransferOwner DEF Client
  <2>2. CASE Complete
    <3>1. PICK actual \in Actual, good \in BOOLEAN, ok \in BOOLEAN :
            ReqComplete(actual, good, ok)
      BY <2>2 DEF Complete
    <3>2. /\ mRequestQueue # <<>>
          /\ UNCHANGED <<pc, current, reports, submitted>>
      BY <1>2, <3>1 DEF ReqComplete, QueueInv, CompletionHitsHead
    <3>3. \/ UNCHANGED <<mRequestQueue, mFinishedRequestQueue>>
          \/ /\ mRequestQueue' = Tail(mRequestQueue)
             /\ mFinishedRequestQueue'
                  = Append(mFinishedRequestQueue, Head(mRequestQueue))
      BY <3>1, <3>2 DEF ReqComplete, Finish, ReqQueueRequest
    <3> QED BY <1>2, <3>2, <3>3, HeadMoved, QueuesKept
  <2>3. CASE Restart
    <3>1. PICK ok \in BOOLEAN : RestartQueue(ok)
      BY <2>3 DEF Restart
    <3>2. UNCHANGED <<pc, current, reports, submitted>>
      BY <3>1 DEF RestartQueue
    <3>3. \/ UNCHANGED <<mRequestQueue, mFinishedRequestQueue>>
          \/ /\ mRequestQueue # <<>>
             /\ mRequestQueue' = Tail(mRequestQueue)
             /\ mFinishedRequestQueue'
                  = Append(mFinishedRequestQueue, Head(mRequestQueue))
      BY <3>1 DEF RestartQueue, ReqQueueRequest
    <3> QED BY <1>2, <3>2, <3>3, HeadMoved, QueuesKept
  <2>4. CASE NotifyOffline
    BY <1>2, <2>4, OfflineOwner
  <2>5. CASE Report
    <3>1. CASE ReportStart
      <4>1. CASE mReportDeviceState
        <5>1. /\ pc = "idle" /\ pc' = "state"
              /\ UNCHANGED <<current, reports, submitted, mRequestQueue,
                             mFinishedRequestQueue>>
          BY <3>1, <4>1 DEF ReportStart
        <5> QED BY <1>2, <5>1, QueuesKept
      <4>2. CASE ~mReportDeviceState
        <5>1. /\ pc = "idle" /\ TakeFinished
              /\ UNCHANGED <<reports, submitted, mRequestQueue>>
          BY <3>1, <4>2 DEF ReportStart
        <5> QED BY <1>2, <5>1, TakeOwner DEF HandInv
      <4> QED BY <4>1, <4>2
    <3>2. CASE ReportState
      <4>1. /\ pc = "state" /\ pc' = "client"
            /\ UNCHANGED <<current, reports, submitted, mRequestQueue,
                           mFinishedRequestQueue>>
        BY <3>2 DEF ReportState
      <4> QED BY <1>2, <4>1, QueuesKept
    <3>3. CASE ReportLoop
      <4>1. /\ pc = "client" /\ TakeFinished
            /\ UNCHANGED <<reports, submitted, mRequestQueue>>
        BY <3>3 DEF ReportLoop
      <4> QED BY <1>2, <4>1, TakeOwner DEF HandInv
    <3>4. CASE \E status \in Statuses : ReportTransfer(status)
      BY <1>2, <3>4, ReportOwner
    <3> QED BY <2>5, <3>1, <3>2, <3>3, <3>4 DEF Report
  <2>6. CASE Start \/ Stop \/ NotifyOnline \/ UNCHANGED usbVars
    <3>1. UNCHANGED <<pc, current, reports, submitted, mRequestQueue,
                      mFinishedRequestQueue>>
      BY <2>6 DEF Start, Stop, NotifyOnline, usbVars
    <3> QED BY <1>2, <3>1, QueuesKept
  <2> QED BY <1>2, <2>1, <2>2, <2>3, <2>4, <2>5, <2>6 DEF UsbNext
<1> QED BY <1>1, <1>2, QueueInvariant, PTL DEF UsbSpec

(* The queue is coherent and every transfer has one owner: what the        *)
(* theorems about the client's answers start from.                         *)
THEOREM OwnershipInvariant == UsbSpec => [](QueueInv /\ HandInv /\ OneOwner)
BY QueueInvariant, EveryTransferHasOneOwner, PTL

-----------------------------------------------------------------------------
(* Outcomes.  A step assigns the outcome of at most one transfer, and that *)
(* one waits in the queue or is being handed over.                         *)
LEMMA OutcomeTouched ==
  ASSUME QueueInv, [UsbNext]_usbVars
  PROVE  \/ UNCHANGED <<TransferStatus, bytes_written>>
         \/ \E q \in Elements(mRequestQueue) \cup (Requests \ Elements(submitted)) :
              \A r \in Requests \ {q} : /\ TransferStatus'[r] = TransferStatus[r]
                                        /\ bytes_written'[r] = bytes_written[r]
<1> USE DEF queueVars, entryVars, deviceVars, reportVars
<1>1. /\ TransferStatus \in [Requests -> Statuses \cup {"unset"}]
      /\ bytes_written \in [Requests -> Nat]
  BY DEF QueueInv, UsbTypeOK
<1>2. ASSUME mRequestQueue # <<>>
      PROVE  Head(mRequestQueue) \in Elements(mRequestQueue)
  <2>1. mRequestQueue \in Seq(Requests)
    BY DEF QueueInv, UsbTypeOK
  <2> QED BY <1>2, <2>1, TailFacts DEF Elements
<1>3. CASE Client
  <2>1. PICK r \in Requests, ok \in BOOLEAN : Transfer(r, ok)
    BY <1>3 DEF Client
  <2>2. r \in Requests \ Elements(submitted)
    BY <2>1 DEF Transfer
  <2>3. /\ bytes_written' = [bytes_written EXCEPT ![r] = 0]
        /\ \/ TransferStatus' = TransferStatus
           \/ TransferStatus' = [TransferStatus EXCEPT ![r] = "Failed"]
    BY <2>1 DEF Transfer, ReqQueueRequest
  <2> QED BY <1>1, <2>2, <2>3
<1>4. CASE Complete
  <2>1. PICK actual \in Actual, good \in BOOLEAN, ok \in BOOLEAN :
          ReqComplete(actual, good, ok)
    BY <1>4 DEF Complete
  <2>2. mRequestQueue # <<>>
    BY <2>1 DEF ReqComplete, QueueInv, CompletionHitsHead
  <2> DEFINE h == Head(mRequestQueue)
  <2>3. /\ \/ bytes_written' = bytes_written
           \/ bytes_written' = [bytes_written EXCEPT ![h] = @ + actual]
        /\ \/ TransferStatus' = TransferStatus
           \/ \E status \in Statuses :
                TransferStatus' = [TransferStatus EXCEPT ![h] = status]
    BY <2>1, <2>2 DEF ReqComplete, Finish, ReqQueueRequest
  <2>4. h \in Elements(mRequestQueue)
    BY <1>2, <2>2
  <2> HIDE DEF h
  <2> QED BY <1>1, <2>3, <2>4
<1>5. CASE Restart
  <2>1. PICK ok \in BOOLEAN : RestartQueue(ok)
    BY <1>5 DEF Restart
  <2> DEFINE h == Head(mRequestQueue)
  <2>2. /\ bytes_written' = bytes_written
        /\ \/ TransferStatus' = TransferStatus
           \/ /\ mRequestQueue # <<>>
              /\ TransferStatus' = [TransferStatus EXCEPT ![h] = "Failed"]
    BY <2>1 DEF RestartQueue, ReqQueueRequest
  <2>3. mRequestQueue # <<>> => h \in Elements(mRequestQueue)
    BY <1>2
  <2> HIDE DEF h
  <2> QED BY <1>1, <2>2, <2>3
<1>6. CASE \/ Start \/ Stop \/ NotifyOnline \/ NotifyOffline \/ Report
           \/ UNCHANGED usbVars
  BY <1>6 DEF Start, Stop, NotifyOnline, NotifyOffline, Report, ReportStart,
              ReportState, ReportLoop, ReportTransfer, usbVars
<1> QED BY <1>3, <1>4, <1>5, <1>6 DEF UsbNext

(* Transfers that are over and not yet reported.                           *)
Settled == Elements(mFinishedRequestQueue) \cup ({current} \ {None})

LEMMA SettledIsFrozen ==
  ASSUME QueueInv, OneOwner, [UsbNext]_usbVars, NEW r \in Settled
  PROVE  /\ TransferStatus'[r] = TransferStatus[r]
         /\ bytes_written'[r] = bytes_written[r]
<1>1. r \in Requests
  BY DEF Settled, Elements, QueueInv, UsbTypeOK
<1>2. r \notin Elements(mRequestQueue) /\ r \in Elements(submitted)
  BY DEF Settled, OneOwner
<1> QED BY <1>1, <1>2, OutcomeTouched

(* What ReportEvents tells the client after dropping the lock is what was  *)
(* decided under it: the outcome of a transfer that is over never changes. *)
THEOREM OutcomesAreFrozen == UsbSpec => OutcomeIsFrozen
<1>1. ASSUME QueueInv, HandInv, OneOwner, [UsbNext]_usbVars
      PROVE  [\A r \in Elements(mFinishedRequestQueue) \cup ({current} \ {None}) :
                /\ TransferStatus'[r] = TransferStatus[r]
                /\ bytes_written'[r] = bytes_written[r]]_usbVars
  BY <1>1, SettledIsFrozen DEF Settled
<1> QED BY <1>1, OwnershipInvariant, PTL DEF UsbSpec, OutcomeIsFrozen

(* The outcome of a transfer no OFFLINE event finished.                    *)
OutcomeIsTrue(r) ==
  r \notin flushed =>
    /\ TransferStatus[r] \in {"Completed", "Failed"}
    /\ bytes_written[r] <= Length[r]
    /\ TransferStatus[r] = "Completed" /\ IsIn[r] => bytes_written[r] = Length[r]

TruthInv == \A r \in Settled : OutcomeIsTrue(r)

(* A transfer joins the settled ones with its outcome assigned, or flushed.*)
LEMMA JoinsSettled ==
  ASSUME QueueInv, NEW r \in Requests, OutcomeIsTrue(r)',
         mFinishedRequestQueue' = Append(mFinishedRequestQueue, r),
         UNCHANGED current, NEW q \in Settled'
  PROVE  q \in Settled \/ OutcomeIsTrue(q)'
<1>1. mFinishedRequestQueue \in Seq(Requests)
  BY DEF QueueInv, UsbTypeOK
<1>2. Elements(Append(mFinishedRequestQueue, r))
        = Elements(mFinishedRequestQueue) \cup {r}
  BY <1>1, ElementsOfAppend
<1>3. Settled' = Elements(Append(mFinishedRequestQueue, r))
                   \cup ({current} \ {None})
  BY DEF Settled, Elements
<1>4. q \in Settled \/ q = r
  BY <1>2, <1>3 DEF Settled
<1> QED BY <1>4

(* A refused request is Failed; whatever it transferred before counts.     *)
LEMMA RefusedIsTrue ==
  ASSUME QueueInv, QueueInv', NEW r \in Requests,
         TransferStatus' = [TransferStatus EXCEPT ![r] = "Failed"]
  PROVE  OutcomeIsTrue(r)'
<1>1. TransferStatus'[r] = "Failed"
  BY DEF QueueInv, UsbTypeOK
<1>2. bytes_written'[r] <= Length[r]
  BY DEF QueueInv, ChunkFits
<1> QED BY <1>1, <1>2 DEF OutcomeIsTrue

(* req_handle_transfer says Completed only of an OUT request, or of an IN  *)
(* request whose last chunk filled its buffer.                             *)
LEMMA CompletedIsTrue ==
  ASSUME QueueInv, QueueInv', NEW r \in Requests, NEW actual \in Nat,
         ~HasMore(r, actual), ~IsShortIn(r, actual),
         bytes_written' = [bytes_written EXCEPT ![r] = @ + actual],
         TransferStatus' = [TransferStatus EXCEPT ![r] = "Completed"]
  PROVE  OutcomeIsTrue(r)'
<1>1. /\ TransferStatus'[r] = "Completed"
      /\ bytes_written'[r] = bytes_written[r] + actual
  BY DEF QueueInv, UsbTypeOK
<1>2. bytes_written'[r] <= Length[r]
  BY DEF QueueInv, ChunkFits
<1>3. IsIn[r] => bytes_written'[r] = Length[r]
  BY <1>1 DEF HasMore, IsShortIn
<1> QED BY <1>1, <1>2, <1>3 DEF OutcomeIsTrue

(* Whatever a step adds to the settled transfers has a true outcome.       *)
LEMMA NewlySettled ==
  ASSUME QueueInv, QueueInv', HandInv, OneOwner, [UsbNext]_usbVars,
         NEW q \in Settled'
  PROVE  q \in Settled \/ OutcomeIsTrue(q)'
<1> USE DEF queueVars, entryVars, deviceVars, reportVars
<1>1. mRequestQueue \in Seq(Requests) /\ mFinishedRequestQueue \in Seq(Requests)
  BY DEF QueueInv, UsbTypeOK
<1>2. ASSUME UNCHANGED <<mFinishedRequestQueue, current>>
      PROVE  q \in Settled
  BY <1>2 DEF Settled, Elements
<1>3. CASE Client
  <2>1. PICK r \in Requests, ok \in BOOLEAN : Transfer(r, ok)
    BY <1>3 DEF Client
  <2>2. current' = current
    BY <2>1 DEF Transfer
  <2>3. \/ mFinishedRequestQueue' = mFinishedRequestQueue
        \/ /\ mFinishedRequestQueue' = Append(mFinishedRequestQueue, r)
           /\ TransferStatus' = [TransferStatus EXCEPT ![r] = "Failed"]
    BY <2>1 DEF Transfer, ReqQueueRequest
  <2> QED BY <1>2, <2>2, <2>3, RefusedIsTrue, JoinsSettled
<1>4. CASE Complete
  <2>1. PICK actual \in Actual, good \in BOOLEAN, ok \in BOOLEAN :
          ReqComplete(actual, good, ok)
    BY <1>4 DEF Complete
  <2> DEFINE r == Head(mRequestQueue)
  <2>2. /\ mRequestQueue # <<>> /\ mRequestState = "TRANSFER"
        /\ current' = current
    BY <2>1 DEF ReqComplete, QueueInv, CompletionHitsHead
  <2>3. r \in Requests /\ actual \in Nat
    BY SMTT(40), <2>1, <2>2, HeadFacts, UsbTransferAssumption
    DEF Actual, QueueInv, UsbTypeOK, UsbTransferAssumption
  <2>4. \/ mFinishedRequestQueue' = mFinishedRequestQueue
        \/ /\ mFinishedRequestQueue' = Append(mFinishedRequestQueue, r)
           /\ \/ TransferStatus' = [TransferStatus EXCEPT ![r] = "Failed"]
              \/ /\ ~HasMore(r, actual) /\ ~IsShortIn(r, actual)
                 /\ bytes_written' = [bytes_written EXCEPT ![r] = @ + actual]
                 /\ TransferStatus' = [TransferStatus EXCEPT ![r] = "Completed"]
    BY <2>1, <2>2 DEF ReqComplete, Finish, ReqQueueRequest
  <2> HIDE DEF r
  <2> QED BY <1>2, <2>2, <2>3, <2>4, RefusedIsTrue, CompletedIsTrue, JoinsSettled
<1>5. CASE Restart
  <2>1. PICK ok \in BOOLEAN : RestartQueue(ok)
    BY <1>5 DEF Restart
  <2> DEFINE r == Head(mRequestQueue)
  <2>2. current' = current
    BY <2>1 DEF RestartQueue
  <2>3. \/ mFinishedRequestQueue' = mFinishedRequestQueue
        \/ /\ mRequestQueue # <<>>
           /\ mFinishedRequestQueue' = Append(mFinishedRequestQueue, r)
           /\ TransferStatus' = [TransferStatus EXCEPT ![r] = "Failed"]
    BY <2>1 DEF RestartQueue, ReqQueueRequest
  <2>4. mRequestQueue # <<>> => r \in Requests
    BY HeadFacts
  <2> HIDE DEF r
  <2> QED BY <1>2, <2>2, <2>3, <2>4, RefusedIsTrue, JoinsSettled
<1>6. CASE NotifyOffline
  <2> DEFINE keep == IF mRequestQueue # <<>> /\ mRequestState = "TRANSFER"
                       THEN 1 ELSE 0
             gone == SubSeq(mRequestQueue, keep + 1, Len(mRequestQueue))
  <2>1. keep \in 0..1 /\ keep <= Len(mRequestQueue)
    BY <1>1
  <2>2. /\ mFinishedRequestQueue' = mFinishedRequestQueue \o gone
        /\ flushed' = flushed \cup Elements(gone) /\ current' = current
    BY <1>6 DEF NotifyOffline, GadgetOffline
  <2>3. gone \in Seq(Requests)
    <3> HIDE DEF keep
    <3> QED BY <1>1, <2>1, SubSeqFacts
  <2> HIDE DEF gone
  <2>4. Elements(mFinishedRequestQueue \o gone)
          = Elements(mFinishedRequestQueue) \cup Elements(gone)
    BY <1>1, <2>3, ElementsOfConcat
  <2>5. Settled' = Elements(mFinishedRequestQueue \o gone)
                     \cup ({current} \ {None})
    BY <2>2 DEF Settled, Elements
  <2>6. q \in Settled \/ q \in flushed'
    BY <2>2, <2>4, <2>5 DEF Settled
  <2> QED BY <2>6 DEF OutcomeIsTrue
<1>7. CASE Report
  <2>1. ASSUME TakeFinished PROVE q \in Settled
    <3>1. CASE mFinishedRequestQueue # <<>>
      <4> DEFINE h == Head(mFinishedRequestQueue)
      <4>1. /\ h \in Elements(mFinishedRequestQueue)
            /\ Elements(Tail(mFinishedRequestQueue))
                 = Elements(mFinishedRequestQueue) \ {h}
        BY <1>1, <3>1, ElementsOfTail DEF OneOwner
      <4>2. Settled' = Elements(Tail(mFinishedRequestQueue)) \cup ({h} \ {None})
        BY <2>1, <3>1 DEF TakeFinished, Settled, Elements
      <4> HIDE DEF h
      <4> QED BY <4>1, <4>2 DEF Settled
    <3>2. CASE mFinishedRequestQueue = <<>>
      BY <2>1, <3>2 DEF TakeFinished, Settled, Elements
    <3> QED BY <3>1, <3>2
  <2>2. ASSUME NEW status \in Statuses, ReportTransfer(status)
        PROVE  q \in Settled
    BY <2>2 DEF ReportTransfer, Settled, Elements
  <2> QED BY <1>2, <1>7, <2>1, <2>2
      DEF Report, ReportStart, ReportState, ReportLoop
<1>8. CASE Start \/ Stop \/ NotifyOnline \/ UNCHANGED usbVars
  BY <1>2, <1>8 DEF Start, Stop, NotifyOnline, usbVars
<1> QED BY <1>3, <1>4, <1>5, <1>6, <1>7, <1>8 DEF UsbNext

(* Only OFFLINE events flush, and they take nothing back.                  *)
LEMMA FlushedGrows ==
  ASSUME [UsbNext]_usbVars
  PROVE  flushed \subseteq flushed'
BY DEF UsbNext, usbVars, Start, Stop, Client, Transfer, Complete, ReqComplete,
       Restart, RestartQueue, NotifyOnline, NotifyOffline, GadgetOffline,
       Report, ReportStart, ReportState, ReportLoop, ReportTransfer

LEMMA TruthStep ==
  ASSUME QueueInv, QueueInv', HandInv, OneOwner, TruthInv, [UsbNext]_usbVars
  PROVE  TruthInv'
<1> SUFFICES ASSUME NEW q \in Settled' PROVE OutcomeIsTrue(q)'
  BY DEF TruthInv
<1>1. CASE q \in Settled
  <2>1. /\ OutcomeIsTrue(q)
        /\ TransferStatus'[q] = TransferStatus[q]
        /\ bytes_written'[q] = bytes_written[q]
    BY <1>1, SettledIsFrozen DEF TruthInv
  <2> QED BY <2>1, FlushedGrows DEF OutcomeIsTrue
<1> QED BY <1>1, NewlySettled

(* What has been reported stays true, and what is reported next is true.   *)
LEMMA ReportsStep ==
  ASSUME QueueInv, HandInv, TruthInv, AssignedOutcomeIsTrue, [UsbNext]_usbVars
  PROVE  AssignedOutcomeIsTrue'
<1> USE DEF queueVars, entryVars, deviceVars, reportVars
<1>1. reports \in Seq(Notifications)
  BY DEF QueueInv, UsbTypeOK
<1>2. ASSUME reports' = reports PROVE AssignedOutcomeIsTrue'
  BY <1>2, FlushedGrows DEF AssignedOutcomeIsTrue
<1>3. ASSUME NEW status \in Statuses, ReportTransfer(status)
      PROVE  AssignedOutcomeIsTrue'
  <2> DEFINE rep == [req |-> current, status |-> status,
                     size |-> bytes_written[current]]
  <2>1. current \in Requests /\ current # None /\ current \in Settled
    BY <1>3 DEF QueueInv, UsbTypeOK, HandInv, ReportTransfer, Settled
  <2>2. /\ rep \in Notifications /\ rep.req = current /\ rep.status = status
        /\ rep.size = bytes_written[current]
    BY <2>1 DEF QueueInv, UsbTypeOK, Notifications
  <2>3. /\ reports' = Append(reports, rep) /\ flushed' = flushed
        /\ TransferStatus[current] \in {status, "unset"}
    BY <1>3 DEF ReportTransfer
  <2> HIDE DEF rep
  <2>4. /\ Len(reports') = Len(reports) + 1 /\ Len(reports) \in Nat
        /\ \A i \in 1..Len(reports) : reports'[i] = reports[i]
        /\ reports'[Len(reports) + 1] = rep
    BY <1>1, <2>2, <2>3, AppendFacts
  <2>5. rep.req \notin flushed =>
          /\ rep.status # "Aborted"
          /\ rep.size <= Length[rep.req]
          /\ rep.status = "Completed" /\ IsIn[rep.req]
               => rep.size = Length[rep.req]
    BY <2>1, <2>2, <2>3 DEF TruthInv, OutcomeIsTrue
  <2> SUFFICES ASSUME NEW i \in 1..Len(reports')
               PROVE  reports'[i].req \notin flushed =>
                        /\ reports'[i].status # "Aborted"
                        /\ reports'[i].size <= Length[reports'[i].req]
                        /\ reports'[i].status = "Completed" /\ IsIn[reports'[i].req]
                             => reports'[i].size = Length[reports'[i].req]
    BY <2>3 DEF AssignedOutcomeIsTrue
  <2>6. CASE i \in 1..Len(reports)
    BY <2>4, <2>6 DEF AssignedOutcomeIsTrue
  <2>7. CASE i = Len(reports) + 1
    BY <2>4, <2>5, <2>7
  <2> QED BY <2>4, <2>6, <2>7
<1>4. ASSUME ~(\E status \in Statuses : ReportTransfer(status))
      PROVE  reports' = reports
  BY <1>4 DEF UsbNext, usbVars, Start, Stop, Client, Transfer, Complete,
              ReqComplete, Restart, RestartQueue, NotifyOnline, NotifyOffline,
              Report, ReportStart, ReportState, ReportLoop
<1> QED BY <1>2, <1>3, <1>4

(* An answer the code assigned is true: a transfer reported Completed was  *)
(* transferred, whole if it is IN, and no more was transferred than asked. *)
THEOREM AssignedOutcomesAreTrue == UsbSpec => []AssignedOutcomeIsTrue
<1>1. UsbInit => TruthInv /\ AssignedOutcomeIsTrue
  BY DEF UsbInit, TruthInv, Settled, Elements, AssignedOutcomeIsTrue
<1>2. QueueInv /\ QueueInv' /\ HandInv /\ OneOwner /\ TruthInv
        /\ AssignedOutcomeIsTrue /\ [UsbNext]_usbVars
      => (TruthInv /\ AssignedOutcomeIsTrue)'
  BY TruthStep, ReportsStep
<1> QED BY <1>1, <1>2, OwnershipInvariant, PTL DEF UsbSpec

-----------------------------------------------------------------------------
(* The refinement of UsbDeviceProtocol.  Where no two notifications are    *)
(* for the same transfer, a transfer has one answer or none.               *)
LEMMA OneAnswer ==
  ASSUME NEW s, \A i, j \in 1..Len(s) : s[i].req = s[j].req => i = j, NEW r
  PROVE  Cardinality({i \in 1..Len(s) : s[i].req = r})
           = IF r \in {s[i].req : i \in 1..Len(s)} THEN 1 ELSE 0
<1> DEFINE places == {i \in 1..Len(s) : s[i].req = r}
<1>1. CASE r \in {s[i].req : i \in 1..Len(s)}
  <2>1. PICK i \in 1..Len(s) : s[i].req = r
    BY <1>1
  <2>2. places = {i}
    BY <2>1
  <2> HIDE DEF places
  <2>3. Cardinality(places) = 1
    BY <2>2, FS_Singleton
  <2> QED BY <1>1, <2>3 DEF places
<1>2. CASE r \notin {s[i].req : i \in 1..Len(s)}
  <2>1. places = {}
    BY <1>2
  <2> HIDE DEF places
  <2>2. Cardinality(places) = 0
    BY <2>1, FS_EmptySet
  <2> QED BY <1>2, <2>2 DEF places
<1> QED BY <1>1, <1>2

LEMMA ProtocolStep ==
  ASSUME QueueInv, HandInv, OneOwner, OneOwner', [UsbNext]_usbVars
  PROVE  [Protocol!ProtocolNext]_(Protocol!protocolVars)
<1> USE DEF queueVars, entryVars, deviceVars, reportVars
<1> DEFINE answers == [r \in Requests |-> IF r \in Answered THEN 1 ELSE 0]
<1>1. /\ [r \in Requests |-> Cardinality({i \in 1..Len(reports) :
                                          reports[i].req = r})] = answers
      /\ [r \in Requests |-> Cardinality({i \in 1..Len(reports) :
                                          reports[i].req = r})]' = answers'
  <2>1. /\ \A i, j \in 1..Len(reports) : reports[i].req = reports[j].req => i = j
        /\ \A i, j \in 1..Len(reports') :
              reports'[i].req = reports'[j].req => i = j
    BY DEF OneOwner
  <2>2. \A r \in Requests :
          Cardinality({i \in 1..Len(reports) : reports[i].req = r})
            = IF r \in Answered THEN 1 ELSE 0
    BY <2>1, OneAnswer DEF Answered
  <2>3. \A r \in Requests :
          Cardinality({i \in 1..Len(reports') : reports'[i].req = r})
            = IF r \in Answered' THEN 1 ELSE 0
    BY <2>1, OneAnswer DEF Answered
  <2> QED BY <2>2, <2>3
<1>2. CASE Client
  <2>1. PICK r \in Requests, ok \in BOOLEAN : Transfer(r, ok)
    BY <1>2 DEF Client
  <2>2. /\ r \notin Elements(submitted) /\ submitted' = Append(submitted, r)
        /\ reports' = reports /\ reportedState' = reportedState
    BY <2>1 DEF Transfer
  <2>3. Elements(submitted') = Elements(submitted) \cup {r}
    BY <2>2, ElementsOfAppend DEF QueueInv, UsbTypeOK
  <2>4. answers' = answers
    BY <2>2 DEF Answered
  <2>5. Elements(submitted)' = Elements(submitted')
    BY DEF Elements
  <2> HIDE DEF answers
  <2>6. Protocol!HandOver(r)
    BY <1>1, <2>2, <2>3, <2>4, <2>5 DEF Protocol!HandOver
  <2> QED BY <2>6 DEF Protocol!ProtocolNext
<1>3. CASE Report
  <2>1. Elements(submitted)' = Elements(submitted)
    BY <1>3 DEF Report, ReportStart, ReportState, ReportLoop, ReportTransfer,
                Elements
  <2>2. CASE \E status \in Statuses : ReportTransfer(status)
    <3>1. PICK status \in Statuses : ReportTransfer(status)
      BY <2>2
    <3> DEFINE rep == [req |-> current, status |-> status,
                       size |-> bytes_written[current]]
    <3>2. /\ current \in Requests /\ current # None
          /\ rep \in Notifications /\ reports \in Seq(Notifications)
      BY <3>1 DEF QueueInv, UsbTypeOK, HandInv, ReportTransfer, Notifications
    <3>3. current \notin Answered /\ current \in Elements(submitted)
      BY <3>2 DEF OneOwner
    <3>4. reports' = Append(reports, rep) /\ reportedState' = reportedState
      BY <3>1 DEF ReportTransfer
    <3>5. rep.req = current
      OBVIOUS
    <3> HIDE DEF rep
    <3>6. Answered' = Answered \cup {current}
      BY <3>2, <3>4, <3>5, AnsweredGrows
    <3>7. /\ answers' = [answers EXCEPT ![current] = 1]
          /\ answers[current] = 0
      BY <3>2, <3>3, <3>6
    <3> HIDE DEF answers
    <3>8. Protocol!Answer(current)
      BY <1>1, <2>1, <3>3, <3>4, <3>7 DEF Protocol!Answer
    <3> QED BY <3>2, <3>8 DEF Protocol!ProtocolNext
  <2>3. CASE ReportState
    <3>1. /\ reportedState' = mDeviceState /\ reports' = reports
          /\ mDeviceState \in {"Connected", "Disconnected"}
      BY <2>3 DEF ReportState, QueueInv, UsbTypeOK
    <3>2. answers' = answers
      BY <3>1 DEF Answered
    <3> HIDE DEF answers
    <3>3. Protocol!Tell(mDeviceState)
      BY <1>1, <2>1, <3>1, <3>2 DEF Protocol!Tell
    <3> QED BY <3>1, <3>3 DEF Protocol!ProtocolNext
  <2>4. CASE ReportStart \/ ReportLoop
    <3>1. UNCHANGED <<reports, reportedState>>
      BY <2>4 DEF ReportStart, ReportLoop
    <3> QED BY <2>1, <3>1 DEF Protocol!protocolVars
  <2> QED BY <1>3, <2>2, <2>3, <2>4 DEF Report
<1>4. CASE \/ Start \/ Stop \/ Complete \/ Restart \/ NotifyOnline
           \/ NotifyOffline \/ UNCHANGED usbVars
  <2>1. UNCHANGED <<submitted, reports, reportedState>>
    BY <1>4 DEF Start, Stop, Complete, ReqComplete, Restart, RestartQueue,
                NotifyOnline, NotifyOffline, usbVars
  <2> QED BY <2>1 DEF Protocol!protocolVars, Elements
<1> QED BY <1>2, <1>3, <1>4 DEF UsbNext

(* The request queue implements the protocol its client sees: every        *)
(* transfer handed over gets at most one notification, and only then.      *)
THEOREM QueueImplementsProtocol == UsbSpec => ImplementsProtocol
<1>1. UsbInit => Protocol!ProtocolInit
  <2> SUFFICES ASSUME UsbInit PROVE Protocol!ProtocolInit
    OBVIOUS
  <2>1. Elements(submitted) = {} /\ Answered = {} /\ reports = <<>>
    BY DEF UsbInit, Elements, Answered
  <2>2. \A r \in Requests : {i \in 1..Len(reports) : reports[i].req = r} = {}
    BY <2>1
  <2>3. \A r \in Requests :
          Cardinality({i \in 1..Len(reports) : reports[i].req = r}) = 0
    BY <2>2, FS_EmptySet
  <2> QED BY <2>1, <2>3 DEF UsbInit, Protocol!ProtocolInit
<1>2. QueueInv /\ HandInv /\ OneOwner /\ OneOwner' /\ [UsbNext]_usbVars
        => [Protocol!ProtocolNext]_(Protocol!protocolVars)
  BY ProtocolStep
<1> QED BY <1>1, <1>2, OwnershipInvariant, PTL
    DEF UsbSpec, ImplementsProtocol, Protocol!ProtocolSpec

-----------------------------------------------------------------------------
(* The order of answers.  Before compares transfers by when they were      *)
(* handed over; what is flushed may be anywhere.                           *)
Before(a, b, s) == \E m, n \in 1..Len(s) : m < n /\ s[m] = a /\ s[n] = b

Ordered(t, s, fl) ==
  \A i, j \in 1..Len(t) :
     i < j /\ t[i] \notin fl /\ t[j] \notin fl => Before(t[i], t[j], s)

AllBefore(A, B, s, fl) == \A a \in A \ fl, b \in B \ fl : Before(a, b, s)

InHand == {current} \ {None}

(* Each queue is in order, and the stages a transfer goes through - waiting*)
(* in the queue, finished, in ReportEvents' hand, answered - are in order. *)
OrderInv ==
  /\ Ordered(mRequestQueue, submitted, flushed)
  /\ Ordered(mFinishedRequestQueue, submitted, flushed)
  /\ AllBefore(Elements(mFinishedRequestQueue), Elements(mRequestQueue),
               submitted, flushed)
  /\ AllBefore(InHand,
               Elements(mFinishedRequestQueue) \cup Elements(mRequestQueue),
               submitted, flushed)
  /\ AllBefore(Answered,
               InHand \cup Elements(mFinishedRequestQueue)
                      \cup Elements(mRequestQueue),
               submitted, flushed)

(* A transfer handed over comes after all before it, and changes nothing   *)
(* between those.                                                          *)
LEMMA BeforeGrows ==
  ASSUME NEW S, NEW s \in Seq(S), NEW e \in S
  PROVE  /\ \A a, b : Before(a, b, s) => Before(a, b, Append(s, e))
         /\ \A a \in Elements(s) : Before(a, e, Append(s, e))
<1> DEFINE t == Append(s, e)
<1>1. /\ Len(t) = Len(s) + 1 /\ Len(s) \in Nat
      /\ \A i \in 1..Len(s) : t[i] = s[i]
      /\ t[Len(s) + 1] = e
  BY AppendFacts
<1> HIDE DEF t
<1>2. ASSUME NEW a, NEW b, Before(a, b, s) PROVE Before(a, b, t)
  <2>1. PICK m \in 1..Len(s), n \in 1..Len(s) : m < n /\ s[m] = a /\ s[n] = b
    BY <1>2 DEF Before
  <2>2. m \in 1..Len(t) /\ n \in 1..Len(t) /\ t[m] = a /\ t[n] = b
    BY <1>1, <2>1
  <2> QED BY <2>1, <2>2 DEF Before
<1>3. ASSUME NEW a \in Elements(s) PROVE Before(a, e, t)
  <2>1. PICK m \in 1..Len(s) : s[m] = a
    BY DEF Elements
  <2>2. /\ m \in 1..Len(t) /\ Len(s) + 1 \in 1..Len(t) /\ m < Len(s) + 1
        /\ t[m] = a /\ t[Len(s) + 1] = e
    BY <1>1, <2>1
  <2> QED BY <2>2 DEF Before
<1> QED BY <1>2, <1>3 DEF t

(* Ordered queues: appending what comes after, taking the head, appending  *)
(* what was flushed.                                                       *)
LEMMA OrderedQueues ==
  ASSUME NEW S, NEW t \in Seq(S), NEW s, NEW fl, Ordered(t, s, fl)
  PROVE  /\ \A e \in S : AllBefore(Elements(t), {e}, s, fl)
                           => Ordered(Append(t, e), s, fl)
         /\ t # <<>> => /\ Ordered(Tail(t), s, fl)
                        /\ AllBefore({Head(t)}, Elements(Tail(t)), s, fl)
         /\ \A g \in Seq(S) : Elements(g) \subseteq fl
                               => Ordered(t \o g, s, fl)
<1>1. ASSUME NEW e \in S, AllBefore(Elements(t), {e}, s, fl)
      PROVE  Ordered(Append(t, e), s, fl)
  <2> DEFINE u == Append(t, e)
  <2>1. /\ Len(u) = Len(t) + 1 /\ Len(t) \in Nat
        /\ \A i \in 1..Len(t) : u[i] = t[i]
        /\ u[Len(t) + 1] = e
    BY AppendFacts
  <2> HIDE DEF u
  <2> SUFFICES ASSUME NEW i \in 1..Len(u), NEW j \in 1..Len(u), i < j,
                      u[i] \notin fl, u[j] \notin fl
               PROVE  Before(u[i], u[j], s)
    BY DEF Ordered, u
  <2>2. i \in 1..Len(t) /\ u[i] = t[i] /\ u[i] \in Elements(t)
    BY <2>1 DEF Elements
  <2>3. CASE j \in 1..Len(t)
    BY <2>1, <2>2, <2>3 DEF Ordered
  <2>4. CASE j = Len(t) + 1
    BY <1>1, <2>1, <2>2, <2>4 DEF AllBefore
  <2> QED BY <2>1, <2>3, <2>4
<1>2. ASSUME t # <<>>
      PROVE  /\ Ordered(Tail(t), s, fl)
             /\ AllBefore({Head(t)}, Elements(Tail(t)), s, fl)
  <2> DEFINE u == Tail(t)
  <2>1. /\ Len(t) \in Nat /\ Len(t) > 0 /\ Len(u) = Len(t) - 1
        /\ Head(t) = t[1] /\ \A i \in 1..Len(t) - 1 : u[i] = t[i + 1]
    BY <1>2, TailFacts
  <2> HIDE DEF u
  <2>2. \A i \in 1..Len(u) : i + 1 \in 1..Len(t) /\ u[i] = t[i + 1] /\ 1 < i + 1
    BY <2>1
  <2>3. ASSUME NEW i \in 1..Len(u), NEW j \in 1..Len(u), i < j
        PROVE  i + 1 < j + 1
    BY <2>1, <2>3
  <2>4. Ordered(u, s, fl)
    BY <2>2, <2>3 DEF Ordered
  <2>5. 1 \in 1..Len(t)
    BY <2>1
  <2>6. AllBefore({Head(t)}, Elements(u), s, fl)
    BY ZenonT(60), <2>1, <2>2, <2>5 DEF AllBefore, Elements, Ordered
  <2> QED BY <2>4, <2>6 DEF u
<1>3. ASSUME NEW g \in Seq(S), Elements(g) \subseteq fl
      PROVE  Ordered(t \o g, s, fl)
  <2> DEFINE u == t \o g
  <2>1. /\ Len(t) \in Nat /\ Len(g) \in Nat /\ Len(u) = Len(t) + Len(g)
        /\ \A i \in 1..Len(t) : u[i] = t[i]
        /\ \A i \in 1..Len(g) : u[Len(t) + i] = g[i]
    BY ConcatFacts
  <2> HIDE DEF u
  <2>2. ASSUME NEW i \in 1..Len(u), u[i] \notin fl
        PROVE  i \in 1..Len(t) /\ u[i] = t[i]
    <3>1. CASE i > Len(t)
      <4>1. i - Len(t) \in 1..Len(g) /\ Len(t) + (i - Len(t)) = i
        BY <2>1, <3>1
      <4>2. u[i] = g[i - Len(t)]
        BY <2>1, <4>1
      <4> QED BY <1>3, <2>2, <4>1, <4>2 DEF Elements
    <3> QED BY <2>1, <3>1
  <2>3. Ordered(u, s, fl)
    BY <2>2 DEF Ordered
  <2> QED BY <2>3 DEF u
<1> QED BY <1>1, <1>2, <1>3

(* What was in order stays so when more is handed over or flushed.         *)
LEMMA OrderGrows ==
  ASSUME NEW S, NEW s \in Seq(S), NEW s2, NEW fl, NEW fl2, fl \subseteq fl2,
         s2 = s \/ \E e \in S : s2 = Append(s, e)
  PROVE  /\ \A t : Ordered(t, s, fl) => Ordered(t, s2, fl2)
         /\ \A A, B : AllBefore(A, B, s, fl) => AllBefore(A, B, s2, fl2)
<1>1. \A a, b : Before(a, b, s) => Before(a, b, s2)
  BY BeforeGrows
<1> QED BY <1>1 DEF Ordered, AllBefore

(* The head of the queue is over: it goes behind all that is finished.     *)
LEMMA HeadKeepsOrder ==
  ASSUME QueueInv, OrderInv, mRequestQueue # <<>>,
         UNCHANGED <<current, reports, submitted, flushed>>,
         mRequestQueue' = Tail(mRequestQueue),
         mFinishedRequestQueue'
           = Append(mFinishedRequestQueue, Head(mRequestQueue))
  PROVE  OrderInv'
<1> DEFINE h == Head(mRequestQueue)
           rest == Tail(mRequestQueue)
           more == Append(mFinishedRequestQueue, h)
<1>1. /\ mRequestQueue \in Seq(Requests) /\ rest \in Seq(Requests)
      /\ mFinishedRequestQueue \in Seq(Requests)
      /\ h \in Requests
  BY HeadFacts DEF QueueInv, UsbTypeOK
<1>2. /\ Elements(mRequestQueue) = Elements(rest) \cup {h}
      /\ Elements(more) = Elements(mFinishedRequestQueue) \cup {h}
  BY <1>1, ElementsAreHeadAndTail, ElementsOfAppend
<1>3. /\ Elements(mRequestQueue)' = Elements(rest)
      /\ Elements(mFinishedRequestQueue)' = Elements(more)
      /\ InHand' = InHand /\ Answered' = Answered
      /\ mRequestQueue' = rest /\ mFinishedRequestQueue' = more
      /\ submitted' = submitted /\ flushed' = flushed
  BY DEF Elements, InHand, Answered
<1>4. /\ Ordered(rest, submitted, flushed)
      /\ AllBefore({h}, Elements(rest), submitted, flushed)
  BY <1>1, OrderedQueues DEF OrderInv
<1>5. Ordered(more, submitted, flushed)
  <2>1. AllBefore(Elements(mFinishedRequestQueue), {h}, submitted, flushed)
    BY <1>2 DEF OrderInv, AllBefore
  <2> QED BY <1>1, <2>1, OrderedQueues DEF OrderInv
<1> HIDE DEF h, rest, more
<1>6. /\ AllBefore(Elements(more), Elements(rest), submitted, flushed)
      /\ AllBefore(InHand, Elements(more) \cup Elements(rest), submitted, flushed)
      /\ AllBefore(Answered, InHand \cup Elements(more) \cup Elements(rest),
                   submitted, flushed)
  BY <1>2, <1>4 DEF OrderInv, AllBefore
<1> QED BY <1>3, <1>4, <1>5, <1>6 DEF OrderInv

(* A transfer handed over goes behind all others; if the controller        *)
(* refuses it at once, nothing waits that it could overtake.               *)
LEMMA TransferKeepsOrder ==
  ASSUME QueueInv, OneOwner, OrderInv, NEW r \in Requests, NEW ok \in BOOLEAN,
         Transfer(r, ok)
  PROVE  OrderInv'
<1>1. /\ submitted' = Append(submitted, r)
      /\ UNCHANGED <<current, reports, flushed>>
      /\ \/ /\ mRequestQueue' = Append(mRequestQueue, r)
            /\ UNCHANGED mFinishedRequestQueue
         \/ /\ mFinishedRequestQueue' = Append(mFinishedRequestQueue, r)
            /\ UNCHANGED mRequestQueue
            /\ mRequestQueue = <<>>
  BY DEF Transfer, ReqQueueRequest, reportVars, QueueInv, IdleQueueIsEmpty
<1>2. /\ mRequestQueue \in Seq(Requests) /\ submitted \in Seq(Requests)
      /\ mFinishedRequestQueue \in Seq(Requests)
  BY DEF QueueInv, UsbTypeOK
<1>3. /\ InHand' = InHand /\ Answered' = Answered
  BY <1>1 DEF InHand, Answered
<1>4. /\ Ordered(mRequestQueue, submitted', flushed)
      /\ Ordered(mFinishedRequestQueue, submitted', flushed)
      /\ \A A, B : AllBefore(A, B, submitted, flushed)
                   => AllBefore(A, B, submitted', flushed)
  BY <1>1, <1>2, OrderGrows DEF OrderInv
<1>5. \A A : A \subseteq Elements(submitted)
              => AllBefore(A, {r}, submitted', flushed)
  BY <1>1, <1>2, BeforeGrows DEF AllBefore
<1>6. /\ AllBefore(Elements(mRequestQueue), {r}, submitted', flushed)
      /\ AllBefore(Elements(mFinishedRequestQueue), {r}, submitted', flushed)
      /\ AllBefore(InHand, {r}, submitted', flushed)
      /\ AllBefore(Answered, {r}, submitted', flushed)
  BY <1>5 DEF OneOwner, InHand
<1>7. /\ AllBefore(Elements(mFinishedRequestQueue), Elements(mRequestQueue),
                   submitted', flushed)
      /\ AllBefore(InHand,
                   Elements(mFinishedRequestQueue) \cup Elements(mRequestQueue),
                   submitted', flushed)
      /\ AllBefore(Answered,
                   InHand \cup Elements(mFinishedRequestQueue)
                          \cup Elements(mRequestQueue),
                   submitted', flushed)
  BY <1>4 DEF OrderInv
<1>8. CASE /\ mRequestQueue' = Append(mRequestQueue, r)
           /\ UNCHANGED mFinishedRequestQueue
  <2>1. /\ Elements(mRequestQueue)' = Elements(mRequestQueue) \cup {r}
        /\ Elements(mFinishedRequestQueue)' = Elements(mFinishedRequestQueue)
    <3>1. Elements(Append(mRequestQueue, r)) = Elements(mRequestQueue) \cup {r}
      BY <1>2, ElementsOfAppend
    <3> QED BY <1>8, <3>1 DEF Elements
  <2>2. Ordered(Append(mRequestQueue, r), submitted', flushed)
    BY <1>2, <1>4, <1>6, OrderedQueues
  <2> QED BY <1>1, <1>3, <1>4, <1>6, <1>7, <1>8, <2>1, <2>2
      DEF OrderInv, AllBefore
<1>9. CASE /\ mFinishedRequestQueue' = Append(mFinishedRequestQueue, r)
           /\ UNCHANGED mRequestQueue /\ mRequestQueue = <<>>
  <2>1. /\ Elements(mFinishedRequestQueue)'
             = Elements(mFinishedRequestQueue) \cup {r}
        /\ Elements(mRequestQueue)' = {} /\ Elements(mRequestQueue) = {}
    <3>1. Elements(Append(mFinishedRequestQueue, r))
            = Elements(mFinishedRequestQueue) \cup {r}
      BY <1>2, ElementsOfAppend
    <3> QED BY <1>9, <3>1 DEF Elements
  <2>2. Ordered(Append(mFinishedRequestQueue, r), submitted', flushed)
    BY <1>2, <1>4, <1>6, OrderedQueues
  <2> QED BY <1>1, <1>3, <1>4, <1>6, <1>7, <1>9, <2>1, <2>2
      DEF OrderInv, AllBefore
<1> QED BY <1>1, <1>8, <1>9

(* What an OFFLINE event moves to the finished queue is flushed.           *)
LEMMA OfflineKeepsOrder ==
  ASSUME QueueInv, OrderInv, NotifyOffline
  PROVE  OrderInv'
<1> DEFINE keep == IF mRequestQueue # <<>> /\ mRequestState = "TRANSFER"
                     THEN 1 ELSE 0
           kept == SubSeq(mRequestQueue, 1, keep)
           gone == SubSeq(mRequestQueue, keep + 1, Len(mRequestQueue))
<1>1. /\ mRequestQueue \in Seq(Requests) /\ submitted \in Seq(Requests)
      /\ mFinishedRequestQueue \in Seq(Requests)
  BY DEF QueueInv, UsbTypeOK
<1>2. keep \in 0..1 /\ keep <= Len(mRequestQueue)
  BY <1>1
<1>3. /\ mRequestQueue' = kept
      /\ mFinishedRequestQueue' = mFinishedRequestQueue \o gone
      /\ flushed' = flushed \cup Elements(gone)
      /\ UNCHANGED <<current, reports, submitted>>
  BY DEF NotifyOffline, GadgetOffline, reportVars
<1> HIDE DEF keep
<1>4. /\ gone \in Seq(Requests) /\ Len(kept) = keep
      /\ \A i \in 1..keep : kept[i] = mRequestQueue[i]
  BY <1>1, <1>2, SubSeqFacts
<1>5. Elements(kept) \subseteq Elements(mRequestQueue)
  BY <1>1, <1>2, <1>4 DEF Elements
<1> HIDE DEF kept, gone
<1>6. Elements(mFinishedRequestQueue \o gone)
        = Elements(mFinishedRequestQueue) \cup Elements(gone)
  BY <1>1, <1>4, ElementsOfConcat
<1>7. /\ Elements(mRequestQueue)' \subseteq Elements(mRequestQueue)
      /\ Elements(mFinishedRequestQueue)' \ flushed'
           \subseteq Elements(mFinishedRequestQueue) \ flushed
      /\ InHand' = InHand /\ Answered' = Answered
      /\ flushed \subseteq flushed' /\ submitted' = submitted
  BY <1>3, <1>5, <1>6 DEF Elements, InHand, Answered
<1>8. Ordered(kept, submitted, flushed')
  BY <1>2, <1>4 DEF Ordered
<1>9. Ordered(mFinishedRequestQueue \o gone, submitted, flushed')
  <2>1. Ordered(mFinishedRequestQueue, submitted, flushed')
    BY <1>1, <1>7, OrderGrows DEF OrderInv
  <2>2. Elements(gone) \subseteq flushed'
    BY <1>3
  <2> QED BY <1>1, <1>4, <2>1, <2>2, OrderedQueues
<1> QED BY <1>3, <1>7, <1>8, <1>9 DEF OrderInv, AllBefore

(* ReportEvents takes the oldest, and hands it on before it takes another. *)
LEMMA ReportKeepsOrder ==
  ASSUME QueueInv, HandInv, OrderInv, Report
  PROVE  OrderInv'
<1> USE DEF queueVars, entryVars, deviceVars, reportVars
<1>1. UNCHANGED <<mRequestQueue, submitted, flushed>>
  BY DEF Report, ReportStart, ReportState, ReportLoop, ReportTransfer
<1>2. Elements(mRequestQueue)' = Elements(mRequestQueue)
  BY <1>1 DEF Elements
<1>3. ASSUME TakeFinished, current = None, reports' = reports
      PROVE  OrderInv'
  <2>1. mFinishedRequestQueue \in Seq(Requests) /\ Answered' = Answered
    BY <1>3 DEF QueueInv, UsbTypeOK, Answered
  <2>2. CASE mFinishedRequestQueue # <<>>
    <3> DEFINE h == Head(mFinishedRequestQueue)
               rest == Tail(mFinishedRequestQueue)
    <3>1. /\ mFinishedRequestQueue' = rest /\ current' = h
          /\ Elements(mFinishedRequestQueue) = Elements(rest) \cup {h}
          /\ Ordered(rest, submitted, flushed)
          /\ AllBefore({h}, Elements(rest), submitted, flushed)
      BY <1>3, <2>1, <2>2, ElementsAreHeadAndTail, OrderedQueues
      DEF TakeFinished, OrderInv
    <3>2. /\ Elements(mFinishedRequestQueue)' = Elements(rest)
          /\ InHand' \subseteq {h}
      BY <3>1 DEF Elements, InHand
    <3> HIDE DEF h, rest
    <3> QED BY <1>1, <1>2, <2>1, <3>1, <3>2 DEF OrderInv, AllBefore
  <2>3. CASE mFinishedRequestQueue = <<>>
    <3>1. current' = None /\ UNCHANGED mFinishedRequestQueue
      BY <1>3, <2>3 DEF TakeFinished
    <3>2. /\ Elements(mFinishedRequestQueue)' = Elements(mFinishedRequestQueue)
          /\ InHand' = InHand
      BY <1>3, <3>1 DEF Elements, InHand
    <3> QED BY <1>1, <1>2, <2>1, <3>1, <3>2 DEF OrderInv
  <2> QED BY <2>2, <2>3
<1>4. ASSUME UNCHANGED <<mFinishedRequestQueue, current, reports>>
      PROVE  OrderInv'
  BY <1>1, <1>4 DEF OrderInv, Elements, InHand, Answered
<1>5. ASSUME NEW status \in Statuses, ReportTransfer(status)
      PROVE  OrderInv'
  <2> DEFINE rep == [req |-> current, status |-> status,
                     size |-> bytes_written[current]]
  <2>1. /\ current \in Requests /\ current # None
        /\ rep \in Notifications /\ reports \in Seq(Notifications)
    BY <1>5 DEF QueueInv, UsbTypeOK, HandInv, ReportTransfer, Notifications
  <2>2. /\ reports' = Append(reports, rep) /\ rep.req = current
        /\ current' = None /\ UNCHANGED mFinishedRequestQueue
    BY <1>5 DEF ReportTransfer
  <2> HIDE DEF rep
  <2>3. /\ Answered' = Answered \cup {current} /\ InHand = {current}
        /\ InHand' = {}
        /\ Elements(mFinishedRequestQueue)' = Elements(mFinishedRequestQueue)
    BY <2>1, <2>2, AnsweredGrows DEF InHand, Elements
  <2> QED BY <1>1, <1>2, <2>2, <2>3 DEF OrderInv, AllBefore
<1>6. CASE ReportStart
  <2>1. pc = "idle" /\ current = None /\ reports' = reports
    BY <1>6 DEF ReportStart, HandInv
  <2> QED BY <1>3, <1>4, <1>6, <2>1 DEF ReportStart
<1>7. CASE ReportState
  BY <1>4, <1>7 DEF ReportState
<1>8. CASE ReportLoop
  <2>1. pc = "client" /\ current = None /\ reports' = reports /\ TakeFinished
    BY <1>8 DEF ReportLoop, HandInv
  <2> QED BY <1>3, <2>1
<1> QED BY <1>5, <1>6, <1>7, <1>8 DEF Report

(* Transfers that no OFFLINE event flushed are answered in the order they  *)
(* were handed over.                                                       *)
THEOREM AnswersAreInOrder == UsbSpec => []AnswersKeepOrder
<1> USE DEF queueVars, entryVars, deviceVars, reportVars
<1>1. UsbInit => OrderInv /\ AnswersKeepOrder
  BY DEF UsbInit, OrderInv, Ordered, AllBefore, InHand, Elements, Answered,
         AnswersKeepOrder
<1>2. ASSUME QueueInv, HandInv, OneOwner, OrderInv, [UsbNext]_usbVars
      PROVE  OrderInv'
  <2>1. ASSUME UNCHANGED <<mRequestQueue, mFinishedRequestQueue, current,
                           reports, submitted, flushed>>
        PROVE  OrderInv'
    BY <1>2, <2>1 DEF OrderInv, Elements, InHand, Answered
  <2>2. CASE Client
    BY <1>2, <2>2, TransferKeepsOrder DEF Client
  <2>3. CASE Complete \/ Restart
    <3>1. UNCHANGED <<current, reports, submitted, flushed>>
      BY <2>3 DEF Complete, ReqComplete, Restart, RestartQueue
    <3>2. \/ UNCHANGED <<mRequestQueue, mFinishedRequestQueue>>
          \/ /\ mRequestQueue # <<>>
             /\ mRequestQueue' = Tail(mRequestQueue)
             /\ mFinishedRequestQueue'
                  = Append(mFinishedRequestQueue, Head(mRequestQueue))
      BY <2>3 DEF Complete, ReqComplete, Finish, ReqQueueRequest, Restart,
                  RestartQueue
    <3> QED BY <1>2, <2>1, <3>1, <3>2, HeadKeepsOrder
  <2>4. CASE NotifyOffline
    BY <1>2, <2>4, OfflineKeepsOrder
  <2>5. CASE Report
    BY <1>2, <2>5, ReportKeepsOrder
  <2>6. CASE Start \/ Stop \/ NotifyOnline \/ UNCHANGED usbVars
    BY <2>1, <2>6 DEF Start, Stop, NotifyOnline, usbVars
  <2> QED BY <1>2, <2>2, <2>3, <2>4, <2>5, <2>6 DEF UsbNext
<1>3. ASSUME QueueInv, HandInv, OrderInv, AnswersKeepOrder, [UsbNext]_usbVars
      PROVE  AnswersKeepOrder'
  <2>1. submitted' = submitted \/ \E r \in Requests : submitted' = Append(submitted, r)
    BY <1>3 DEF UsbNext, usbVars, Start, Stop, Client, Transfer, Complete,
                ReqComplete, Restart, RestartQueue, NotifyOnline, NotifyOffline,
                Report, ReportStart, ReportState, ReportLoop, ReportTransfer
  <2>2. submitted \in Seq(Requests) /\ reports \in Seq(Notifications)
    BY <1>3 DEF QueueInv, UsbTypeOK
  <2>3. \A a, b : Before(a, b, submitted) => Before(a, b, submitted')
    BY <2>1, <2>2, BeforeGrows
  <2>4. flushed \subseteq flushed'
    BY <1>3, FlushedGrows
  <2>5. \A i, j \in 1..Len(reports) :
           /\ i < j /\ reports[i].req \notin flushed'
           /\ reports[j].req \notin flushed'
           => Before(reports[i].req, reports[j].req, submitted')
    <3>1. \A i, j \in 1..Len(reports) :
             /\ i < j /\ reports[i].req \notin flushed
             /\ reports[j].req \notin flushed
             => Before(reports[i].req, reports[j].req, submitted)
      BY <1>3 DEF AnswersKeepOrder, Before
    <3> QED BY <2>3, <2>4, <3>1
  <2>6. ASSUME reports' = reports PROVE AnswersKeepOrder'
    BY <2>5, <2>6 DEF AnswersKeepOrder, Before
  <2>7. ASSUME NEW status \in Statuses, ReportTransfer(status)
        PROVE  AnswersKeepOrder'
    <3> DEFINE rep == [req |-> current, status |-> status,
                       size |-> bytes_written[current]]
    <3>1. /\ current \in Requests /\ current # None /\ rep \in Notifications
      BY <1>3, <2>7 DEF QueueInv, UsbTypeOK, HandInv, ReportTransfer,
                        Notifications
    <3>2. reports' = Append(reports, rep) /\ rep.req = current
      BY <2>7 DEF ReportTransfer
    <3> HIDE DEF rep
    <3>3. /\ Len(reports') = Len(reports) + 1 /\ Len(reports) \in Nat
          /\ \A i \in 1..Len(reports) : reports'[i] = reports[i]
          /\ reports'[Len(reports) + 1] = rep
      BY <2>2, <3>1, <3>2, AppendFacts
    <3>4. \A i \in 1..Len(reports) :
             /\ reports[i].req \notin flushed' /\ current \notin flushed'
             => Before(reports[i].req, current, submitted')
      BY <1>3, <2>3, <2>4, <3>1 DEF OrderInv, AllBefore, Answered, InHand
    <3> SUFFICES ASSUME NEW i \in 1..Len(reports'), NEW j \in 1..Len(reports'),
                        i < j, reports'[i].req \notin flushed',
                        reports'[j].req \notin flushed'
                 PROVE  Before(reports'[i].req, reports'[j].req, submitted')
      BY DEF AnswersKeepOrder, Before
    <3>5. i \in 1..Len(reports) /\ reports'[i] = reports[i]
      BY <3>3
    <3>6. CASE j \in 1..Len(reports)
      BY <2>5, <3>3, <3>5, <3>6
    <3>7. CASE j = Len(reports) + 1
      BY <3>2, <3>3, <3>4, <3>5, <3>7
    <3> QED BY <3>3, <3>6, <3>7
  <2>8. ASSUME ~(\E status \in Statuses : ReportTransfer(status))
        PROVE  reports' = reports
    BY <1>3, <2>8 DEF UsbNext, usbVars, Start, Stop, Client, Transfer, Complete,
                ReqComplete, Restart, RestartQueue, NotifyOnline, NotifyOffline,
                Report, ReportStart, ReportState, ReportLoop
  <2> QED BY <2>6, <2>7, <2>8
<1> QED BY <1>1, <1>2, <1>3, OwnershipInvariant, PTL DEF UsbSpec
=============================================================================
