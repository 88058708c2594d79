----------------------------- MODULE SmdChannel -----------------------------
(***************************************************************************)
(* The shared memory channel to the power processor (RPM): smd.c and       *)
(* rpm-smd.c.  The application processor and the RPM each own one end of a *)
(* port, publish its state and the indices of two circular buffers there,  *)
(* and interrupt each other.  A request is a packet in send_buf; its       *)
(* acknowledgement comes back in recv_buf, which the driver polls.         *)
(*                                                                         *)
(* Units are words.  The flags data_written, data_read, state_updated and  *)
(* mask_recv_intr, which the driver only writes, are left out.  The RPM's  *)
(* side is modelled from what smd.c expects of it.                         *)
(***************************************************************************)
EXTENDS Integers, Sequences

CONSTANTS
  fifo_size,     \* words of each buffer
  HdrLen,        \* words of smd_pkt_hdr
  ReqLens,       \* lengths a request may have
  AckLen,        \* length of an acknowledgement
  IndexWidth,    \* indices are subtracted modulo this
  MaxRequests    \* bound: requests sent

ASSUME SmdAssumption ==
  /\ {fifo_size, HdrLen, AckLen, IndexWidth, MaxRequests} \subseteq Nat \ {0}
  /\ ReqLens \subseteq Nat \ {0}
  /\ \A len \in ReqLens \cup {AckLen} : HdrLen + len < fifo_size
  /\ fifo_size < IndexWidth

Slots == 0..(fifo_size - 1)

VARIABLES
  ch0, ch1,        \* port_info: our end and the RPM's
  send_buf, recv_buf,
  current_state,   \* ch->current_state
  alloc_entry,     \* smd_channel_alloc_entry: "none", "live", "freed",
                   \* "freed twice"
  smd_closed,      \* the event: "none", "created", "signalled"
  pc,              \* what the caller of the driver does next
  msg_id,
  len,             \* length of the request being sent
  response,
  refused,         \* smd_write returned -1 for the current request
  serving,         \* the request the RPM took and has not acknowledged
  awake,           \* the RPM was notified and has not gone back to sleep
  irq              \* the RPM's interrupt is pending

portVars == <<ch0, ch1, send_buf, recv_buf>>
callVars == <<pc, msg_id, len, response, refused>>
rpmVars  == <<serving, awake>>
smdVars  == <<portVars, current_state, alloc_entry, smd_closed, callVars,
              rpmVars, irq>>

-----------------------------------------------------------------------------
(* memcpy_to_fifo and memcpy_from_fifo start again at 0 at the end.        *)
ToFifo(buf, index, words) ==
  [i \in Slots |-> LET k == (i - index) % fifo_size
                   IN  IF k < Len(words) THEN words[k + 1] ELSE buf[i]]
FromFifo(buf, index, n) == [k \in 1..n |-> buf[(index + k - 1) % fifo_size]]
Step(index, n) == (index + n) % fifo_size

(* write_index - read_index, on unsigned integers.                         *)
Available(end) == (end.write_index - end.read_index) % IndexWidth

Header(n)   == [k \in 1..HdrLen |-> <<"hdr", n, k>>]
Request(id, n) == [k \in 1..n |-> <<"req", id, k>>]
Ack(id)     == [k \in 1..AckLen |-> <<"ack", id, k>>]
Junk        == <<"junk", 0, 0>>
PktSize(words) == IF words[1][1] = "hdr" THEN words[1][2] ELSE 0

ClosedEnd == [stream_state |-> "CLOSED", DTR_DSR |-> 0,
              read_index |-> 0, write_index |-> 0]

SmdInit ==
  /\ ch0 = ClosedEnd /\ ch1 = ClosedEnd
  /\ send_buf = [i \in Slots |-> Junk] /\ recv_buf = [i \in Slots |-> Junk]
  /\ current_state = "CLOSED" /\ alloc_entry = "none" /\ smd_closed = "none"
  /\ pc = "start" /\ msg_id = 0 /\ len = 0 /\ response = <<>>
  /\ refused = FALSE
  /\ serving = [id |-> 0, stage |-> "none"] /\ awake = FALSE /\ irq = FALSE

-----------------------------------------------------------------------------
(* smd_write_state: DTR, CTS and CD are on only in an open stream.         *)
WriteState(end, state) == [end EXCEPT !.stream_state = state,
                                      !.DTR_DSR = IF state = "OPENED" THEN 1
                                                  ELSE 0]

(* The switch of smd_set_state: where our end goes, and the indices an     *)
(* opening stream starts from.                                             *)
NextState(state) ==
  LET now == ch0.stream_state
  IN  CASE state = "CLOSED" -> IF now = "OPENED" THEN "CLOSING" ELSE "CLOSED"
        [] state = "OPENING" /\ now \in {"CLOSING", "CLOSED"} -> "OPENING"
        [] state = "OPENED"  /\ now = "OPENING" -> "OPENED"
        [] state = "CLOSING" /\ now = "OPENED"  -> "CLOSING"
        [] OTHER -> now

SetState(state) ==
  LET opens == state = "OPENING" /\ NextState(state) = "OPENING"
                 /\ ch0.stream_state # "OPENING"
      end   == WriteState(ch0, NextState(state))
  IN  /\ ch0' = IF opens THEN [end EXCEPT !.write_index = 0] ELSE end
      /\ ch1' = IF opens THEN [ch1 EXCEPT !.read_index = 0] ELSE ch1
      /\ current_state' = state

NotifyRpm == awake' = TRUE

IsChannelOpen == /\ ch0.stream_state = "OPENED"
                 /\ ch1.stream_state \in {"OPENED", "FLUSHING"}

(* smd_init, once the RPM has filled in the channel table: the interrupt   *)
(* is enabled last.                                                        *)
SmdOpen ==
  /\ pc = "start"
  /\ alloc_entry' = "live"
  /\ SetState("OPENING") /\ NotifyRpm
  /\ pc' = "idle"
  /\ UNCHANGED <<send_buf, recv_buf, smd_closed, msg_id, len, response,
                 refused, serving, irq>>

(* rpm_smd_send_data up to the packet's header, which memcpy_to_fifo       *)
(* publishes on its own; a refused write is not noticed.                   *)
SmdWriteHeader(n) ==
  /\ pc = "idle" /\ msg_id < MaxRequests
  /\ msg_id' = msg_id + 1 /\ len' = n
  /\ HdrLen + n <= fifo_size /\ IsChannelOpen /\ ch0.DTR_DSR = 1
  /\ send_buf' = ToFifo(send_buf, ch0.write_index, Header(n))
  /\ ch0' = [ch0 EXCEPT !.write_index = Step(@, HdrLen)]
  /\ refused' = FALSE /\ pc' = "payload"
  /\ UNCHANGED <<ch1, recv_buf, current_state, alloc_entry, smd_closed,
                 response, rpmVars, irq>>

SmdWriteRefused(n) ==
  /\ pc = "idle" /\ msg_id < MaxRequests
  /\ msg_id' = msg_id + 1 /\ len' = n
  /\ ~(HdrLen + n <= fifo_size /\ IsChannelOpen /\ ch0.DTR_DSR = 1)
  /\ refused' = TRUE /\ pc' = "recv"
  /\ UNCHANGED <<portVars, current_state, alloc_entry, smd_closed, response,
                 rpmVars, irq>>

WritePayloadUnnotifiedBug ==
  /\ pc = "payload"
  /\ send_buf' = ToFifo(send_buf, ch0.write_index, Request(msg_id, len))
  /\ ch0' = [ch0 EXCEPT !.write_index = Step(@, len)]
  /\ pc' = "recv"
  /\ UNCHANGED <<ch1, recv_buf, current_state, alloc_entry, smd_closed,
                 msg_id, len, response, refused, rpmVars, irq>>

SmdWritePayload ==
  /\ pc = "payload"
  /\ send_buf' = ToFifo(send_buf, ch0.write_index, Request(msg_id, len))
  /\ ch0' = [ch0 EXCEPT !.write_index = Step(@, len)]
  /\ NotifyRpm
  /\ pc' = "recv"
  /\ UNCHANGED <<ch1, recv_buf, current_state, alloc_entry, smd_closed,
                 msg_id, len, response, refused, serving, irq>>

(* smd_read asserts that the RPM's end is on.                              *)
SmdReadEnter ==
  /\ pc = "recv"
  /\ pc' = IF ch1.DTR_DSR = 1 THEN "header" ELSE "asserted"
  /\ UNCHANGED <<portVars, current_state, alloc_entry, smd_closed, msg_id, len,
                 response, refused, rpmVars, irq>>

SmdReadHeader ==
  /\ pc = "header" /\ Available(ch1) >= HdrLen
  /\ response' = FromFifo(recv_buf, ch1.read_index, HdrLen)
  /\ ch1' = [ch1 EXCEPT !.read_index = Step(@, HdrLen)]
  /\ pc' = "body"
  /\ UNCHANGED <<ch0, send_buf, recv_buf, current_state, alloc_entry,
                 smd_closed, msg_id, len, refused, rpmVars, irq>>

ReadBodyAtOnceBug ==
  LET n == PktSize(response)
  IN  /\ pc = "body"
      /\ response' = FromFifo(recv_buf, ch1.read_index, n)
      /\ ch1' = [ch1 EXCEPT !.read_index = Step(@, n)]
      /\ pc' = "complete"
      /\ UNCHANGED <<ch0, send_buf, recv_buf, current_state, alloc_entry,
                     smd_closed, msg_id, len, refused, rpmVars, irq>>

SmdReadBody ==
  LET n == PktSize(response)
  IN  /\ pc = "body" /\ Available(ch1) >= n
      /\ response' = FromFifo(recv_buf, ch1.read_index, n)
      /\ ch1' = [ch1 EXCEPT !.read_index = Step(@, n)]
      /\ pc' = "complete"
      /\ UNCHANGED <<ch0, send_buf, recv_buf, current_state, alloc_entry,
                     smd_closed, msg_id, len, refused, rpmVars, irq>>

(* smd_signal_read_complete; rpm_smd_send_data returns.                    *)
SmdSignalReadComplete ==
  /\ pc = "complete" /\ NotifyRpm
  /\ pc' = "idle"
  /\ UNCHANGED <<portVars, current_state, alloc_entry, smd_closed, msg_id, len,
                 response, refused, serving, irq>>

(* smd_uninit: the interrupt may come while smd_set_state has written our  *)
(* end and not yet current_state.  (Callers wait for an open channel.)     *)
SmdUninit ==
  /\ pc = "idle" /\ IsChannelOpen
  /\ smd_closed' = "created"
  /\ ch0' = WriteState(ch0, NextState("CLOSING"))
  /\ pc' = "setstate"
  /\ UNCHANGED <<ch1, send_buf, recv_buf, current_state, alloc_entry, msg_id,
                 len, response, refused, rpmVars, irq>>

SmdUninitNotify ==
  /\ pc = "setstate"
  /\ current_state' = "CLOSING" /\ NotifyRpm
  /\ pc' = "closing"
  /\ UNCHANGED <<portVars, alloc_entry, smd_closed, msg_id, len, response,
                 refused, serving, irq>>

(* WaitForEvent returns.                                                   *)

SmdUninitReturns ==
  /\ pc = "closing" /\ smd_closed = "signalled"
  /\ pc' = "closed"
  /\ UNCHANGED <<portVars, current_state, alloc_entry, smd_closed, msg_id, len,
                 response, refused, rpmVars, irq>>

(* smd_irq_handler.                                                        *)
FreeAllocEntry ==
  alloc_entry' = IF alloc_entry = "live" THEN "freed" ELSE "freed twice"

IrqWhenClosed ==
  /\ current_state = "CLOSED"
  /\ FreeAllocEntry
  /\ smd_closed' = IF smd_closed = "created" THEN "signalled" ELSE smd_closed
  /\ UNCHANGED <<portVars, current_state, awake>>

(* What smd_set_state(ch1.stream_state) and then, in CLOSING,              *)
(* smd_set_state(CLOSED) come to: the second finds our end no longer open. *)
IrqWhenOpen ==
  /\ current_state # "CLOSED"
  /\ LET state == ch1.stream_state
     IN  IF state = "CLOSING"
         THEN /\ ch0' = WriteState(ch0, "CLOSED") /\ UNCHANGED ch1
              /\ current_state' = "CLOSED" /\ NotifyRpm
         ELSE /\ IF state # current_state THEN SetState(state)
                 ELSE UNCHANGED <<ch0, ch1, current_state>>
              /\ UNCHANGED awake
  /\ UNCHANGED <<send_buf, recv_buf, alloc_entry, smd_closed>>

SmdIrqHandler ==
  /\ pc # "start" /\ irq /\ irq' = FALSE
  /\ IrqWhenClosed \/ IrqWhenOpen
  /\ UNCHANGED <<callVars, serving>>

-----------------------------------------------------------------------------
(* The RPM: it sleeps until notified, follows our end, and serves one      *)
(* request at a time, in the same two steps as smd_write.  A packet it     *)
(* cannot make out it acknowledges as request 0.                           *)
Arrived == (ch0.write_index - ch0.read_index) % fifo_size
NextPkt == FromFifo(send_buf, ch0.read_index, HdrLen)

RpmFollows(mine, yours, next) ==
  /\ ch1.stream_state = mine /\ ch0.stream_state \in yours
  /\ ch1' = IF next = "OPENING"
             THEN [WriteState(ch1, next) EXCEPT !.write_index = 0]
             ELSE WriteState(ch1, next)
  /\ ch0' = IF next = "OPENING" THEN [ch0 EXCEPT !.read_index = 0] ELSE ch0
  /\ irq' = TRUE
  /\ UNCHANGED <<send_buf, recv_buf, serving>>

RpmChangesState ==
  /\ awake /\ UNCHANGED awake
  /\ \/ RpmFollows("CLOSED", {"OPENING"}, "OPENING")
     \/ RpmFollows("OPENING", {"OPENING", "OPENED"}, "OPENED")
     \/ RpmFollows("OPENED", {"CLOSING"}, "CLOSING")
     \/ RpmFollows("CLOSING", {"CLOSED"}, "CLOSED")
  /\ UNCHANGED <<current_state, alloc_entry, smd_closed, callVars>>

RpmCanTake == /\ serving.stage = "none" /\ ch1.stream_state = "OPENED"
              /\ Arrived >= HdrLen
              /\ Arrived >= HdrLen + PktSize(NextPkt)

RpmTakes ==
  /\ awake /\ RpmCanTake
  /\ LET n    == PktSize(NextPkt)
         body == FromFifo(send_buf, Step(ch0.read_index, HdrLen), n)
     IN  /\ serving' = [id |-> IF \E id \in 1..MaxRequests :
                                    body = Request(id, n)
                               THEN body[1][2] ELSE 0,
                        stage |-> "header"]
         /\ ch0' = [ch0 EXCEPT !.read_index = Step(@, HdrLen + n)]
  /\ UNCHANGED <<ch1, send_buf, recv_buf, current_state, alloc_entry,
                 smd_closed, callVars, awake, irq>>

RpmPublishes(stage, words, next) ==
  /\ awake /\ serving.stage = stage
  /\ recv_buf' = ToFifo(recv_buf, ch1.write_index, words)
  /\ ch1' = [ch1 EXCEPT !.write_index = Step(@, Len(words))]
  /\ serving' = [serving EXCEPT !.stage = next]
  /\ UNCHANGED <<ch0, send_buf, current_state, alloc_entry, smd_closed,
                 callVars, awake>>

RpmAcknowledges ==
  \/ RpmPublishes("header", Header(AckLen), "body") /\ UNCHANGED irq
  \/ RpmPublishes("body", Ack(serving.id), "none") /\ irq' = TRUE

RpmSleeps ==
  /\ awake /\ awake' = FALSE
  /\ serving.stage = "none" /\ ~RpmCanTake
  /\ <<ch1.stream_state, ch0.stream_state>> \notin
       {<<"CLOSED", "OPENING">>, <<"OPENING", "OPENING">>,
        <<"OPENING", "OPENED">>, <<"OPENED", "CLOSING">>,
        <<"CLOSING", "CLOSED">>}
  /\ UNCHANGED <<portVars, current_state, alloc_entry, smd_closed, callVars,
                 serving, irq>>

-----------------------------------------------------------------------------
Caller == \/ SmdOpen
          \/ \E n \in ReqLens : SmdWriteHeader(n) \/ SmdWriteRefused(n)
          \/ SmdUninit
Driver == \/ SmdWritePayload \/ SmdReadEnter \/ SmdReadHeader \/ SmdReadBody
          \/ SmdSignalReadComplete \/ SmdUninitNotify \/ SmdUninitReturns
Rpm    == RpmChangesState \/ RpmTakes \/ RpmAcknowledges \/ RpmSleeps

SmdNext == Caller \/ Driver \/ SmdIrqHandler \/ Rpm

SmdSpec == SmdInit /\ [][SmdNext]_smdVars

(* A call goes on, interrupts are delivered, and the RPM does its work.    *)
FairSmdSpec == /\ SmdSpec
               /\ WF_smdVars(Driver) /\ WF_smdVars(SmdIrqHandler)
               /\ WF_smdVars(Rpm)

-----------------------------------------------------------------------------
StreamStates == {"CLOSED", "OPENING", "OPENED", "FLUSHING", "CLOSING"}
Ends == [stream_state : StreamStates, DTR_DSR : {0, 1},
         read_index : Slots, write_index : Slots]

SmdTypeOK ==
  /\ ch0 \in Ends /\ ch1 \in Ends
  /\ current_state \in StreamStates
  /\ alloc_entry \in {"none", "live", "freed", "freed twice"}
  /\ smd_closed \in {"none", "created", "signalled"}
  /\ pc \in {"start", "idle", "payload", "recv", "header", "body",
             "complete", "asserted", "setstate", "closing", "closed"}
  /\ msg_id \in 0..MaxRequests /\ len \in ReqLens \cup {0}
  /\ refused \in BOOLEAN /\ awake \in BOOLEAN /\ irq \in BOOLEAN
  /\ serving.stage \in {"none", "header", "body"}

(* What smd_read returns is the acknowledgement of the request just sent,  *)
(* whole: the two index subtractions, the wrap of both buffers and the two *)
(* publications of each packet keep the four indices in step.              *)
ResponseAnswersRequest ==
  pc = "complete" => response = Ack(msg_id)

(* A request that was accepted is answered and its call returns; the       *)
(* channel smd_init asked for opens.                                       *)
EveryCallReturns ==
  /\ pc \in {"payload", "recv", "header", "body", "complete"} /\ ~refused
       ~> pc = "idle"
  /\ current_state = "OPENING" ~> IsChannelOpen
=============================================================================
