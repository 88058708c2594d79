------------------------------- MODULE I2cQup -------------------------------
(***************************************************************************)
(* The I2C controller (i2c_qup.c): the transfer loop, which packs messages *)
(* into the output FIFO two entries to a word and empties the input FIFO,  *)
(* its interrupt handler, and the controller with the device behind it.    *)
(*   d    the driver: pc is where in qup_i2c_xfer it is, m the message the *)
(*        pointer msgs is at, msg what dev->msg is (0 for NULL), carry the *)
(*        entry not yet written; the other fields have the source's names  *)
(*   hw   the controller: the entries to go out, the bytes that came in    *)
(*        and the words they came in, what the device has yet to give and  *)
(*        has seen of this group, and what went wrong                      *)
(* Byte j of message i is <<i, j>>.                                        *)
(***************************************************************************)
EXTENDS Integers, Sequences, SequencesExt, FiniteSetsExt

CONSTANTS
  Devices,     \* addresses on the bus
  Transfers,   \* the groups of messages: sequences of [addr, rd, len]
  out_blk_sz, out_fifo_sz, in_fifo_sz,  \* sizes in entries
  MaxReadChunk \* 256 in the code: bytes one read command can ask for

(* The block sizes are 8, 16 and 24 and the FIFO has blocks of them; a     *)
(* block, less than one read can ask for.  A message has something to say. *)
(* Nothing follows two writes in a row to one device: written by blocks,   *)
(* the START of the second may be the last entry of a block, and the byte  *)
(* after it is carried over and forgotten (IssueWrite, Pause) unless it is *)
(* of the group's last message.  No caller passes such a group.            *)
ASSUME I2cAssumption ==
  /\ out_blk_sz \in Nat /\ out_blk_sz >= 4 /\ out_blk_sz % 2 = 0
  /\ out_fifo_sz \in Nat /\ out_fifo_sz > out_blk_sz /\ out_fifo_sz % 2 = 0
  /\ in_fifo_sz \in Nat \ {0}
  /\ MaxReadChunk \in Nat /\ MaxReadChunk >= out_blk_sz
  /\ Transfers \subseteq
       Seq([addr : Devices, rd : BOOLEAN, len : Nat \ {0}])
  /\ \A g \in Transfers : \A i \in 1..(Len(g) - 2) :
       ~g[i].rd /\ g[i + 1].addr = g[i].addr => g[i + 1].rd

VARIABLES d, hw
i2cVars == <<d, hw>>

None == [op |-> "NOP", arg |-> <<>>]
Entry(op, arg) == [op |-> op, arg |-> arg]

I2cInit ==
  /\ d = [pc |-> "idle", msgs |-> <<>>, m |-> 0, msg |-> 0, rem |-> 0,
          pos |-> 0, cnt |-> 0, wr_sz |-> 0, filled |-> FALSE, idx |-> 0,
          carry |-> None, err |-> 0, ret |-> 0, buf |-> <<>>]
  /\ hw = [state |-> "reset", out |-> <<>>, room |-> 0, in |-> <<>>,
           words |-> 0, ask |-> <<>>, seen |-> <<>>, error |-> "none", svc |-> FALSE,
           failed |-> FALSE]

Message(i) == d.msgs[i]
This == Message(d.m)
OneOf(a, b) == IF a < b THEN a ELSE b

-----------------------------------------------------------------------------
(* qup_i2c_xfer.  The state machine may refuse any change of state, and    *)
(* every poll may run out of patience: the group is given up.              *)
QupI2cXfer ==
  /\ d.pc = "idle"
  /\ \E msgs \in Transfers :
       d' = [d EXCEPT !.pc = "next", !.msgs = msgs, !.m = 1,
                      !.rem = Len(msgs), !.ret = 0,
                      !.buf = [i \in DOMAIN msgs |-> <<>>]]
  /\ hw' = [hw EXCEPT !.state = "reset", !.out = <<>>, !.in = <<>>,
                      !.words = 0, !.ask = <<>>, !.seen = <<>>, !.error = "none",
                      !.svc = FALSE, !.failed = FALSE]

OutErr(t, ret) == [t EXCEPT !.pc = "idle", !.msg = 0, !.pos = 0, !.err = 0,
                            !.cnt = 0, !.ret = ret]
GiveUp == /\ d.pc \in {"next", "pause", "run", "reset", "writeready"}
          /\ d' = OutErr(d, -1) /\ UNCHANGED hw

(* qup_set_wr_mode: the messages that will be written with this one, and   *)
(* the entries they take, told to the controller if not all fit the FIFO.  *)
Joined(i) ==
  {k \in i..Len(d.msgs) :
     \A j \in i..k : Message(j).addr = Message(i).addr /\ ~Message(j).rd}
WriteLen(i) ==
  LET len[k \in Joined(i)] ==
        Message(k).len + IF k + 1 \in Joined(i) THEN 1 + len[k + 1] ELSE 0
  IN  len[i]
ByBlocks(i) == WriteLen(i) >= out_fifo_sz - 1
TotalLenBug(i) == WriteLen(i) + WriteLen(i) \div (out_blk_sz - 1)

TotalLen(i) ==
  LET len   == WriteLen(i)
      total == len + 1 + len \div (out_blk_sz - 1)
      next  == i + Cardinality(Joined(i))
      read  == next <= Len(d.msgs) /\ Message(next).addr = Message(i).addr
  IN  IF ~read THEN total
      ELSE total + (IF total % out_blk_sz = out_blk_sz - 1 THEN 3 ELSE 2)

(* The next message: mode, then the run state.  room is how many entries   *)
(* the controller will take, -1 for as many as come.                       *)
NextMessage ==
  /\ d.pc = "next"
  /\ d.rem > 0
  /\ LET left   == This.len - d.pos
         blocks == ~This.rd /\ ByBlocks(d.m)
     IN  /\ d' = [d EXCEPT !.msg = d.m, !.err = 0, !.pc = "pause",
                    !.cnt = IF This.rd THEN OneOf(left, MaxReadChunk) ELSE left,
                    !.wr_sz = IF blocks THEN out_blk_sz ELSE out_fifo_sz,
                    !.filled = blocks]
         /\ hw' = [hw EXCEPT !.state = "run",
                             !.room = IF blocks THEN TotalLen(d.m) ELSE -1]
Finish == /\ d.pc = "next" /\ d.rem = 0
          /\ d' = OutErr(d, Len(d.msgs)) /\ UNCHANGED hw

Pause == /\ d.pc = "pause"
         /\ d' = [d EXCEPT !.pc = IF d.filled THEN "run" ELSE "fill",
                           !.idx = 0, !.carry = None]
         /\ hw' = [hw EXCEPT !.state = "pause"]

(* The words written take the entries in order; one left over is carried.  *)
Odd(idx) == idx % 4 # 0
Pending == IF Odd(d.idx) THEN <<d.carry>> ELSE <<>>

(* qup_issue_read *)
IssueRead == [idx |-> d.idx + 4, pos |-> d.pos, cnt |-> d.cnt, carry |-> None,
              words |-> Pending \o <<Entry("START", <<This.addr, TRUE>>),
                                     Entry("REC", <<d.m, d.pos, d.cnt>>)>>]

(* qup_issue_write: START, or NOP where a message goes on in the next      *)
(* block; then data, the last entry by rules of its own.                   *)
IssueWrite ==
  LET n     == Max({OneOf(d.cnt + 1, d.wr_sz - d.idx \div 2), 2})
      first == IF d.pos = 0 THEN Entry("START", <<This.addr, FALSE>>) ELSE None
      data  == [k \in 1..(n - 2) |-> Entry("DATA", <<d.m, d.pos + k>>)]
      pos   == d.pos + n - 2
      idx   == d.idx + 2 * (n - 1)
      ends  == pos = This.len - 1
      last  == Entry(IF ends /\ d.rem = 1 THEN "STOP" ELSE "DATA",
                     <<d.m, pos + 1>>)
      next  == Message(d.m + 1)
      front == Pending \o <<first>> \o data
      wrote(i, words, carry) ==
        [idx |-> i, pos |-> pos + 1, cnt |-> This.len - pos - 1,
         words |-> words, carry |-> carry]
  IN  CASE Odd(idx) \/ d.rem = 1 -> wrote(idx + 2, front \o <<last>>, None)
        [] ~Odd(idx) /\ d.rem > 1 /\ next.addr = This.addr /\ next.rd
             /\ idx = d.wr_sz * 2 - 4
             -> wrote(idx + 4, front \o <<last, None>>, None)
        [] ~Odd(idx) /\ d.rem > 1 /\ ends /\ idx < d.wr_sz * 2
             /\ next.addr # This.addr
             -> wrote(idx + 4, front \o <<[last EXCEPT !.op = "STOP"]>>, None)
        [] OTHER -> wrote(idx + 2, front, last)

(* One message into the FIFO, and the next one too if it is for the same   *)
(* address and there is room.                                              *)
Fill ==
  /\ d.pc = "fill"
  /\ LET w    == IF This.rd THEN IssueRead ELSE IssueWrite
         more == /\ w.idx < d.wr_sz * 2 /\ ~This.rd /\ d.rem > 1
                 /\ Message(d.m + 1).addr = This.addr
         t    == [d EXCEPT !.idx = w.idx, !.carry = w.carry]
     IN  /\ hw' = [hw EXCEPT !.out = @ \o w.words]
         /\ d' = IF more
                 THEN [t EXCEPT !.rem = @ - 1, !.m = @ + 1, !.msg = d.m + 1,
                         !.pos = 0,
                         !.cnt = OneOf(Message(d.m + 1).len, MaxReadChunk)]
                 ELSE [t EXCEPT !.pos = w.pos, !.cnt = w.cnt, !.pc = "run",
                                !.filled = TRUE]

Run == /\ d.pc = "run"
       /\ d' = [d EXCEPT !.pc = "check"] /\ hw' = [hw EXCEPT !.state = "run"]

(* What the interrupt handler left is looked at here and nowhere else.     *)
CheckErr == /\ d.pc = "check"
            /\ d' = IF d.err # 0 THEN OutErr(d, -1)
                    ELSE [d EXCEPT !.pc = "drain"]
            /\ UNCHANGED hw

Drain(t) ==
  LET i == OneOf(Len(hw.in), Message(t.msg).len - t.pos)
  IN  [t EXCEPT !.buf[t.msg] = @ \o SubSeq(hw.in, 1, i), !.pos = @ + i,
                !.cnt = @ - i]

DrainFifo ==
  /\ d.pc = "drain"
  /\ LET t == IF Message(d.msg).rd THEN Drain(d)
              ELSE [d EXCEPT !.filled = FALSE]
     IN  d' = [t EXCEPT !.pc = IF t.cnt > 0 THEN "pause" ELSE "end"]
  /\ hw' = IF Message(d.msg).rd THEN [hw EXCEPT !.in = <<>>, !.words = 0] ELSE hw

(* A long read comes in several commands.                                  *)
MessageEnds == d.cnt = 0 /\ This.len = d.pos

EndMessage ==
  /\ d.pc = "end"
  /\ LET t == IF MessageEnds THEN [d EXCEPT !.rem = @ - 1, !.m = @ + 1, !.pos = 0]
              ELSE d
     IN  d' = [t EXCEPT !.pc = IF t.cnt = 0 /\ t.rem > 0 THEN "reset"
                               ELSE "writeready"]
  /\ UNCHANGED hw

(* qup_i2c_poll_clock_ready, then the reset state.                         *)
ResetState ==
  /\ d.pc = "reset" /\ hw.out = <<>>
  /\ d' = [d EXCEPT !.pc = "writeready"]
  /\ hw' = [hw EXCEPT !.state = "reset", !.in = <<>>, !.words = 0,
                      !.ask = <<>>, !.svc = FALSE]

(* qup_i2c_poll_writeready: a read, or the end, waits for a quiet bus.     *)
BusActive == hw.out # <<>> \/ hw.ask # <<>>
PollWriteReady ==
  /\ d.pc = "writeready"
  /\ (Message(d.msg).rd \/ d.rem = 0) => ~BusActive \/ hw.room = 0
  /\ d' = [d EXCEPT !.pc = "next"] /\ UNCHANGED hw

-----------------------------------------------------------------------------
(* qup_i2c_interrupt.  An I2C error resets the state machine; any other    *)
(* interrupt, of a read only if there is something to read, clears err.    *)
QupI2cInterrupt ==
  /\ d.pc \notin {"idle", "next"} /\ d.msg # 0
  /\ hw.error # "none" \/ hw.svc
  /\ IF hw.error = "none"
     THEN /\ d' = [d EXCEPT !.err = 0]
          /\ hw' = [hw EXCEPT !.svc = FALSE]
     ELSE /\ d' = [d EXCEPT !.err = 1]
          /\ hw' = IF hw.error = "i2c"
                   THEN [hw EXCEPT !.error = "none", !.state = "reset",
                           !.out = <<>>, !.in = <<>>, !.words = 0,
                           !.ask = <<>>, !.svc = FALSE]
                   ELSE [hw EXCEPT !.error = "none"]

(* The controller sends its entries one by one; a read command makes the   *)
(* device give its bytes.  The device or the bus may refuse anything.      *)
HwSends ==
  /\ hw.state = "run" /\ hw.out # <<>> /\ hw.room # 0 /\ hw.ask = <<>>
  /\ LET e == Head(hw.out)
     IN  hw' = [hw EXCEPT !.out = Tail(@), !.svc = TRUE,
                  !.room = IF @ > 0 THEN @ - 1 ELSE @,
                  !.seen = IF e.op \in {"START", "DATA", "STOP"}
                           THEN Append(@, e) ELSE @,
                  !.ask = IF e.op = "REC"
                          THEN [k \in 1..e.arg[3] |-> <<e.arg[1], e.arg[2] + k>>]
                          ELSE <<>>]
  /\ UNCHANGED d

(* Words come two bytes each, the last perhaps one.                        *)
HwReceives ==
  /\ hw.ask # <<>> /\ hw.state = "run" /\ hw.words < in_fifo_sz
  /\ LET n == OneOf(2, Len(hw.ask))
     IN  hw' = [hw EXCEPT !.in = @ \o SubSeq(hw.ask, 1, n), !.words = @ + 1,
                          !.ask = SubSeq(@, n + 1, Len(@)), !.svc = TRUE]
  /\ UNCHANGED d

HwFails ==
  /\ hw.state = "run" /\ BusActive /\ ~hw.failed
  /\ \E e \in {"i2c", "qup"} :
       hw' = [hw EXCEPT !.error = e, !.failed = TRUE,
                        !.out = <<>>, !.ask = <<>>]
  /\ UNCHANGED d

I2cNext ==
  \/ QupI2cXfer \/ GiveUp \/ NextMessage \/ Finish \/ Pause \/ Fill \/ Run
  \/ CheckErr \/ DrainFifo \/ EndMessage \/ ResetState \/ PollWriteReady
  \/ QupI2cInterrupt \/ HwSends \/ HwReceives \/ HwFails

I2cSpec == I2cInit /\ [][I2cNext]_i2cVars

-----------------------------------------------------------------------------
(* A group that is reported as done filled the buffer of every message it  *)
(* was to read, in order, whatever went wrong meanwhile.  Unless the bus   *)
(* failed, the device has seen what the messages say: every byte written,  *)
(* once and in order, the first of each message right after the START of   *)
(* its device; a STOP ends the group if its last message is written.       *)
Bytes(i, n) == [j \in 1..n |-> <<i, j>>]
IsByte(e)   == e.op \in {"DATA", "STOP"}
Before(b, c) == b[1] < c[1] \/ (b[1] = c[1] /\ b[2] < c[2])

(* The device has seen the messages before m and pos bytes of m.           *)
Told(g, i, j, m, pos) == ~g[i].rd /\ (i < m \/ (i = m /\ j <= pos))
SaysSoFar(g, seen, m, pos) ==
  LET said == {k \in DOMAIN seen : IsByte(seen[k])}
  IN  /\ \A k \in said : LET b == seen[k].arg IN
           /\ b[1] \in DOMAIN g /\ b[2] \in 1..g[b[1]].len
           /\ Told(g, b[1], b[2], m, pos)
           /\ b[2] = 1 => k > 1 /\ seen[k - 1] = Entry("START", <<g[b[1]].addr, FALSE>>)
      /\ \A i \in DOMAIN g : \A j \in 1..g[i].len :
           Told(g, i, j, m, pos) => \E k \in said : seen[k].arg = <<i, j>>
      /\ \A k, l \in said : k < l => Before(seen[k].arg, seen[l].arg)

TransfersAreWhole ==
  d.ret > 0 =>
    /\ \A i \in DOMAIN d.msgs :
         Message(i).rd => d.buf[i] = Bytes(i, Message(i).len)
    /\ ~hw.failed =>
         /\ SaysSoFar(d.msgs, hw.seen, Len(d.msgs) + 1, 0)
         /\ ~Message(Len(d.msgs)).rd => hw.seen[Len(hw.seen)].op = "STOP"
=============================================================================
