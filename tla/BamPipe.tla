------------------------------ MODULE BamPipe ------------------------------
(***************************************************************************)
(* A system pipe of the BAM data mover (bam.c): a ring of descriptors that *)
(* the driver fills and the engine, told by the event register how far it  *)
(* may go, empties.  A pipe is a record:                                   *)
(*   desc     slot -> the buffer piece its descriptor names, Nobody if none*)
(*   current  the slot the next descriptor is written to                   *)
(*   offset   the slot after the one the engine was last seen at           *)
(*   event    the slot the engine must stop at                             *)
(*   sw_ofst  the engine's own position                                    *)
(* Offsets are counted in descriptors; the code counts eight bytes each.   *)
(***************************************************************************)
EXTENDS Integers, Sequences

CONSTANTS BAM_FIFO_SIZE,  \* slots of a ring
          BamDescBlocks   \* blocks one descriptor can hold

Slots  == 0..(BAM_FIFO_SIZE - 1)
Nobody == [call |-> 0, at |-> 0, n |-> 0]

(* bam_init, bam_sys_pipe_init and bam_pipe_fifo_init: an empty ring.      *)
BamPipeInit == [desc |-> [i \in Slots |-> Nobody], current |-> 0,
                offset |-> 1, event |-> 0, sw_ofst |-> 0]

FifoGetNext(slot) == IF slot = BAM_FIFO_SIZE - 1 THEN 0 ELSE slot + 1

BamAddOneDesc(pipe, piece) ==
  [pipe EXCEPT !.desc[pipe.current] = piece, !.current = FifoGetNext(@)]

(* The mask that wraps the event offset is right for a ring whose size is  *)
(* a power of two.                                                         *)
BamSysGenEvent(pipe, num_desc) ==
  IF num_desc >= BAM_FIFO_SIZE THEN pipe
  ELSE [pipe EXCEPT !.event = (num_desc - 1 + pipe.offset) % BAM_FIFO_SIZE]

(* n blocks of the buffer of a call, in descriptors as long as can be.     *)
BamAddDesc(pipe, call, at, n) ==
  LET num == (n + BamDescBlocks - 1) \div BamDescBlocks
      piece(k) == [call |-> call, at |-> at + (k - 1) * BamDescBlocks,
                   n |-> IF k < num THEN BamDescBlocks
                         ELSE n - (num - 1) * BamDescBlocks]
      added[k \in 0..num] ==
        IF k = 0 THEN pipe ELSE BamAddOneDesc(added[k - 1], piece(k))
  IN  IF n > BAM_FIFO_SIZE * BamDescBlocks THEN [s |-> pipe, ret |-> 1]
      ELSE [s |-> BamSysGenEvent(added[num], num), ret |-> 0]

(* The descriptors the engine has been given and not gone through.         *)
Given(pipe) ==
  LET n == (pipe.event - pipe.sw_ofst) % BAM_FIFO_SIZE
  IN  [k \in 1..n |-> pipe.desc[(pipe.sw_ofst + k - 1) % BAM_FIFO_SIZE]]

EngineRuns(pipe) == [pipe EXCEPT !.sw_ofst = pipe.event]

BamReadOffsetUpdateBug(pipe) ==
  [pipe EXCEPT !.current = pipe.sw_ofst, !.offset = pipe.sw_ofst]

BamReadOffsetUpdate(pipe) ==
  [pipe EXCEPT !.current = pipe.sw_ofst,
               !.offset = (pipe.sw_ofst + 1) % BAM_FIFO_SIZE]
=============================================================================
