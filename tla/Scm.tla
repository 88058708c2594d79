-------------------------------- MODULE Scm ----------------------------------
(***************************************************************************)
(* Calls into the secure world (scm.c).  The secure world sees only main   *)
(* memory, the caller sees it through its cache: a buffer both use has a   *)
(* value in memory and maybe one in the cache.  A value is the writer's    *)
(* name, "caller" or "secure", "old" before either wrote.                  *)
(***************************************************************************)
EXTENDS Integers, Sequences

CONSTANT Calls       \* the calls that are made: <<operation, whether ARMv8>>

VARIABLES
  scm,     \* [asked, op, v8, todo, ret, last, done, secured]; a step is [do, on, to]
  mem,     \* buffer -> what main memory holds
  cache,   \* buffer -> [state: none, clean or dirty; value]
  latest   \* history: buffer -> who wrote it last
scmVars == <<scm, mem, cache, latest>>

(* The command with its arguments, the response, its completion flag, the  *)
(* arguments that do not fit into registers, the caller's data, and the    *)
(* words that hold the data's address and length.                          *)
Buffers == {"cmd", "rsp", "flag", "indirect", "data", "words"}
NoLine  == [state |-> "none", value |-> "old"]

-----------------------------------------------------------------------------
Action(do, on, to) == [do |-> do, on |-> on, to |-> to]
Write(on) == Action("fill", on, {})        \* the caller writes
Clean(on) == Action("clean", on, {})       \* written back and dropped
Drop(on)  == Action("drop", on, {})        \* dropped
Smc(on, to) == Action("smc", on, to)       \* the secure world reads on, writes to
AwaitFlag == Action("await", {"flag"}, {})
Use(on)   == Action("use", on, {})         \* the caller reads

(* scm_call: the command and its response are one block of whole lines.    *)
ScmCallBug(reads, writes, respond) ==
  <<Write({"cmd", "rsp", "flag"}), Clean({"cmd"}),
    Smc({"cmd"} \cup reads, writes \cup IF respond THEN {"rsp", "flag"} ELSE {})>>
  \o IF respond THEN <<AwaitFlag, Drop({"rsp"}), Use({"rsp"})>> ELSE <<>>

ScmCall(reads, writes, respond) ==
  <<Write({"cmd", "rsp", "flag"}), Clean({"cmd", "rsp", "flag"}),
    Smc({"cmd"} \cup reads, writes \cup IF respond THEN {"rsp", "flag"} ELSE {})>>
  \o IF respond THEN <<AwaitFlag, Drop({"rsp"}), Use({"rsp"})>> ELSE <<>>

(* scm_call2 (responses are in registers), scm_call_atomic and _atomic2.   *)
ScmCall2(reads, writes, args) ==
  IF args <= 4 THEN <<Smc(reads, writes)>>
  ELSE <<Write({"indirect"}), Clean({"indirect"}), Smc({"indirect"} \cup reads, writes)>>
ScmCallAtomic == <<Smc({}, {})>>

Either(v8, reads, writes, respond, args) ==
  IF v8 THEN ScmCall2(reads, writes, args) ELSE ScmCall(reads, writes, respond)

(* What each operation does up to its call, after it whatever became of    *)
(* that, and with the results of one that succeeded.                       *)
Operation(before, after, results) == [before |-> before, after |-> after, results |-> results]
Plain(before) == Operation(before, <<>>, <<>>)
D     == {"data"}
DW    == {"data", "words"}
Given == <<Write(D)>>         \* by the caller, before the operation

RestoreSecureCfg(v8) == Plain(Either(v8, {}, {}, FALSE, 2))
(* encrypt_scm; decrypt_scm, which an ARMv8 monitor does not have: there it *)
(* returns at once.                                                        *)
EncryptKeystore(v8) ==
  Operation(<<Write(DW), Clean(D)>> \o Either(v8, DW, DW, FALSE, 2),
            <<Clean({"words"}), Clean(D)>>, <<Use(DW)>>)
DecryptKeystore(v8) == IF v8 THEN Plain(<<>>) ELSE EncryptKeystore(FALSE)
(* ssd_image_is_encrypted: again, with more of the image, while that is    *)
(* too short for its metadata.                                             *)
ParseMd(v8, again) ==
  Plain((IF again THEN <<>> ELSE <<Write(DW)>>) \o <<Clean(D)>> \o Either(v8, D, {}, TRUE, 2))
DecryptV2(v8) ==
  Operation(<<Write({"words"}), Clean(D)>> \o Either(v8, D, D, TRUE, 4),
            <<Drop({"words"}), Drop(D)>>, <<Use(DW)>>)
SvcVersion(v8) == Plain(Either(v8, {}, {}, TRUE, 1))
GetSecureState(v8) ==
  Operation(Either(v8, {}, IF v8 THEN {} ELSE D, FALSE, 0), <<>>, IF v8 THEN <<>> ELSE <<Use(D)>>)
ProtectKeystore(v8) == Plain(Given \o <<Clean(D)>> \o Either(v8, D, {}, TRUE, 2))
(* On ARMv7 a command has a copy of the caller's data; on ARMv8 the secure *)
(* world is handed the data's address, and nothing flushes the data.       *)
SetTamperFuse(v8) == Plain(IF v8 THEN Given \o ScmCall2(D, {}, 3) ELSE ScmCall({}, {}, FALSE))
GetTamperFuse(v8) == Plain(IF v8 THEN Given \o ScmCall2(D, {}, 2) ELSE ScmCall({}, {}, TRUE))
SaveKernelHash(v8) == Plain(IF v8 THEN Given \o ScmCall2(D, {}, 3) ELSE ScmCall({}, {}, FALSE))
MdtpCipherDip(v8) == Operation(Given \o Either(v8, D, D, FALSE, 5), <<>>, <<Use(D)>>)
QfpromReadRow(v8) == Operation(Either(v8, {}, D, FALSE, 4), <<>>, <<Use(D)>>)
SwitchCeChn(v8)   == Plain(IF v8 THEN <<>> ELSE ScmCall({}, {}, TRUE))
HaltPmicArbiter(v8) == Plain(IF v8 THEN ScmCall2({}, {}, 2) ELSE ScmCallAtomic)
ElexecCall(v8)    == Plain(IF v8 THEN Given \o ScmCall2(D, {}, 3) ELSE ScmCall({}, {}, FALSE))
Random(v8, ok) ==
  Operation(Given \o (IF v8 THEN <<>> ELSE <<Clean(D)>>) \o Either(v8, {}, D, FALSE, 2),
            IF ok \/ ~v8 THEN <<Clean(D)>> ELSE <<>>, <<Use(D)>>)
XpuErrFatalInit(v8) == Plain(Either(v8, {}, {}, TRUE, 2))
CheckBootFuses(v8)  == Plain(Either(v8, {}, {}, TRUE, 1))
(* scm_io_read, scm_io_write, and what dload_mode asks for                 *)
IoCall(v8) == Plain(IF v8 THEN ScmCall2({}, {}, 2) ELSE ScmCallAtomic)

OperationOf(op, v8, ok) ==
  CASE op = "restore_secure_cfg" -> RestoreSecureCfg(v8)
    [] op = "encrypt"            -> EncryptKeystore(v8)
    [] op = "decrypt"            -> DecryptKeystore(v8)
    [] op = "parse_md"           -> ParseMd(v8, FALSE)
    [] op = "parse_longer"       -> ParseMd(v8, TRUE)
    [] op = "decrypt_v2"         -> DecryptV2(v8)
    [] op = "svc_version"        -> SvcVersion(v8)
    [] op = "get_secure_state"   -> GetSecureState(v8)
    [] op = "protect_keystore"   -> ProtectKeystore(v8)
    [] op = "set_tamper_fuse"    -> SetTamperFuse(v8)
    [] op = "get_tamper_fuse"    -> GetTamperFuse(v8)
    [] op = "save_kernel_hash"   -> SaveKernelHash(v8)
    [] op = "mdtp_cipher_dip"    -> MdtpCipherDip(v8)
    [] op = "qfprom_read_row"    -> QfpromReadRow(v8)
    [] op = "switch_ce_chn"      -> SwitchCeChn(v8)
    [] op \in {"halt_pmic_arbiter", "halt_pmic_arbiter1"} -> HaltPmicArbiter(v8)
    [] op = "elexec_call"        -> ElexecCall(v8)
    [] op = "random"             -> Random(v8, ok)
    [] op = "xpu_err_fatal_init" -> XpuErrFatalInit(v8)
    [] op = "check_boot_fuses"   -> CheckBootFuses(v8)
    [] OTHER                     -> IoCall(v8)

(* The calls that keep to the rule that what the other world reads is      *)
(* flushed first, on either architecture or on one.                        *)
FlushedCalls ==
  {"restore_secure_cfg", "xpu_err_fatal_init", "svc_version", "protect_keystore",
   "switch_ce_chn", "check_boot_fuses", "io_call", "halt_pmic_arbiter", "dload_mode"} \X BOOLEAN
  \cup {"get_secure_state"} \X {TRUE}
  \cup {"set_tamper_fuse", "get_tamper_fuse", "save_kernel_hash", "elexec_call", "random"} \X {FALSE}

-----------------------------------------------------------------------------
ScmInit ==
  /\ \E c \in Calls :
       scm = [asked |-> c[1], op |-> c[1], v8 |-> c[2], todo |-> OperationOf(c[1], c[2], TRUE).before, ret |-> 0,
              last |-> "call", secured |-> TRUE]
  /\ mem    = [b \in Buffers |-> "old"]
  /\ cache  = [b \in Buffers |-> NoLine]
  /\ latest = [b \in Buffers |-> "old"]

Now      == Head(scm.todo)
Doing(d) == scm.todo # <<>> /\ Now.do = d
Advance  == scm' = [scm EXCEPT !.todo = Tail(@)]

FillBuffers ==
  /\ Doing("fill") /\ Advance /\ UNCHANGED mem
  /\ cache'  = [b \in Buffers |-> IF b \in Now.on THEN [state |-> "dirty", value |-> "caller"] ELSE cache[b]]
  /\ latest' = [b \in Buffers |-> IF b \in Now.on THEN "caller" ELSE latest[b]]

WrittenBack(S) == [b \in Buffers |-> IF b \in S /\ cache[b].state = "dirty" THEN cache[b].value ELSE mem[b]]
Dropped(S)     == [b \in Buffers |-> IF b \in S THEN NoLine ELSE cache[b]]

CleanInvalidate == /\ Doing("clean") /\ Advance /\ UNCHANGED latest
                   /\ mem' = WrittenBack(Now.on) /\ cache' = Dropped(Now.on)
Invalidate == /\ Doing("drop") /\ Advance /\ UNCHANGED <<mem, latest>>
              /\ cache' = Dropped(Now.on)

(* The secure world does what is asked, or refuses; a call that interrupts  *)
(* cut short is made again.  What it writes of the response comes later.   *)
SecureWorld ==
  /\ Doing("smc") /\ UNCHANGED cache
  /\ \/ LET w == Now.to \ {"rsp", "flag"}
        IN  /\ \E bits \in BOOLEAN :
                 scm' = [scm EXCEPT !.todo = Tail(@), !.ret = 0,
                           !.secured = IF scm.op = "check_boot_fuses" THEN bits ELSE @]
            /\ mem'    = [b \in Buffers |-> IF b \in w THEN "secure" ELSE mem[b]]
            /\ latest' = [b \in Buffers |-> IF b \in w THEN "secure" ELSE latest[b]]
     \/ /\ scm' = [scm EXCEPT !.todo = <<>>, !.ret = IF scm.op = "check_boot_fuses" THEN 0 ELSE 1,
                               !.secured = TRUE]
        /\ UNCHANGED <<mem, latest>>
Responds ==
  /\ Doing("await") /\ mem["flag"] # "secure"
  /\ mem'    = [mem EXCEPT !["rsp"] = "secure", !["flag"] = "secure"]
  /\ latest' = [latest EXCEPT !["rsp"] = "secure", !["flag"] = "secure"]
  /\ UNCHANGED <<scm, cache>>

(* The loop: the flag's line is dropped, then read.                        *)
PollFlag ==
  /\ Doing("await") /\ UNCHANGED <<mem, latest>>
  /\ cache' = [cache EXCEPT !["flag"] = NoLine]
  /\ scm' = IF mem["flag"] = "secure" THEN [scm EXCEPT !.todo = Tail(@)] ELSE scm
Seen(b) == IF cache[b].state = "none" THEN mem[b] ELSE cache[b].value
UseBuffers == Doing("use") /\ Advance /\ UNCHANGED <<mem, cache, latest>>

(* What comes after an operation: the work after its call, its results,     *)
(* and the operations that are made of several calls.                      *)
NextOp(op, ok) ==
  CASE op = "halt_pmic_arbiter" /\ ~ok    -> {"halt_pmic_arbiter1"}
    [] op = "dload_mode" /\ ~ok           -> {"dload_io_write"}
    [] op = "dload_mode" \/ (op = "dload_io_write" /\ ok) -> {"check_boot_fuses"}
    [] op = "check_boot_fuses" /\ scm.asked = "dload_mode" /\ ~scm.secured -> {"wdog_debug_disable"}
    [] op \in {"parse_md", "parse_longer"} /\ ok -> {"parse_longer", "decrypt_v2", "none"}
    [] OTHER -> {"none"}
EndCall ==
  /\ scm.todo = <<>> /\ scm.last # "end" /\ UNCHANGED <<mem, cache, latest>>
  /\ IF scm.last = "call"
     THEN LET o == OperationOf(scm.op, scm.v8, scm.ret = 0)
          IN  scm' = [scm EXCEPT !.last = "after",
                        !.todo = o.after \o IF scm.ret = 0 THEN o.results ELSE <<>>]
     ELSE \E op \in NextOp(scm.op, scm.ret = 0) :
            scm' = IF op = "none" THEN [scm EXCEPT !.last = "end"]
                   ELSE [scm EXCEPT !.op = op, !.last = "call", 
                            !.todo = OperationOf(op, scm.v8, TRUE).before]

(* The cache takes a line in, or throws one out, whenever it likes.        *)
Fetch == \E b \in Buffers :
  /\ cache[b].state = "none" /\ scm.last # "end"
  /\ cache' = [cache EXCEPT ![b] = [state |-> "clean", value |-> mem[b]]]
  /\ UNCHANGED <<scm, mem, latest>>
Evict == \E b \in Buffers :
  /\ cache[b].state # "none" /\ scm.last # "end"
  /\ mem' = WrittenBack({b}) /\ cache' = Dropped({b})
  /\ UNCHANGED <<scm, latest>>

ScmNext == FillBuffers \/ CleanInvalidate \/ Invalidate \/ SecureWorld \/ Responds \/ PollFlag
           \/ UseBuffers \/ EndCall \/ Fetch \/ Evict
ScmSpec == ScmInit /\ [][ScmNext]_scmVars
-----------------------------------------------------------------------------
(* Whatever the cache does meanwhile, the secure world finds in memory what *)
(* the caller put into the buffers it is given, and the caller reads what   *)
(* the secure world put there: "TZ ... accesses only the main memory".      *)
EachWorldReadsTheOther ==
  /\ Doing("smc") => \A b \in Now.on : mem[b] = latest[b]
  /\ Doing("use") => \A b \in Now.on : Seen(b) = latest[b]
=============================================================================
