------------------------------ MODULE I2cProofs ------------------------------
(***************************************************************************)
(* The I2C controller, for any group of messages and any block and FIFO    *)
(* sizes.  The invariant says where the driver is in its group (Place,     *)
(* InTheMessage), what was read and what of it is on its way (BuffersAre,  *)
(* Coming), that the controller was told of all entries still to come      *)
(* (Enough), and that what the device has seen, with what is going out and *)
(* what was carried over, says the messages up to here (Said).             *)
(***************************************************************************)
EXTENDS I2cQup, SequenceTheorems, FiniteSetTheorems, TLAPS

-----------------------------------------------------------------------------
(* Types.                                                                  *)
I2cMessages == [addr : Devices, rd : BOOLEAN, len : Nat \ {0}]
Entries == [op : {"NOP"}, arg : {<<>>}]
           \cup [op : {"START"}, arg : Devices \X BOOLEAN]
           \cup [op : {"DATA", "STOP"}, arg : Nat \X Nat]
           \cup [op : {"REC"}, arg : Nat \X Nat \X Nat]
BytePairs == Nat \X Nat
MessageSeqs == Seq(I2cMessages)
Buffers     == Seq(Seq(BytePairs))
DriverTypes ==
  [pc : {"idle", "next", "pause", "fill", "run", "check", "drain", "end",
         "reset", "writeready"},
   msgs : MessageSeqs, m : Nat, msg : Nat, rem : Nat, pos : Nat, cnt : Nat,
   wr_sz : Nat, filled : BOOLEAN, idx : Nat, carry : Entries, err : Int,
   ret : Int, buf : Buffers]
QupTypes ==
  [state : {"reset", "run", "pause"}, out : Seq(Entries), room : Nat \cup {-1},
   in : Seq(BytePairs), words : Nat, ask : Seq(BytePairs), seen : Seq(Entries),
   error : {"none", "i2c", "qup"}, svc : BOOLEAN, failed : BOOLEAN]
I2cTypeOK == d \in DriverTypes /\ hw \in QupTypes

-----------------------------------------------------------------------------
N == Len(d.msgs)
InMessage == d.pc \in {"pause", "fill", "run", "check", "drain", "end"}
Between   == d.pc \in {"next", "reset", "writeready"}
FollowedUp(g, i) == i < Len(g) /\ g[i + 1].addr = g[i].addr

(* Where the driver is in the group.                                       *)
Place ==
  /\ d.msgs \in Transfers
  /\ d.m \in 1..(N + 1) /\ d.rem = N - d.m + 1 /\ d.ret = 0
  /\ Len(d.buf) = N
  /\ d.rem = 0 => d.pos = 0
  /\ Between /\ d.rem > 0 => /\ d.pos < This.len
                             /\ ~This.rd => d.pos = 0
  /\ Between => hw.in = <<>> /\ hw.ask = <<>>
  /\ Between /\ d.rem > 0 /\ d.pc # "reset" => hw.out = <<>>
  /\ d.pc = "next" => hw.out = <<>>
  /\ d.pc = "reset" => d.rem > 0
  /\ d.pc \in {"reset", "writeready"} => d.msg \in 1..N
  /\ InMessage => d.m <= N /\ d.msg = d.m
  /\ hw.error # "none" => hw.failed

FillsUp ==
  /\ d.idx % 2 = 0 /\ d.idx < 2 * d.wr_sz /\ d.carry.op # "REC"
  /\ d.idx = 0 /\ ~This.rd => d.cnt = This.len - d.pos
  /\ d.idx > 0 =>
       /\ d.idx >= 4 /\ d.m > 1 /\ d.pos = 0 /\ d.cnt = OneOf(This.len, MaxReadChunk)
       /\ ~Message(d.m - 1).rd /\ Message(d.m - 1).addr = This.addr
       /\ This.rd \/ d.m = N

InTheMessage == InMessage =>
  /\ d.pos <= This.len /\ d.cnt <= This.len - d.pos
  /\ d.pc \in {"pause", "fill"} => d.cnt > 0
  /\ d.pc = "end" => d.cnt = 0
  /\ ~This.rd /\ d.pc # "fill" => d.cnt = This.len - d.pos
  /\ d.wr_sz \in {out_blk_sz, out_fifo_sz}
  /\ d.pc \in {"run", "check", "drain"} /\ This.rd => d.filled /\ d.cnt > 0
  /\ d.pc = "fill" => FillsUp

(* What was read, and what of it is on its way.                            *)
HasRead(i) == IF i < d.m THEN Message(i).len ELSE IF i = d.m THEN d.pos ELSE 0
BuffersAre == \A i \in 1..N : Message(i).rd => d.buf[i] = Bytes(i, HasRead(i))
Reading == /\ d.pc \in {"run", "check", "drain"} \/ (d.pc = "pause" /\ d.filled)
           /\ This.rd
Arriving ==
  /\ \A k \in 1..Len(hw.in) : hw.in[k] = <<d.m, d.pos + k>>
  /\ \A k \in 1..Len(hw.ask) : hw.ask[k] = <<d.m, d.pos + Len(hw.in) + k>>
Commanded ==
  \A k \in 1..Len(hw.out) : hw.out[k].op = "REC" =>
     /\ k = Len(hw.out) /\ hw.out[k].arg = <<d.m, d.pos, d.cnt>>
     /\ hw.in = <<>> /\ hw.ask = <<>>
BytesComing == Len(hw.in) + Len(hw.ask) <= d.cnt /\ Arriving /\ Commanded
NothingComing == hw.in = <<>> /\ hw.ask = <<>>
                 /\ \A k \in 1..Len(hw.out) : hw.out[k].op # "REC"
Coming == IF Reading THEN BytesComing ELSE NothingComing

(* The entries told to the controller are enough for what is to come.      *)
Need(p) == p + 1 + p \div (out_blk_sz - 1)
Payload == This.len - d.pos
           + IF FollowedUp(d.msgs, d.m) /\ ~Message(d.m + 1).rd
             THEN 1 + Message(d.m + 1).len ELSE 0
Budget  == Need(Payload) + IF FollowedUp(d.msgs, d.m) /\ Message(d.m + 1).rd
                           THEN 2 ELSE 0
Room == hw.room - Len(hw.out)
HeldBack == IF Odd(d.idx) THEN 1 ELSE 0
Wanted ==
  IF d.pc = "fill" /\ d.idx > 0
  THEN HeldBack + IF This.rd THEN 2
                  ELSE Need(d.idx \div 2 + This.len) - d.idx \div 2
  ELSE IF InMessage /\ ~This.rd /\ d.pos < This.len THEN Budget ELSE 0
Enough == hw.room # -1 =>
  /\ Room >= 0 /\ Room >= Wanted
  /\ InMessage /\ ~This.rd /\ d.pc # "end" => d.wr_sz = out_blk_sz
  /\ InMessage /\ This.rd => /\ ~(d.pc = "pause" /\ ~d.filled)
                             /\ ~(d.pc = "fill" /\ d.idx = 0)

(* What was written.                                                       *)
Stream == hw.seen \o hw.out \o (IF d.pc = "fill" THEN Pending ELSE <<>>)
Ended  == N > 0 /\ ~Message(N).rd /\ (d.m = N + 1 \/ (d.m = N /\ d.pos = Message(N).len))
Said   == /\ SaysSoFar(d.msgs, Stream, d.m, d.pos)
          /\ Ended => Stream # <<>> /\ Stream[Len(Stream)].op = "STOP"

I2cGoing == /\ Place /\ InTheMessage /\ BuffersAre /\ Coming /\ Enough
            /\ (~hw.failed => Said)
I2cDone == d.ret > 0 => hw.out = <<>> /\ TransfersAreWhole
I2cInv == /\ I2cTypeOK
          /\ IF d.pc = "idle" THEN I2cDone /\ d.pos = 0 ELSE I2cGoing

-----------------------------------------------------------------------------
(* What a sequence of entries says.                                        *)
LEMMA SaysSame ==
  ASSUME NEW g \in Seq(I2cMessages), NEW S \in Seq(Entries),
         NEW m \in Nat, NEW pos \in Nat, NEW n \in Nat, NEW q \in Nat,
         SaysSoFar(g, S, m, pos),
         \A i \in DOMAIN g : \A j \in 1..g[i].len :
           Told(g, i, j, m, pos) <=> Told(g, i, j, n, q)
  PROVE  SaysSoFar(g, S, n, q)
  BY DEF SaysSoFar

(* Nothing is said before the first byte of the first message.             *)
LEMMA SaysNothing ==
  ASSUME NEW g \in Seq(I2cMessages)
  PROVE  SaysSoFar(g, <<>>, 1, 0)
  BY DEF SaysSoFar, Told, I2cMessages

(* What a message of a group is.                                           *)
LEMMA MessageTypes ==
  ASSUME NEW g \in Seq(I2cMessages), NEW i \in DOMAIN g
  PROVE  /\ i \in Nat /\ i \in 1..Len(g)
         /\ g[i].len \in Nat /\ g[i].len > 0 /\ g[i].addr \in Devices
         /\ g[i].rd \in BOOLEAN
<1>1. g[i] \in I2cMessages
  BY ElementOfSeq
<1>2. i \in 1..Len(g)
  BY LenProperties
<1> QED BY <1>1, <1>2 DEF I2cMessages

(* The next bytes of a message, put behind what was said, say as much      *)
(* more; the first of them needs the START before it.                      *)
LEMMA SaysMore ==
  ASSUME NEW g \in Seq(I2cMessages), NEW S \in Seq(Entries), NEW T \in Seq(Entries),
         NEW m \in 1..Len(g), NEW pos \in Nat, NEW n \in Nat,
         SaysSoFar(g, S, m, pos), ~g[m].rd, pos + n <= g[m].len,
         Len(T) = Len(S) + n,
         \A k \in 1..Len(S) : T[k] = S[k],
         \A k \in 1..n : /\ IsByte(T[Len(S) + k])
                         /\ T[Len(S) + k].arg = <<m, pos + k>>,
         pos = 0 => S # <<>> /\ S[Len(S)] = Entry("START", <<g[m].addr, FALSE>>)
  PROVE  SaysSoFar(g, T, m, pos + n)
<1> DEFINE saidS == {k \in DOMAIN S : IsByte(S[k])}
           saidT == {k \in DOMAIN T : IsByte(T[k])}
<1>1. DOMAIN S = 1..Len(S) /\ DOMAIN T = 1..(Len(S) + n) /\ Len(S) \in Nat
  BY LenProperties
<1>2. ASSUME NEW k \in saidT
      PROVE  /\ k \in Nat /\ k >= 1 /\ k <= Len(S) + n
             /\ \/ k \in saidS /\ T[k] = S[k] /\ k <= Len(S)
                \/ /\ k > Len(S) /\ k - Len(S) \in 1..n
                   /\ T[k].arg = <<m, pos + (k - Len(S))>>
  <2>1. CASE k <= Len(S)
    BY <1>1, <2>1
  <2>2. CASE k > Len(S)
    <3>1. k - Len(S) \in 1..n /\ k = Len(S) + (k - Len(S))
      <4>1. \A x, y \in Nat : \A z \in 1..(x + y) : z > x => z - x \in 1..y /\ z = x + (z - x)
        OBVIOUS
      <4>2. k \in 1..(Len(S) + n)
        BY <1>1
      <4> QED BY <1>1, <2>2, <4>1, <4>2
    <3>2. T[Len(S) + (k - Len(S))].arg = <<m, pos + (k - Len(S))>>
      BY <3>1
    <3>3. T[k].arg = <<m, pos + (k - Len(S))>>
      BY <3>1, <3>2
    <3>4. k \in Nat /\ k >= 1 /\ k <= Len(S) + n
      BY <1>1
    <3> QED BY <3>1, <2>2, <3>3, <3>4
  <2> QED BY SMTT(40), <1>1, <2>1, <2>2
<1>3. \A k \in saidS : k \in saidT /\ T[k] = S[k] /\ k \in Nat /\ k >= 1 /\ k <= Len(S)
  BY <1>1
<1>4. \A k \in 1..n : Len(S) + k \in saidT /\ T[Len(S) + k].arg = <<m, pos + k>>
  <2> TAKE k \in 1..n
  <2>1. Len(S) + k \in DOMAIN T
    BY <1>1
  <2> QED BY <2>1
<1>5. \A k \in saidS : /\ S[k].arg[1] \in DOMAIN g /\ S[k].arg[2] \in 1..g[S[k].arg[1]].len
                       /\ Told(g, S[k].arg[1], S[k].arg[2], m, pos)
                       /\ S[k].arg[2] = 1 => k > 1 /\ S[k - 1] = Entry("START", <<g[S[k].arg[1]].addr, FALSE>>)
  BY DEF SaysSoFar
<1>5a. /\ \A i \in DOMAIN g : \A j \in 1..g[i].len :
             Told(g, i, j, m, pos) => \E k \in saidS : S[k].arg = <<i, j>>
       /\ \A k, l \in saidS : k < l => Before(S[k].arg, S[l].arg)
  BY DEF SaysSoFar
<1>6. m \in DOMAIN g /\ m \in Nat
  BY LenProperties
<1>6a. g[m].len \in Nat
  BY <1>6, MessageTypes
<1>7. ASSUME NEW k \in saidT
      PROVE  /\ T[k].arg[1] \in DOMAIN g /\ T[k].arg[2] \in 1..g[T[k].arg[1]].len
             /\ Told(g, T[k].arg[1], T[k].arg[2], m, pos + n)
             /\ T[k].arg[2] = 1 => k > 1 /\ T[k - 1] = Entry("START", <<g[T[k].arg[1]].addr, FALSE>>)
  <2>1. CASE k \in saidS /\ T[k] = S[k] /\ k <= Len(S)
    <3> HIDE DEF saidS, saidT
    <3>1. S[k].arg[1] \in Nat /\ g[S[k].arg[1]].len \in Nat
      BY <1>5, <2>1, MessageTypes
    <3>2. S[k].arg[2] \in Nat
      <4>1. S[k].arg[2] \in 1..g[S[k].arg[1]].len
        BY <1>5, <2>1
      <4> QED BY SMTT(40), <4>1, <3>1
    <3>3. Told(g, T[k].arg[1], T[k].arg[2], m, pos + n)
      <4>1. Told(g, S[k].arg[1], S[k].arg[2], m, pos)
        BY <1>5, <2>1
      <4> QED BY SMTT(40), <4>1, <2>1, <3>1, <3>2, <1>6 DEF Told
    <3>4. T[k].arg[2] = 1 => k > 1 /\ T[k - 1] = S[k - 1]
      <4>1. S[k].arg[2] = 1 => k > 1
        BY <1>5, <2>1
      <4> QED BY <4>1, <1>2, <1>1, <2>1
    <3> QED BY <1>5, <2>1, <3>3, <3>4
  <2>2. CASE /\ k > Len(S) /\ k - Len(S) \in 1..n
             /\ T[k].arg = <<m, pos + (k - Len(S))>>
    <3> HIDE DEF saidS, saidT
    <3>1. T[k].arg[1] = m /\ T[k].arg[2] = pos + (k - Len(S))
      BY <2>2
    <3>2. T[k].arg[2] = 1 => pos = 0 /\ k = Len(S) + 1
      BY SMTT(40), <3>1, <2>2, <1>1, <1>2
    <3>3. T[k].arg[2] = 1 => k > 1 /\ T[k - 1] = S[Len(S)]
      <4>1. pos = 0 => Len(S) >= 1
        BY <1>1, EmptySeq
      <4> QED BY <3>2, <4>1, <1>1
    <3>4. Told(g, m, pos + (k - Len(S)), m, pos + n)
      BY <2>2, <1>6, <1>1, <1>2 DEF Told
    <3>5. pos + (k - Len(S)) \in 1..g[m].len
      BY SMTT(40), <2>2, <1>6a, <1>1, <1>2
    <3> QED BY <3>1, <3>2, <3>3, <3>4, <3>5, <1>6
  <2> QED BY <1>2, <2>1, <2>2
<1>8. ASSUME NEW i \in DOMAIN g, NEW j \in 1..g[i].len, Told(g, i, j, m, pos + n)
      PROVE  \E k \in saidT : T[k].arg = <<i, j>>
  <2>1. CASE Told(g, i, j, m, pos)
    <3>1. PICK k \in saidS : S[k].arg = <<i, j>>
      BY <2>1, <1>5a
    <3> QED BY <3>1, <1>3
  <2>2. CASE ~Told(g, i, j, m, pos)
    <3>0. i \in Nat /\ g[i].len \in Nat
      BY MessageTypes
    <3>1. i = m /\ j - pos \in 1..n /\ j = pos + (j - pos)
      BY <1>8, <2>2, <1>6, <3>0 DEF Told
    <3>2. T[Len(S) + (j - pos)].arg = <<m, pos + (j - pos)>> /\ Len(S) + (j - pos) \in saidT
      BY <3>1, <1>4
    <3> QED BY <3>1, <3>2
  <2> QED BY <2>1, <2>2
<1>9. ASSUME NEW k \in saidT, NEW l \in saidT, k < l
      PROVE  Before(T[k].arg, T[l].arg)
  <2>0. k \in Nat /\ l \in Nat
    BY <1>2
  <2>1. CASE l \in saidS
    <3>1. k \in saidS
      BY SMTT(40), <1>9, <2>1, <1>2, <1>3, <2>0
    <3> QED BY <3>1, <2>1, <1>9, <1>3, <1>5a
  <2>2. CASE l \notin saidS /\ k \in saidS
    <3> HIDE DEF saidS, saidT
    <3>1. T[l].arg[1] = m /\ T[l].arg[2] > pos
      BY SMTT(40), <2>2, <1>2, <1>1, <2>0
    <3>2. T[k] = S[k] /\ Told(g, S[k].arg[1], S[k].arg[2], m, pos)
      BY <2>2, <1>5, <1>3
    <3>3. S[k].arg[1] \in Nat /\ g[S[k].arg[1]].len \in Nat
      BY <1>5, <2>2, MessageTypes
    <3>4. S[k].arg[2] \in Nat
      <4>1. S[k].arg[2] \in 1..g[S[k].arg[1]].len
        BY <1>5, <2>2
      <4> QED BY SMTT(40), <4>1, <3>3
    <3>5. S[k].arg[1] < m \/ (S[k].arg[1] = m /\ S[k].arg[2] <= pos)
      BY <3>2 DEF Told
    <3>6. T[l].arg[2] \in Int
      BY SMTT(40), <1>2, <1>1, <2>0, <2>2
    <3> QED BY SMTT(40), <3>1, <3>2, <3>3, <3>4, <3>5, <3>6 DEF Before
  <2>3. CASE l \notin saidS /\ k \notin saidS
    <3> HIDE DEF saidS, saidT
    <3>1. /\ T[k].arg = <<m, pos + (k - Len(S))>>
          /\ T[l].arg = <<m, pos + (l - Len(S))>>
      BY <2>3, <1>2
    <3>2. pos + (k - Len(S)) < pos + (l - Len(S))
      BY SMTT(40), <2>0, <1>1, <1>9
    <3> QED BY <3>1, <3>2 DEF Before
  <2> QED BY <2>1, <2>2, <2>3
<1> HIDE DEF saidS
<1> QED BY <1>7, <1>8, <1>9 DEF SaysSoFar

(* Entries that say nothing may follow.                                    *)
LEMMA SaysStill ==
  ASSUME NEW g \in Seq(I2cMessages), NEW S \in Seq(Entries), NEW T \in Seq(Entries),
         NEW m \in Nat, NEW pos \in Nat, SaysSoFar(g, S, m, pos),
         Len(T) >= Len(S),
         \A k \in 1..Len(S) : T[k] = S[k],
         \A k \in 1..Len(T) : k > Len(S) => ~IsByte(T[k])
  PROVE  SaysSoFar(g, T, m, pos)
<1> DEFINE saidS == {k \in DOMAIN S : IsByte(S[k])}
           saidT == {k \in DOMAIN T : IsByte(T[k])}
<1>1. DOMAIN S = 1..Len(S) /\ DOMAIN T = 1..Len(T) /\ Len(S) \in Nat /\ Len(T) \in Nat
  BY LenProperties
<1>2. saidT = saidS
  <2>1. ASSUME NEW k \in saidT  PROVE k \in saidS
    <3>1. k \in 1..Len(T) /\ IsByte(T[k])
      BY <1>1
    <3>2. k <= Len(S)
      BY <3>1, <1>1
    <3>3. k \in 1..Len(S)
      BY <3>1, <3>2, <1>1
    <3> QED BY <3>1, <3>3, <1>1
  <2>2. ASSUME NEW k \in saidS  PROVE k \in saidT
    BY <1>1
  <2> QED BY <2>1, <2>2
<1>3. \A k \in saidS : T[k] = S[k] /\ (k > 1 => T[k - 1] = S[k - 1])
  BY <1>1
<1>5. \A k \in saidS : /\ S[k].arg[1] \in DOMAIN g /\ S[k].arg[2] \in 1..g[S[k].arg[1]].len
                       /\ Told(g, S[k].arg[1], S[k].arg[2], m, pos)
                       /\ S[k].arg[2] = 1 => k > 1 /\ S[k - 1] = Entry("START", <<g[S[k].arg[1]].addr, FALSE>>)
  BY DEF SaysSoFar
<1>6. /\ \A i \in DOMAIN g : \A j \in 1..g[i].len :
             Told(g, i, j, m, pos) => \E k \in saidS : S[k].arg = <<i, j>>
      /\ \A k, l \in saidS : k < l => Before(S[k].arg, S[l].arg)
  BY DEF SaysSoFar
<1>7. \A k \in saidT : /\ T[k].arg[1] \in DOMAIN g /\ T[k].arg[2] \in 1..g[T[k].arg[1]].len
                       /\ Told(g, T[k].arg[1], T[k].arg[2], m, pos)
                       /\ T[k].arg[2] = 1 => k > 1 /\ T[k - 1] = Entry("START", <<g[T[k].arg[1]].addr, FALSE>>)
  <2> HIDE DEF saidS, saidT
  <2> QED BY <1>2, <1>3, <1>5
<1>8. /\ \A i \in DOMAIN g : \A j \in 1..g[i].len :
             Told(g, i, j, m, pos) => \E k \in saidT : T[k].arg = <<i, j>>
      /\ \A k, l \in saidT : k < l => Before(T[k].arg, T[l].arg)
  <2> HIDE DEF saidS, saidT
  <2> QED BY <1>2, <1>3, <1>6
<1> HIDE DEF saidS
<1> QED BY <1>7, <1>8 DEF SaysSoFar

(* Taking out an entry that says nothing.                                  *)
LEMMA SaysWithout ==
  ASSUME NEW g \in Seq(I2cMessages), NEW S \in Seq(Entries), NEW T \in Seq(Entries),
         NEW m \in Nat, NEW pos \in Nat, SaysSoFar(g, S, m, pos),
         NEW p \in 1..Len(S), S[p].op \in {"NOP", "REC"},
         Len(T) = Len(S) - 1,
         \A k \in 1..Len(T) : T[k] = IF k < p THEN S[k] ELSE S[k + 1]
  PROVE  SaysSoFar(g, T, m, pos)
<1> DEFINE saidS == {k \in DOMAIN S : IsByte(S[k])}
           saidT == {k \in DOMAIN T : IsByte(T[k])}
           At(k) == IF k < p THEN k ELSE k + 1
<1>1. DOMAIN S = 1..Len(S) /\ DOMAIN T = 1..Len(T) /\ Len(S) \in Nat /\ Len(T) \in Nat
  BY LenProperties
<1>2. p \notin saidS /\ \A a : S[p] # Entry("START", a)
  BY DEF IsByte, Entry
<1>3. ASSUME NEW k \in saidT
      PROVE  /\ k \in Nat /\ k >= 1 /\ At(k) \in saidS /\ T[k] = S[At(k)]
             /\ (k < p => At(k) = k) /\ (~(k < p) => At(k) = k + 1)
  BY <1>1
<1>4. ASSUME NEW k \in saidS
      PROVE  \E l \in saidT : T[l] = S[k]
  <2>1. CASE k < p
    <3>1. k \in 1..Len(T) /\ T[k] = S[k]
      BY <2>1, <1>1
    <3> QED BY <3>1, <1>1
  <2>2. CASE k > p
    <3>1. k - 1 \in 1..Len(T)
      BY <2>2, <1>1
    <3>2. T[k - 1] = S[(k - 1) + 1] /\ (k - 1) + 1 = k
      BY <3>1, <2>2, <1>1
    <3> QED BY <3>1, <3>2, <1>1
  <2>3. k # p
    BY <1>2
  <2> QED BY <2>1, <2>2, <2>3, <1>1
<1>5. \A k \in saidS : /\ S[k].arg[1] \in DOMAIN g /\ S[k].arg[2] \in 1..g[S[k].arg[1]].len
                       /\ Told(g, S[k].arg[1], S[k].arg[2], m, pos)
                       /\ S[k].arg[2] = 1 => k > 1 /\ S[k - 1] = Entry("START", <<g[S[k].arg[1]].addr, FALSE>>)
  BY DEF SaysSoFar
<1>6. /\ \A i \in DOMAIN g : \A j \in 1..g[i].len :
             Told(g, i, j, m, pos) => \E k \in saidS : S[k].arg = <<i, j>>
      /\ \A k, l \in saidS : k < l => Before(S[k].arg, S[l].arg)
  BY DEF SaysSoFar
<1>7. ASSUME NEW k \in saidT
      PROVE  /\ T[k].arg[1] \in DOMAIN g /\ T[k].arg[2] \in 1..g[T[k].arg[1]].len
             /\ Told(g, T[k].arg[1], T[k].arg[2], m, pos)
             /\ T[k].arg[2] = 1 => k > 1 /\ T[k - 1] = Entry("START", <<g[T[k].arg[1]].addr, FALSE>>)
  <2>1. At(k) \in saidS /\ T[k] = S[At(k)] /\ k \in Nat /\ k >= 1 /\ k \in 1..Len(T)
    BY <1>3, <1>1
  <2>2. /\ T[k].arg[1] \in DOMAIN g /\ T[k].arg[2] \in 1..g[T[k].arg[1]].len
        /\ Told(g, T[k].arg[1], T[k].arg[2], m, pos)
    <3> HIDE DEF At, saidS, saidT
    <3> QED BY <2>1, <1>5
  <2>3. ASSUME T[k].arg[2] = 1
        PROVE  k > 1 /\ T[k - 1] = Entry("START", <<g[T[k].arg[1]].addr, FALSE>>)
    <3> DEFINE start == Entry("START", <<g[T[k].arg[1]].addr, FALSE>>)
    <3>1. At(k) > 1 /\ S[At(k) - 1] = start
      <4> HIDE DEF At, saidS, saidT
      <4> QED BY <2>1, <2>3, <1>5
    <3>2. At(k) - 1 # p
      BY <3>1, <1>2
    <3> HIDE DEF start
    <3>3. CASE k < p
      <4>1. At(k) = k /\ k > 1
        BY <3>3, <3>1
      <4>2. k - 1 \in 1..Len(T) /\ k - 1 < p
        BY <4>1, <3>3, <2>1, <1>1
      <4>3. T[k - 1] = S[k - 1]
        BY <4>2
      <4> HIDE DEF At
      <4> QED BY <4>1, <4>3, <3>1 DEF start
    <3>4. CASE ~(k < p)
      <4>1. At(k) = k + 1 /\ k > p
        BY <3>4, <3>2, <2>1
      <4>2. k - 1 \in 1..Len(T) /\ ~(k - 1 < p) /\ (k - 1) + 1 = At(k) - 1
        BY <4>1, <2>1, <1>1
      <4>3. T[k - 1] = S[(k - 1) + 1]
        BY <4>2
      <4>4. k > 1
        BY <4>1
      <4> HIDE DEF At
      <4> QED BY <4>2, <4>3, <4>4, <3>1 DEF start
    <3> QED BY <3>3, <3>4 DEF start
  <2> QED BY <2>2, <2>3
<1>8. \A i \in DOMAIN g : \A j \in 1..g[i].len :
         Told(g, i, j, m, pos) => \E k \in saidT : T[k].arg = <<i, j>>
  <2> HIDE DEF saidS, saidT
  <2> QED BY <1>4, <1>6
<1>9. ASSUME NEW k \in saidT, NEW l \in saidT, k < l
      PROVE  Before(T[k].arg, T[l].arg)
  <2>1. At(k) < At(l)
    BY <1>3, <1>9
  <2> HIDE DEF saidS, saidT, At
  <2> QED BY <2>1, <1>3, <1>6
<1> HIDE DEF saidS, At
<1> QED BY <1>7, <1>8, <1>9 DEF SaysSoFar

-----------------------------------------------------------------------------
(* The fields of the two records, and what steps leave alone.              *)
LEMMA I2cFields ==
  ASSUME I2cTypeOK
  PROVE  /\ d.msgs \in Seq(I2cMessages) /\ d.m \in Nat /\ d.msg \in Nat /\ d.rem \in Nat
         /\ d.pos \in Nat /\ d.cnt \in Nat /\ d.wr_sz \in Nat /\ d.filled \in BOOLEAN
         /\ d.idx \in Nat /\ d.carry \in Entries /\ d.err \in Int /\ d.ret \in Int
         /\ d.buf \in Seq(Seq(BytePairs))
         /\ d.pc \in {"idle", "next", "pause", "fill", "run", "check", "drain", "end",
                     "reset", "writeready"}
         /\ hw.out \in Seq(Entries) /\ hw.room \in Int /\ hw.room >= -1 /\ hw.in \in Seq(BytePairs)
         /\ hw.words \in Nat /\ hw.ask \in Seq(BytePairs) /\ hw.seen \in Seq(Entries)
         /\ hw.failed \in BOOLEAN /\ hw.svc \in BOOLEAN
         /\ hw.state \in {"reset", "run", "pause"} /\ hw.error \in {"none", "i2c", "qup"}
  BY SMTT(40) DEF I2cTypeOK, DriverTypes, QupTypes, MessageSeqs, Buffers

SameGroup == /\ d'.msgs = d.msgs /\ d'.m = d.m /\ d'.rem = d.rem /\ d'.pos = d.pos
             /\ d'.ret = d.ret /\ d'.buf = d.buf /\ d'.cnt = d.cnt
SameBus   == /\ hw'.out = hw.out /\ hw'.in = hw.in /\ hw'.ask = hw.ask
             /\ hw'.seen = hw.seen /\ hw'.room = hw.room /\ hw'.failed = hw.failed

SameStep  == /\ d'.msg = d.msg /\ d'.wr_sz = d.wr_sz /\ d'.filled = d.filled
             /\ d'.idx = d.idx /\ d'.carry = d.carry

(* What a step keeps that moves neither the driver's place in the group    *)
(* nor the bus.                                                            *)
LEMMA BuffersKept ==
  ASSUME SameGroup, BuffersAre
  PROVE  BuffersAre'
  BY DEF BuffersAre, HasRead, SameGroup, Message, N

LEMMA ComingKept ==
  ASSUME SameGroup, SameBus, Reading' <=> Reading, Coming
  PROVE  Coming'
<1>1. CASE Reading
  <2>1. BytesComing
    BY <1>1 DEF Coming
  <2>2. BytesComing'
    BY <2>1 DEF BytesComing, Arriving, Commanded, SameGroup, SameBus
  <2> QED BY <1>1, <2>2 DEF Coming
<1>2. CASE ~Reading
  <2>1. NothingComing
    BY <1>2 DEF Coming
  <2>2. NothingComing'
    BY <2>1 DEF NothingComing, SameBus
  <2> QED BY <1>2, <2>2 DEF Coming
<1> QED BY <1>1, <1>2

LEMMA SaidKept ==
  ASSUME SameGroup, SameBus, d.pc # "fill", d'.pc # "fill", Said
  PROVE  Said'
  BY DEF Said, Stream, Ended, SameGroup, SameBus, Message, N

(* Run: the run state is asked for.                                        *)
LEMMA RunKeeps ==
  ASSUME I2cInv, Run
  PROVE  I2cInv'
<1>1. I2cTypeOK'
  BY DEF I2cInv, I2cTypeOK, DriverTypes, QupTypes, Run
<1>2. /\ SameGroup /\ SameBus /\ SameStep /\ d'.pc = "check" /\ d.pc = "run"
      /\ hw'.error = hw.error
  BY DEF I2cInv, I2cTypeOK, DriverTypes, QupTypes, Run, SameGroup, SameBus, SameStep
<1>3. I2cGoing
  BY <1>2 DEF I2cInv
<1>4. Place' /\ InTheMessage'
  BY <1>2, <1>3 DEF I2cGoing, Place, InTheMessage, SameGroup, SameBus, SameStep, This, Message, N, Between, InMessage
<1>5. Coming'
  <2>1. Reading' <=> Reading
    BY <1>2 DEF Reading, SameGroup, This, Message
  <2> QED BY <1>2, <1>3, <2>1, ComingKept DEF I2cGoing
<1>6. Enough'
  BY <1>2, <1>3 DEF I2cGoing, Enough, Wanted, HeldBack, Room, Budget, Payload, Need, InMessage, SameGroup, SameBus, SameStep, This, Message
<1> QED BY <1>1, <1>2, <1>3, <1>4, <1>5, <1>6, BuffersKept, SaidKept DEF I2cInv, I2cGoing, SameBus

(* What out_err leaves.                                                    *)
LEMMA OutErrTypes ==
  ASSUME I2cTypeOK, NEW ret \in Int, d' = OutErr(d, ret)
  PROVE  /\ d' \in DriverTypes /\ d'.pc = "idle" /\ d'.ret = ret /\ d'.pos = 0 /\ d'.msgs = d.msgs
         /\ d'.buf = d.buf
<1>1. d \in DriverTypes /\ 0 \in Nat /\ 0 \in Int
  BY DEF I2cTypeOK
<1>2. /\ d'.pc = "idle" /\ d'.ret = ret /\ d'.pos = 0 /\ d'.msgs = d.msgs /\ d'.buf = d.buf
      /\ d' = [d EXCEPT !.pc = "idle", !.msg = 0, !.pos = 0, !.err = 0, !.cnt = 0, !.ret = ret]
  BY <1>1 DEF DriverTypes, OutErr
<1>3. d' \in DriverTypes
  BY ZenonT(60), <1>1, <1>2 DEF DriverTypes
<1> QED BY <1>2, <1>3

(* A poll that runs out of patience reports no success.                    *)
LEMMA GiveUpKeeps ==
  ASSUME I2cInv, GiveUp
  PROVE  I2cInv'
<1>1. I2cTypeOK /\ d' = OutErr(d, -1) /\ hw' = hw
  BY DEF I2cInv, GiveUp
<1>2. d' \in DriverTypes /\ d'.pc = "idle" /\ d'.ret = -1 /\ d'.pos = 0
  BY <1>1, OutErrTypes
<1> QED BY <1>1, <1>2 DEF I2cInv, I2cDone, I2cTypeOK

(* An error the handler left ends the group without success.               *)
LEMMA CheckErrKeeps ==
  ASSUME I2cInv, CheckErr
  PROVE  I2cInv'
<1>1. I2cTypeOK
  BY DEF I2cInv
<1>2. CASE d.err # 0
  <2>1. d' = OutErr(d, -1) /\ hw' = hw
    BY <1>2 DEF CheckErr
  <2>2. d' \in DriverTypes /\ d'.pc = "idle" /\ d'.ret = -1 /\ d'.pos = 0
    BY <1>1, <2>1, OutErrTypes
  <2> QED BY <1>1, <2>1, <2>2 DEF I2cInv, I2cDone, I2cTypeOK
<1>3. CASE d.err = 0
  <2>1. I2cTypeOK'
    BY <1>1, <1>3 DEF I2cTypeOK, DriverTypes, QupTypes, CheckErr
  <2>2. /\ SameGroup /\ SameBus /\ SameStep /\ d'.pc = "drain" /\ d.pc = "check"
        /\ hw'.error = hw.error
    BY <1>3 DEF I2cInv, I2cTypeOK, DriverTypes, QupTypes, CheckErr, SameGroup, SameBus, SameStep
  <2>3. I2cGoing
    BY <2>2 DEF I2cInv
  <2>4. Place' /\ InTheMessage'
    BY <2>2, <2>3 DEF I2cGoing, Place, InTheMessage, SameGroup, SameBus, SameStep, This, Message, N, Between, InMessage
  <2>5. Coming'
    <3>1. Reading' <=> Reading
      BY <2>2 DEF Reading, SameGroup, This, Message
    <3> QED BY <2>2, <2>3, <3>1, ComingKept DEF I2cGoing
  <2>6. Enough'
    BY <2>2, <2>3 DEF I2cGoing, Enough, Wanted, HeldBack, Room, Budget, Payload, Need, InMessage, SameGroup, SameBus, SameStep, This, Message
  <2> QED BY <2>1, <2>2, <2>3, <2>4, <2>5, <2>6, BuffersKept, SaidKept DEF I2cInv, I2cGoing, SameBus
<1> QED BY <1>2, <1>3

(* Nothing is carried into a fill.                                         *)
LEMMA PauseKeeps ==
  ASSUME I2cInv, Pause
  PROVE  I2cInv'
<1>1. I2cTypeOK'
  BY ZenonT(60) DEF I2cInv, I2cTypeOK, DriverTypes, QupTypes, Pause, None, Entries
<1>2. /\ SameGroup /\ SameBus /\ d'.pc = (IF d.filled THEN "run" ELSE "fill") /\ d.pc = "pause"
      /\ d'.msg = d.msg /\ d'.wr_sz = d.wr_sz /\ d'.filled = d.filled /\ d'.idx = 0
      /\ d'.carry = None /\ hw'.error = hw.error
  BY DEF I2cInv, I2cTypeOK, DriverTypes, QupTypes, Pause, SameGroup, SameBus
<1>3. I2cGoing /\ I2cTypeOK
  BY <1>2 DEF I2cInv
<1>4. Place'
  BY <1>2, <1>3 DEF I2cGoing, Place, SameGroup, SameBus, This, Message, N, Between, InMessage
<1>4a. InTheMessage'
  <2>1. d'.pc = "fill" => FillsUp'
    <3>1. d'.idx % 2 = 0 /\ d'.idx < 2 * d'.wr_sz /\ d'.carry.op # "REC"
      BY <1>2, <1>3, I2cAssumption DEF I2cGoing, InTheMessage, InMessage, None
    <3>2. ~This'.rd => d'.cnt = This'.len - d'.pos
      BY <1>2, <1>3 DEF I2cGoing, InTheMessage, InMessage, SameGroup, This, Message
    <3> QED BY <1>2, <3>1, <3>2 DEF FillsUp
  <2> QED BY <2>1, <1>2, <1>3 DEF I2cGoing, InTheMessage, SameGroup, This, Message, N, InMessage
<1>5. Coming'
  <2>1. Reading' <=> Reading
    BY <1>2 DEF Reading, SameGroup, This, Message
  <2> QED BY <1>2, <1>3, <2>1, ComingKept DEF I2cGoing
<1>6. Enough'
  BY <1>2, <1>3 DEF I2cGoing, Enough, Wanted, HeldBack, Room, Budget, Payload, Need, InMessage, SameGroup, SameBus, This, Message
<1>7. Pending' = <<>>
  BY <1>2 DEF Pending, Odd
<1>8. ~hw'.failed => Said'
  BY <1>2, <1>3, <1>7 DEF I2cGoing, Said, Stream, Ended, SameGroup, SameBus, Message, N
<1> QED BY <1>1, <1>2, <1>3, <1>4, <1>4a, <1>5, <1>6, <1>8, BuffersKept DEF I2cInv, I2cGoing

(* A quiet bus before the next message: what the FIFO held is out.         *)
LEMMA PollWriteReadyKeeps ==
  ASSUME I2cInv, PollWriteReady
  PROVE  I2cInv'
<1>1. I2cTypeOK'
  BY DEF I2cInv, I2cTypeOK, DriverTypes, QupTypes, PollWriteReady
<1>2. /\ SameGroup /\ SameBus /\ SameStep /\ d'.pc = "next" /\ d.pc = "writeready"
      /\ hw'.error = hw.error
  BY DEF I2cInv, I2cTypeOK, DriverTypes, QupTypes, PollWriteReady, SameGroup, SameBus, SameStep
<1>3. I2cGoing /\ I2cTypeOK
  BY <1>2 DEF I2cInv
<1>4. hw.out = <<>>
  <2>1. CASE d.rem > 0
    BY <2>1, <1>2, <1>3 DEF I2cGoing, Place, Between
  <2>2. CASE d.rem = 0
    <3>1. ~BusActive \/ hw.room = 0
      BY <2>2 DEF PollWriteReady
    <3>2. hw.room = 0 => Len(hw.out) = 0
      BY <1>3, I2cFields DEF I2cGoing, Enough, Room
    <3> QED BY <3>1, <3>2, <1>3, I2cFields, EmptySeq DEF BusActive
  <2> QED BY SMTT(40), <2>1, <2>2, <1>3, I2cFields
<1>5. Place' /\ InTheMessage'
  BY <1>2, <1>3, <1>4 DEF I2cGoing, Place, InTheMessage, SameGroup, SameBus, SameStep, This, Message, N, Between, InMessage
<1>6. Coming'
  <2>1. Reading' <=> Reading
    BY <1>2 DEF Reading, SameGroup, This, Message
  <2> QED BY <1>2, <1>3, <2>1, ComingKept DEF I2cGoing
<1>7. Enough'
  BY <1>2, <1>3 DEF I2cGoing, Enough, Wanted, HeldBack, Room, Budget, Payload, Need, InMessage, SameGroup, SameBus, SameStep, This, Message
<1> QED BY <1>1, <1>2, <1>3, <1>5, <1>6, <1>7, BuffersKept, SaidKept DEF I2cInv, I2cGoing, SameBus

(* A step that is neither the driver's nor takes anything from the bus.    *)
LEMMA NothingHappened ==
  ASSUME I2cGoing, SameGroup, SameBus, SameStep, d'.pc = d.pc,
         hw'.error # "none" => hw.failed
  PROVE  I2cGoing'
<1>1. Place'
  BY DEF I2cGoing, Place, SameGroup, SameBus, SameStep, This, Message, N, Between, InMessage
<1>2. InTheMessage'
  BY DEF I2cGoing, InTheMessage, FillsUp, SameGroup, SameStep, This, Message, N, InMessage
<1>3. Coming'
  <2>1. Reading' <=> Reading
    BY DEF Reading, SameGroup, SameStep, This, Message
  <2> QED BY <2>1, ComingKept DEF I2cGoing
<1>4. Enough'
  BY DEF I2cGoing, Enough, Wanted, HeldBack, Room, Budget, Payload, Need, InMessage, SameGroup, SameBus, SameStep, This, Message
<1>5. ~hw'.failed => Said'
  BY DEF I2cGoing, Said, Stream, Ended, Pending, SameGroup, SameBus, SameStep, Message, N
<1> QED BY <1>1, <1>2, <1>3, <1>4, <1>5, BuffersKept DEF I2cGoing

(* How many entries some bytes need at the most.                           *)
LEMMA NeedIsANumber ==
  ASSUME NEW p \in Nat
  PROVE  Need(p) \in Nat /\ Need(p) >= p + 1
<1> DEFINE q == p \div (out_blk_sz - 1)
<1>1. out_blk_sz - 1 \in Nat /\ out_blk_sz - 1 > 0
  BY I2cAssumption
<1>2. q \in Nat
  BY <1>1
<1>3. Need(p) = p + 1 + q
  BY DEF Need
<1> HIDE DEF q
<1> QED BY <1>2, <1>3

(* The messages of the group and the one the driver is at.                 *)
LEMMA ThisMessage ==
  ASSUME I2cTypeOK, Place
  PROVE  /\ \A i \in 1..N : /\ Message(i).len \in Nat /\ Message(i).len > 0
                           /\ Message(i).addr \in Devices /\ Message(i).rd \in BOOLEAN
         /\ N \in Nat /\ (d.m <= N => d.m \in 1..N)
         /\ FollowedUp(d.msgs, d.m) => d.m + 1 \in 1..N
<1>1. d.msgs \in Seq(I2cMessages) /\ d.m \in Nat /\ d.m >= 1
  BY SMTT(40), I2cFields DEF Place
<1>2. DOMAIN d.msgs = 1..N /\ N \in Nat
  BY <1>1, LenProperties DEF N
<1>3. \A i \in 1..N : /\ Message(i).len \in Nat /\ Message(i).len > 0
                      /\ Message(i).addr \in Devices /\ Message(i).rd \in BOOLEAN
  BY <1>1, <1>2, MessageTypes DEF Message
<1> QED BY <1>1, <1>2, <1>3 DEF FollowedUp, N

(* Where the driver is while it is busy with a message.                    *)
LEMMA InAMessage ==
  ASSUME I2cTypeOK, Place, InTheMessage, InMessage
  PROVE  /\ d.m \in 1..N /\ d.m \in Nat /\ d.m >= 1 /\ d.m <= N /\ N \in Nat
         /\ d.msg = d.m /\ d.rem = N - d.m + 1 /\ d.rem > 0 /\ d.ret = 0
         /\ Len(d.buf) = N /\ d.msgs \in Transfers /\ d.msgs \in Seq(I2cMessages)
         /\ This = Message(d.m) /\ This.len \in Nat /\ This.len > 0
         /\ This.rd \in BOOLEAN /\ This.addr \in Devices
         /\ d.pos \in Nat /\ d.pos <= This.len
         /\ d.cnt \in Nat /\ d.cnt <= This.len - d.pos
<1>1. /\ d.m <= N /\ d.msg = d.m /\ d.rem = N - d.m + 1 /\ d.ret = 0 /\ Len(d.buf) = N
      /\ d.msgs \in Transfers /\ d.m \in 1..(N + 1)
  BY DEF Place
<1>2. N \in Nat /\ d.m \in 1..N
  BY <1>1, ThisMessage
<1>3. /\ This = Message(d.m) /\ This.len \in Nat /\ This.len > 0
      /\ This.rd \in BOOLEAN /\ This.addr \in Devices
  BY <1>2, ThisMessage DEF This
<1>4. d.pos <= This.len /\ d.cnt <= This.len - d.pos
  BY DEF InTheMessage
<1> QED BY SMTT(40), <1>1, <1>2, <1>3, <1>4, I2cFields

(* What is wanted of the controller is a number, whatever the step.        *)
LEMMA WantedIsANumber ==
  ASSUME I2cTypeOK, Place, InTheMessage
  PROVE  Wanted \in Int
<1>1. d.idx \in Nat /\ d.idx \div 2 \in Nat /\ d.pos \in Nat
  BY SMTT(40), I2cFields
<1>2. CASE d.pc = "fill" /\ d.idx > 0
  <2>1. This.len \in Nat
    BY <1>2, ThisMessage DEF Place, InMessage, This
  <2>2. Need(d.idx \div 2 + This.len) \in Nat
    BY <2>1, <1>1, NeedIsANumber
  <2>3. HeldBack \in Int
    BY DEF HeldBack
  <2> QED BY <1>1, <1>2, <2>2, <2>3 DEF Wanted
<1>3. CASE ~(d.pc = "fill" /\ d.idx > 0) /\ InMessage /\ ~This.rd /\ d.pos < This.len
  <2>1. This.len \in Nat /\ This.len > d.pos
    BY <1>3, ThisMessage DEF Place, This
  <2>2. Payload \in Nat
    BY <2>1, <1>1, ThisMessage DEF Payload
  <2>3. Budget \in Int
    BY <2>2, NeedIsANumber DEF Budget
  <2> QED BY <1>3, <2>3 DEF Wanted
<1>4. CASE ~(d.pc = "fill" /\ d.idx > 0) /\ ~(InMessage /\ ~This.rd /\ d.pos < This.len)
  BY <1>4 DEF Wanted
<1> QED BY <1>2, <1>3, <1>4

(* The bus failed and what was under way on it is gone.                    *)
LEMMA BusIsLost ==
  ASSUME I2cGoing, I2cTypeOK, SameGroup, SameStep, d'.pc = d.pc,
         hw'.out = <<>>, hw'.ask = <<>>, hw'.in \in {<<>>, hw.in}, hw'.room = hw.room,
         hw'.failed
  PROVE  I2cGoing'
<1>0. Len(<<>>) = 0 /\ Len(hw.out) \in Nat /\ Len(hw.in) \in Nat /\ Len(hw.ask) \in Nat
      /\ d.cnt \in Nat /\ hw.room \in Int
  BY I2cFields, LenProperties
<1>1. Place'
  BY DEF I2cGoing, Place, SameGroup, SameStep, This, Message, N, Between, InMessage
<1>2. InTheMessage'
  BY DEF I2cGoing, InTheMessage, FillsUp, SameGroup, SameStep, This, Message, N, InMessage
<1>3. Coming'
  <2>1. Reading' <=> Reading
    BY DEF Reading, SameGroup, SameStep, This, Message
  <2>2. CASE Reading
    <3>1. BytesComing
      BY <2>2 DEF I2cGoing, Coming
    <3>2. Len(hw'.out) = 0 /\ Len(hw'.ask) = 0 /\ d'.cnt = d.cnt /\ d'.m = d.m /\ d'.pos = d.pos
      BY <1>0 DEF SameGroup
    <3>3. BytesComing'
      <4>1. CASE hw'.in = <<>>
        <5>1. Len(hw'.in) = 0
          BY <4>1, <1>0
        <5>2. 1..Len(hw'.out) = {} /\ 1..Len(hw'.ask) = {} /\ 1..Len(hw'.in) = {}
          BY <3>2, <5>1
        <5> QED BY <3>2, <5>1, <5>2, <1>0 DEF BytesComing, Arriving, Commanded
      <4>2. CASE hw'.in = hw.in
        <5>0. Len(hw.in) + Len(hw.ask) <= d.cnt
          BY <3>1 DEF BytesComing
        <5>1. Len(hw.in) + Len(hw'.ask) <= d.cnt
          <6>0. \A a, b, c \in Nat : a + b <= c => a <= c /\ a + 0 = a
            OBVIOUS
          <6>1. Len(hw.in) <= d.cnt /\ Len(hw.in) + 0 = Len(hw.in)
            <7>1. Len(hw.in) \in Nat /\ Len(hw.ask) \in Nat /\ d.cnt \in Nat
              BY <1>0
            <7> QED BY ONLY <5>0, <6>0, <7>1
          <6>2. Len(hw'.ask) = 0
            BY <3>2
          <6>3. Len(hw.in) + Len(hw'.ask) = Len(hw.in) + 0
            BY <6>2
          <6> QED BY <6>1, <6>3
        <5>2. \A k \in 1..Len(hw.in) : hw.in[k] = <<d.m, d.pos + k>>
          BY <3>1 DEF BytesComing, Arriving
        <5>3. 1..Len(hw'.out) = {} /\ 1..Len(hw'.ask) = {}
          BY <3>2
        <5> QED BY <3>2, <4>2, <5>1, <5>2, <5>3 DEF BytesComing, Arriving, Commanded
      <4> QED BY <4>1, <4>2
    <3> QED BY <2>1, <2>2, <3>3 DEF Coming
  <2>3. CASE ~Reading
    <3>1. hw.in = <<>>
      BY <2>3 DEF I2cGoing, Coming, NothingComing
    <3>2. NothingComing'
      BY <3>1, <1>0 DEF NothingComing
    <3> QED BY <2>1, <2>3, <3>2 DEF Coming
  <2> QED BY <2>2, <2>3
<1>4. Enough'
  <2>1. Room' >= Room /\ Room \in Int /\ Room' \in Int
    BY <1>0 DEF Room
  <2>2. Wanted' = Wanted
    BY DEF Wanted, Budget, Payload, Need, InMessage, HeldBack, SameGroup, SameStep, This, Message
  <2>3. Wanted \in Int
    BY WantedIsANumber DEF I2cGoing
  <2>4. hw.room # -1 => Room' >= 0 /\ Room' >= Wanted'
    BY <2>1, <2>2, <2>3 DEF I2cGoing, Enough
  <2>5. hw.room # -1 => (/\ InMessage /\ ~This.rd /\ d.pc # "end" => d.wr_sz = out_blk_sz
                         /\ InMessage /\ This.rd => /\ ~(d.pc = "pause" /\ ~d.filled)
                                                    /\ ~(d.pc = "fill" /\ d.idx = 0))'
    BY DEF I2cGoing, Enough, InMessage, SameGroup, SameStep, This, Message
  <2> QED BY <2>4, <2>5 DEF Enough
<1> QED BY <1>1, <1>2, <1>3, <1>4, BuffersKept DEF I2cGoing

(* The handler only resets the bus when the transfer has failed already.   *)
LEMMA InterruptKeeps ==
  ASSUME I2cInv, QupI2cInterrupt
  PROVE  I2cInv'
<1>1. I2cTypeOK /\ d \in DriverTypes /\ hw \in QupTypes
  BY DEF I2cInv, I2cTypeOK
<1>2. I2cGoing
  BY DEF I2cInv, QupI2cInterrupt
<1>3. /\ d' \in DriverTypes /\ SameGroup /\ SameStep /\ d'.pc = d.pc
  BY <1>1 DEF DriverTypes, QupI2cInterrupt, SameGroup, SameStep
<1>4. CASE hw.error # "i2c"
  <2>1. hw' \in QupTypes /\ SameBus /\ hw'.error = "none"
    BY ZenonT(60), <1>1, <1>4 DEF QupTypes, QupI2cInterrupt, SameBus
  <2> QED BY <1>2, <1>3, <2>1, NothingHappened DEF I2cInv, I2cTypeOK, QupI2cInterrupt
<1>5. CASE hw.error = "i2c"
  <2>1. /\ hw' \in QupTypes /\ hw'.out = <<>> /\ hw'.ask = <<>> /\ hw'.in = <<>>
        /\ hw'.room = hw.room /\ hw'.failed = hw.failed
    <3>1. <<>> \in Seq(Entries) /\ <<>> \in Seq(BytePairs)
      BY EmptySeq
    <3>2. hw' = [hw EXCEPT !.error = "none", !.state = "reset", !.out = <<>>, !.in = <<>>,
                           !.words = 0, !.ask = <<>>, !.svc = FALSE]
      BY <1>5 DEF QupI2cInterrupt
    <3> QED BY <1>1, <3>1, <3>2 DEF QupTypes
  <2>2. hw'.failed
    BY <2>1, <1>2, <1>5 DEF I2cGoing, Place
  <2> QED BY <1>1, <1>2, <1>3, <2>1, <2>2, BusIsLost DEF I2cInv, I2cTypeOK, QupI2cInterrupt
<1> QED BY <1>4, <1>5

(* A failure is remembered, and nothing is claimed of the bus after it.    *)
LEMMA HwFailsKeeps ==
  ASSUME I2cInv, HwFails
  PROVE  I2cInv'
<1>1. I2cTypeOK /\ d \in DriverTypes /\ hw \in QupTypes
  BY DEF I2cInv, I2cTypeOK
<1>2. /\ hw' \in QupTypes /\ hw'.out = <<>> /\ hw'.ask = <<>> /\ hw'.in = hw.in
      /\ hw'.room = hw.room /\ hw'.failed /\ d' = d
  <2>1. PICK e \in {"i2c", "qup"} :
          hw' = [hw EXCEPT !.error = e, !.failed = TRUE, !.out = <<>>, !.ask = <<>>]
    BY DEF HwFails
  <2>2. <<>> \in Seq(Entries) /\ <<>> \in Seq(BytePairs)
    BY EmptySeq
  <2>3. d' = d
    BY DEF HwFails
  <2> QED BY <1>1, <2>1, <2>2, <2>3 DEF QupTypes
<1>3. I2cTypeOK'
  BY <1>1, <1>2 DEF I2cTypeOK
<1>4. CASE d.pc = "idle"
  BY <1>2, <1>3, <1>4 DEF I2cInv, I2cDone, TransfersAreWhole, Message
<1>5. CASE d.pc # "idle"
  <2>1. SameGroup /\ SameStep /\ d'.pc = d.pc
    BY <1>2 DEF SameGroup, SameStep
  <2> QED BY <1>1, <1>2, <1>3, <1>5, <2>1, BusIsLost DEF I2cInv
<1> QED BY <1>4, <1>5

LEMMA EmptyStream ==
  ASSUME I2cTypeOK, hw.out = <<>>, d.pc # "fill"
  PROVE  Stream = hw.seen
  BY I2cFields, ConcatEmptySeq DEF Stream

(* The end of a group: what the invariant says of it now is what was       *)
(* promised.                                                               *)
LEMMA FinishKeeps ==
  ASSUME I2cInv, Finish
  PROVE  I2cInv'
<1>1. I2cTypeOK /\ d' = OutErr(d, Len(d.msgs)) /\ hw' = hw /\ d.pc = "next" /\ I2cGoing
      /\ d.rem = 0
  BY DEF I2cInv, Finish
<1>2. N \in Nat /\ d.msgs \in Seq(I2cMessages)
  BY <1>1, I2cFields, LenProperties DEF N
<1>3. d' \in DriverTypes /\ d'.pc = "idle" /\ d'.ret = N /\ d'.pos = 0 /\ d'.msgs = d.msgs /\ d'.buf = d.buf
  BY <1>1, <1>2, OutErrTypes DEF N
<1>4. d.m = N + 1 /\ d.pos = 0 /\ hw.out = <<>> /\ BuffersAre
  BY <1>1, <1>2 DEF I2cGoing, Place
<1>5. \A i \in DOMAIN d.msgs : Message(i).rd => d.buf[i] = Bytes(i, Message(i).len)
  <2>1. DOMAIN d.msgs = 1..N
    BY <1>2, LenProperties DEF N
  <2>2. \A i \in 1..N : HasRead(i) = Message(i).len
    BY <1>4, <1>2 DEF HasRead
  <2> QED BY <2>1, <2>2, <1>4 DEF BuffersAre
<1>6. ASSUME ~hw.failed, N > 0
      PROVE  /\ SaysSoFar(d.msgs, hw.seen, Len(d.msgs) + 1, 0)
             /\ ~Message(Len(d.msgs)).rd => hw.seen[Len(hw.seen)].op = "STOP"
  <2>1. Said /\ Stream = hw.seen
    BY <1>1, <1>4, <1>6, EmptyStream DEF I2cGoing
  <2> QED BY <2>1, <1>4, <1>6 DEF Said, Ended, N
<1> QED BY <1>1, <1>2, <1>3, <1>4, <1>5, <1>6
        DEF I2cInv, I2cTypeOK, I2cDone, TransfersAreWhole, Message, N

(* The driver's fields when a group begins.                                *)
LEMMA BegunTypes ==
  ASSUME NEW t \in DriverTypes, NEW g \in MessageSeqs, NEW n \in Nat,
         NEW b \in Buffers
  PROVE  [t EXCEPT !.pc = "next", !.msgs = g, !.m = 1, !.rem = n, !.ret = 0,
                   !.buf = b] \in DriverTypes
<1> DEFINE u == [t EXCEPT !.pc = "next", !.m = 1, !.rem = n, !.ret = 0]
<1>0. 0 \in Int /\ 1 \in Nat /\ n \in Nat
  OBVIOUS
<1>1. u \in DriverTypes
  BY <1>0 DEF DriverTypes
<1>2. [u EXCEPT !.msgs = g, !.buf = b] \in DriverTypes
  <2> HIDE DEF u
  <2> QED BY <1>1 DEF DriverTypes
<1>3. [u EXCEPT !.msgs = g, !.buf = b] =
        [t EXCEPT !.pc = "next", !.msgs = g, !.m = 1, !.rem = n, !.ret = 0, !.buf = b]
  BY DEF DriverTypes
<1> QED BY <1>2, <1>3

(* A group begins with nothing read and nothing said.                      *)
LEMMA QupI2cXferKeeps ==
  ASSUME I2cInv, QupI2cXfer
  PROVE  I2cInv'
<1>1. I2cTypeOK /\ d \in DriverTypes /\ hw \in QupTypes
  BY DEF I2cInv, I2cTypeOK
<1>2. PICK msgs \in Transfers :
        d' = [d EXCEPT !.pc = "next", !.msgs = msgs, !.m = 1,
                      !.rem = Len(msgs), !.ret = 0,
                      !.buf = [i \in DOMAIN msgs |-> <<>>]]
  BY DEF QupI2cXfer
<1> DEFINE empty == [i \in DOMAIN msgs |-> <<>>]
<1>3. msgs \in Seq(I2cMessages) /\ Len(msgs) \in Nat /\ DOMAIN msgs = 1..Len(msgs)
  BY <1>2, I2cAssumption, LenProperties DEF I2cMessages
<1>4. empty \in Seq(Seq(BytePairs)) /\ Len(empty) = Len(msgs)
  BY <1>3, EmptySeq
<1>5. /\ d'.pc = "next" /\ d'.msgs = msgs /\ d'.m = 1 /\ d'.rem = Len(msgs) /\ d'.ret = 0
      /\ d'.buf = empty /\ d'.pos = 0
  BY <1>1, <1>2 DEF DriverTypes, I2cInv, QupI2cXfer
<1>6. /\ hw'.out = <<>> /\ hw'.in = <<>> /\ hw'.ask = <<>> /\ hw'.seen = <<>>
      /\ hw'.error = "none" /\ hw'.room = hw.room
  BY <1>1 DEF QupTypes, QupI2cXfer
<1>7. I2cTypeOK'
  <2>1. <<>> \in Seq(Entries) /\ <<>> \in Seq(BytePairs)
    BY EmptySeq
  <2>2. hw' \in QupTypes
    BY <1>1, <2>1 DEF QupTypes, QupI2cXfer
  <2> HIDE DEF empty
  <2>3. d' = [d EXCEPT !.pc = "next", !.msgs = msgs, !.m = 1, !.rem = Len(msgs),
                       !.ret = 0, !.buf = empty]
    BY <1>2 DEF empty
  <2>4. empty \in Seq(Seq(BytePairs)) /\ msgs \in Seq(I2cMessages) /\ Len(msgs) \in Nat
    BY <1>3, <1>4
  <2>5. d' \in DriverTypes
    BY <1>1, <2>3, <2>4, BegunTypes DEF MessageSeqs, Buffers
  <2> QED BY <2>2, <2>5 DEF I2cTypeOK
<1>8. /\ \A i \in 1..Len(msgs) : msgs[i].len \in Nat /\ msgs[i].len > 0 /\ empty[i] = <<>>
  BY <1>3, MessageTypes
<1> HIDE DEF empty
<1>9. Place'
  BY <1>3, <1>4, <1>5, <1>6, <1>8 DEF Place, This, Message, N, Between, InMessage
<1>10. InTheMessage'
  BY <1>5 DEF InTheMessage, InMessage
<1>11. BuffersAre'
  <2>1. \A i \in 1..Len(msgs) : HasRead(i)' = 0
    BY <1>3, <1>5 DEF HasRead
  <2>2. \A i : Bytes(i, 0) = <<>>
    BY DEF Bytes
  <2> QED BY <1>5, <1>8, <2>1, <2>2 DEF BuffersAre, N
<1>12. Coming'
  <2>1. ~Reading'
    BY <1>5 DEF Reading
  <2>2. NothingComing'
    BY <1>6, EmptySeq DEF NothingComing
  <2> QED BY <2>1, <2>2 DEF Coming
<1>13. Enough'
  <2>1. Wanted' = 0 /\ ~InMessage'
    BY <1>5 DEF Wanted, InMessage
  <2>2. hw'.room # -1 => Room' >= 0
    BY <1>1, <1>6, I2cFields, EmptySeq DEF Room
  <2> QED BY <2>1, <2>2 DEF Enough
<1>14. Said'
  <2>1. Stream' = <<>>
    BY <1>5, <1>6, ConcatEmptySeq, EmptySeq DEF Stream
  <2>2. ~Ended'
    BY <1>3, <1>5, <1>8 DEF Ended, N, Message
  <2> QED BY <1>3, <1>5, <2>1, <2>2, SaysNothing DEF Said
<1> QED BY <1>5, <1>7, <1>9, <1>10, <1>11, <1>12, <1>13, <1>14 DEF I2cInv, I2cGoing

(* A message ends when all of it is read or written.                       *)
LEMMA EndMessageKeeps ==
  ASSUME I2cInv, EndMessage
  PROVE  I2cInv'
<1> DEFINE t == IF MessageEnds THEN [d EXCEPT !.rem = @ - 1, !.m = @ + 1, !.pos = 0]
                ELSE d
<1>1. I2cTypeOK /\ d \in DriverTypes /\ hw \in QupTypes /\ d.pc = "end" /\ hw' = hw /\ I2cGoing
  BY DEF I2cInv, I2cTypeOK, EndMessage
<1>2. /\ d.m \in 1..N /\ d.msg = d.m /\ N \in Nat /\ d.rem = N - d.m + 1 /\ d.rem > 0
      /\ d.cnt = 0 /\ d.pos <= This.len /\ d.pos \in Nat /\ This.len \in Nat
      /\ d.ret = 0 /\ Len(d.buf) = N /\ d.msgs \in Transfers
  <2>1. InMessage /\ Place /\ InTheMessage
    BY <1>1 DEF InMessage, I2cGoing
  <2> QED BY <1>1, <2>1, InAMessage DEF InTheMessage
<1>3. /\ d'.pc = (IF t.cnt = 0 /\ t.rem > 0 THEN "reset" ELSE "writeready")
      /\ d' = [t EXCEPT !.pc = IF t.cnt = 0 /\ t.rem > 0 THEN "reset" ELSE "writeready"]
  <2>1. t \in DriverTypes
    <3>1. d.rem - 1 \in Nat /\ d.m + 1 \in Nat /\ 0 \in Nat
      BY <1>2
    <3> QED BY <1>1, <3>1 DEF DriverTypes
  <2> HIDE DEF t
  <2>2. d' = [t EXCEPT !.pc = IF t.cnt = 0 /\ t.rem > 0 THEN "reset" ELSE "writeready"]
    BY DEF EndMessage, t
  <2> QED BY <2>1, <2>2 DEF DriverTypes
<1>4. /\ d'.msgs = d.msgs /\ d'.ret = 0 /\ d'.buf = d.buf /\ d'.msg = d.m
      /\ d'.cnt = 0 /\ N' = N
      /\ d'.m = (IF MessageEnds THEN d.m + 1 ELSE d.m)
      /\ d'.rem = (IF MessageEnds THEN d.rem - 1 ELSE d.rem)
      /\ d'.pos = (IF MessageEnds THEN 0 ELSE d.pos)
      /\ d'.pc = (IF d'.rem > 0 THEN "reset" ELSE "writeready")
  BY <1>1, <1>2, <1>3 DEF DriverTypes, N
<1>5. I2cTypeOK'
  <2>1. d.rem - 1 \in Nat /\ d.m + 1 \in Nat /\ 0 \in Nat
    BY <1>2
  <2>2. t \in DriverTypes
    BY <1>1, <2>1 DEF DriverTypes
  <2>3. d' \in DriverTypes
    <3> HIDE DEF t
    <3> QED BY <2>2, <1>3 DEF DriverTypes
  <2> QED BY <1>1, <2>3 DEF I2cTypeOK
<1> HIDE DEF t
<1>6. ~MessageEnds => d.pos < This.len /\ This.rd
  <2>1. ~This.rd => d.cnt = This.len - d.pos
    BY <1>1 DEF I2cGoing, InTheMessage, InMessage
  <2> QED BY <1>2, <2>1 DEF MessageEnds
<1>7. \A i \in 1..N : Message(i)' = Message(i) /\ Message(i).len \in Nat /\ Message(i).len > 0
  BY <1>1, <1>4, ThisMessage DEF I2cGoing, Message
<1>8. hw.in = <<>> /\ hw.ask = <<>> /\ NothingComing
  BY <1>1 DEF I2cGoing, Coming, Reading, NothingComing
<1>9. Place'
  <2>1. d'.rem > 0 => This'.len \in Nat /\ d'.pos < This'.len /\ (~This'.rd => d'.pos = 0)
    <3>1. CASE MessageEnds /\ d.m + 1 \in 1..N
      <4>1. This' = Message(d.m + 1)
        BY <1>4, <3>1 DEF This, Message
      <4> QED BY <4>1, <3>1, <1>4, <1>7
    <3>2. CASE ~MessageEnds
      <4>1. This' = This
        BY <1>4, <3>2 DEF This, Message
      <4> QED BY <4>1, <3>2, <1>4, <1>2, <1>6
    <3> QED BY <3>1, <3>2, <1>2, <1>4
  <2>2. d'.m \in 1..(N + 1) /\ d'.rem = N - d'.m + 1 /\ (d'.rem = 0 => d'.pos = 0)
    BY <1>2, <1>4
  <2>3. hw'.error # "none" => hw'.failed
    BY <1>1 DEF I2cGoing, Place
  <2> QED BY <1>1, <1>2, <1>4, <1>8, <2>1, <2>2, <2>3 DEF Place, Between, InMessage
<1>10. InTheMessage'
  BY <1>4 DEF InTheMessage, InMessage
<1>11. BuffersAre'
  <2>1. \A i \in 1..N : HasRead(i)' = HasRead(i)
    BY <1>2, <1>4, <1>7 DEF HasRead, MessageEnds, This
  <2> QED BY <1>1, <1>4, <1>7, <2>1 DEF I2cGoing, BuffersAre
<1>12. Coming'
  BY <1>1, <1>4, <1>8 DEF Coming, Reading, NothingComing
<1>13. Enough'
  <2>1. ~InMessage' /\ Wanted' = 0
    BY <1>4 DEF InMessage, Wanted
  <2> QED BY <1>1, <2>1 DEF I2cGoing, Enough, Room
<1>14. ASSUME ~hw.failed PROVE Said'
  <2>1. Said
    BY <1>1, <1>14 DEF I2cGoing
  <2>2. Stream' = Stream
    BY <1>1, <1>4 DEF Stream
  <2>3. Stream \in Seq(Entries) /\ d.msgs \in Seq(I2cMessages)
    BY <1>1, I2cFields, ConcatProperties, EmptySeq DEF Stream
  <2>4. \A i \in DOMAIN d.msgs : \A j \in 1..d.msgs[i].len :
          Told(d.msgs, i, j, d.m, d.pos) <=> Told(d.msgs, i, j, d'.m, d'.pos)
    <3> TAKE i \in DOMAIN d.msgs
    <3> TAKE j \in 1..d.msgs[i].len
    <3>1. i \in Nat /\ d.msgs[i].len \in Nat
      BY <2>3, MessageTypes
    <3>2. CASE MessageEnds
      BY <3>1, <3>2, <1>2, <1>4 DEF Told, MessageEnds, This, Message
    <3>3. CASE ~MessageEnds
      BY <3>3, <1>4
    <3> QED BY <3>2, <3>3
  <2>5. SaysSoFar(d.msgs, Stream, d'.m, d'.pos)
    <3>1. SaysSoFar(d.msgs, Stream, d.m, d.pos) /\ d'.m \in Nat /\ d'.pos \in Nat
      BY <2>1, <1>2, <1>4 DEF Said
    <3>2. d.m \in Nat
      BY <1>2
    <3> HIDE DEF Told
    <3> QED BY <3>1, <3>2, <2>3, <2>4, <1>2, SaysSame
  <2>6. Ended' => Ended
    <3>1. CASE MessageEnds
      <4>1. d'.m = d.m + 1 /\ d'.pos = 0 /\ d.pos = This.len
        BY <3>1, <1>4 DEF MessageEnds
      <4>2. Message(N).len > 0 /\ Message(N).len \in Nat
        BY <1>2, <1>7
      <4>3. Ended' => d.m = N /\ N > 0 /\ ~Message(N).rd
        <5>1. Message(N)' = Message(N)
          BY <1>4 DEF Message
        <5>2. Ended' => N > 0 /\ ~Message(N).rd /\ (d.m + 1 = N + 1 \/ (d.m + 1 = N /\ 0 = Message(N).len))
          BY <5>1, <4>1, <1>4 DEF Ended
        <5> QED BY <5>2, <4>2, <1>2
      <4> QED BY <4>1, <4>3 DEF Ended, This
    <3>2. CASE ~MessageEnds
      <4>1. d'.m = d.m /\ d'.pos = d.pos
        BY <3>2, <1>4
      <4> QED BY <4>1, <1>4 DEF Ended, Message
    <3> QED BY <3>1, <3>2
  <2> QED BY <2>1, <2>2, <2>5, <2>6, <1>4 DEF Said
<1> QED BY <1>1, <1>4, <1>5, <1>9, <1>10, <1>11, <1>12, <1>13, <1>14 DEF I2cInv, I2cGoing

(* The reset between messages finds the FIFO empty.                        *)
LEMMA ResetStateKeeps ==
  ASSUME I2cInv, ResetState
  PROVE  I2cInv'
<1>1. I2cTypeOK /\ d \in DriverTypes /\ hw \in QupTypes /\ d.pc = "reset" /\ hw.out = <<>>
      /\ I2cGoing
  BY DEF I2cInv, I2cTypeOK, ResetState
<1>2. hw.in = <<>> /\ hw.ask = <<>>
  BY <1>1 DEF I2cGoing, Place, Between
<1>3. I2cTypeOK'
  <2>1. <<>> \in Seq(BytePairs) /\ 0 \in Nat
    BY EmptySeq
  <2> QED BY <1>1, <2>1 DEF I2cTypeOK, DriverTypes, QupTypes, ResetState
<1>4. SameGroup /\ SameBus /\ SameStep /\ d'.pc = "writeready" /\ hw'.error = hw.error
  BY <1>1, <1>2 DEF DriverTypes, QupTypes, ResetState, SameGroup, SameBus, SameStep
<1>5. Place'
  BY <1>1, <1>4 DEF I2cGoing, Place, SameGroup, SameBus, SameStep, This, Message, N, Between, InMessage
<1>6. InTheMessage'
  BY <1>4 DEF InTheMessage, InMessage
<1>7. Coming'
  <2>1. Reading' <=> Reading
    BY <1>1, <1>4 DEF Reading
  <2> QED BY <1>1, <1>4, <2>1, ComingKept DEF I2cGoing
<1>8. Enough'
  <2>1. ~InMessage' /\ Wanted' = 0
    BY <1>4 DEF InMessage, Wanted
  <2> QED BY <1>1, <1>4, <2>1 DEF I2cGoing, Enough, Room, SameBus
<1> QED BY <1>1, <1>3, <1>4, <1>5, <1>6, <1>7, <1>8, BuffersKept, SaidKept DEF I2cInv, I2cGoing, SameBus

(* What came in goes behind what the buffer holds.                         *)
LEMMA DrainFifoKeeps ==
  ASSUME I2cInv, DrainFifo
  PROVE  I2cInv'
<1>1. I2cTypeOK /\ d \in DriverTypes /\ hw \in QupTypes /\ d.pc = "drain" /\ I2cGoing
  BY DEF I2cInv, I2cTypeOK, DrainFifo
<1>2. InMessage /\ Place /\ InTheMessage
  BY <1>1 DEF I2cGoing, InMessage
<1>3. /\ d.m \in 1..N /\ N \in Nat /\ d.msg = d.m /\ This = Message(d.m)
      /\ This.len \in Nat /\ This.len > 0 /\ d.pos \in Nat /\ d.pos <= This.len
      /\ d.cnt \in Nat /\ d.cnt <= This.len - d.pos
  BY <1>1, <1>2, InAMessage
<1>3s. /\ Len(d.buf) = N
      /\ d.buf \in Seq(Seq(BytePairs)) /\ hw.in \in Seq(BytePairs)
      /\ d.msgs \in Seq(I2cMessages) /\ hw.ask \in Seq(BytePairs) /\ hw.out \in Seq(Entries)
  BY <1>1, <1>2, InAMessage, I2cFields
<1>4. CASE ~This.rd
  <2>1. /\ d' = [d EXCEPT !.filled = FALSE, !.pc = IF d.cnt > 0 THEN "pause" ELSE "end"]
        /\ hw' = hw
    BY <1>1, <1>3, <1>4 DEF DrainFifo, DriverTypes
  <2>2. d' \in DriverTypes
    BY <1>1, <2>1 DEF DriverTypes
  <2>3. /\ SameGroup /\ SameBus /\ d'.pc = (IF d.cnt > 0 THEN "pause" ELSE "end")
        /\ d'.msg = d.msg /\ d'.wr_sz = d.wr_sz /\ d'.filled = FALSE /\ hw'.error = hw.error
        /\ N' = N /\ This' = This /\ InMessage'
    BY <1>1, <2>1 DEF DriverTypes, SameGroup, SameBus, N, This, Message, InMessage
  <2>4. d.cnt = This.len - d.pos
    BY <1>1, <1>2, <1>4 DEF InTheMessage
  <2>5. Place'
    BY <1>2, <2>3 DEF Place, SameGroup, SameBus, Between, InMessage
  <2>6. InTheMessage'
    BY <1>1, <1>2, <1>3, <1>4, <2>3, <2>4 DEF InTheMessage, SameGroup
  <2>7. Coming'
    <3>1. ~Reading' /\ ~Reading
      BY <1>4, <2>3 DEF Reading
    <3> QED BY <1>1, <2>3, <3>1, ComingKept DEF I2cGoing
  <2>8. Enough'
    <3>1. Room' = Room /\ hw'.room = hw.room
      BY <2>3 DEF Room, SameBus
    <3>2. Wanted' = Wanted
      BY <1>1, <1>2, <1>4, <2>3 DEF Wanted, Budget, Payload, SameGroup, Message
    <3> QED BY <1>1, <1>2, <1>4, <2>3, <3>1, <3>2 DEF I2cGoing, Enough, InMessage
  <2> QED BY <1>1, <2>1, <2>2, <2>3, <2>5, <2>6, <2>7, <2>8, BuffersKept, SaidKept
          DEF I2cInv, I2cTypeOK, I2cGoing, SameBus
<1>5. CASE This.rd
  <2> DEFINE n == Len(hw.in)
             was == d.buf[d.m]
             buf == [d.buf EXCEPT ![d.m] = was \o hw.in]
  <2>1. BytesComing /\ d.filled /\ d.cnt > 0
    BY <1>1, <1>2, <1>5 DEF I2cGoing, Coming, Reading, InTheMessage
  <2>2. /\ n \in Nat /\ Len(hw.ask) \in Nat /\ n + Len(hw.ask) <= d.cnt
        /\ n <= d.cnt
    <3>1. n \in Nat /\ Len(hw.ask) \in Nat
      BY <1>3s, LenProperties
    <3>2. n + Len(hw.ask) <= d.cnt
      BY <2>1 DEF BytesComing
    <3>3. d.cnt \in Nat
      BY <1>3
    <3> HIDE DEF n
    <3> QED BY ONLY <3>1, <3>2, <3>3
  <2>3. OneOf(n, This.len - d.pos) = n
    BY <1>3, <2>2 DEF OneOf
  <2>4. SubSeq(hw.in, 1, n) = hw.in
    BY <1>3s, SubSeqFull
  <2>5. was = Bytes(d.m, d.pos) /\ was \in Seq(BytePairs) /\ Len(was) = d.pos
    <3>1. HasRead(d.m) = d.pos
      BY <1>3 DEF HasRead
    <3>2. was = Bytes(d.m, d.pos)
      BY <1>1, <1>3, <1>5, <3>1 DEF I2cGoing, BuffersAre
    <3>3. was \in Seq(BytePairs)
      BY <1>3, <1>3s, ElementOfSeq
    <3>4. Len(was) = d.pos
      BY <3>2, <1>3 DEF Bytes
    <3> QED BY <3>2, <3>3, <3>4
  <2> HIDE DEF was
  <2>6. was \o hw.in = Bytes(d.m, d.pos + n) /\ was \o hw.in \in Seq(BytePairs)
    <3> DEFINE s == was \o hw.in
    <3>1. /\ s \in Seq(BytePairs) /\ Len(s) = d.pos + n
          /\ \A k \in 1..(d.pos + n) : s[k] = IF k <= d.pos THEN was[k] ELSE hw.in[k - d.pos]
      <4>1. /\ s \in Seq(BytePairs) /\ Len(s) = Len(was) + Len(hw.in)
            /\ \A k \in 1..(Len(was) + Len(hw.in)) :
                 s[k] = IF k <= Len(was) THEN was[k] ELSE hw.in[k - Len(was)]
        BY ZenonT(60), <2>5, <1>3s, ConcatProperties
      <4>2. Len(was) = d.pos
        BY <2>5
      <4> HIDE DEF s
      <4> QED BY ONLY <4>1, <4>2
    <3>2. \A k \in 1..(d.pos + n) : s[k] = <<d.m, k>>
      <4> TAKE k \in 1..(d.pos + n)
      <4>1. CASE k <= d.pos
        <5>1. was[k] = <<d.m, k>>
          BY <4>1, <2>5 DEF Bytes
        <5> QED BY <3>1, <4>1, <5>1
      <4>2. CASE k > d.pos
        <5>1. k - d.pos \in 1..n /\ d.pos + (k - d.pos) = k
          BY SMTT(40), <4>2, <1>3, <2>2
        <5>2. hw.in[k - d.pos] = <<d.m, d.pos + (k - d.pos)>>
          BY <5>1, <2>1 DEF BytesComing, Arriving
        <5>3. s[k] = hw.in[k - d.pos]
          <6>1. ~(k <= d.pos)
            BY <4>2, <1>3
          <6> QED BY <3>1, <6>1
        <5> QED BY <5>1, <5>2, <5>3
      <4>3. k <= d.pos \/ k > d.pos
        BY <1>3, <2>2
      <4> QED BY <4>1, <4>2, <4>3
    <3>3. s = [k \in 1..(d.pos + n) |-> s[k]]
      <4>1. s \in [1..Len(s) -> BytePairs] /\ Len(s) = d.pos + n
        BY <3>1, LenProperties
      <4> HIDE DEF s
      <4>2. s = [k \in 1..Len(s) |-> s[k]]
        BY <4>1
      <4> QED BY <4>1, <4>2
    <3> HIDE DEF s
    <3>4. s = [k \in 1..(d.pos + n) |-> <<d.m, k>>]
      BY <3>2, <3>3
    <3> QED BY <3>1, <3>4 DEF Bytes, s
  <2>7. /\ d' = [d EXCEPT !.buf = buf, !.pos = d.pos + n, !.cnt = d.cnt - n,
                          !.pc = IF d.cnt - n > 0 THEN "pause" ELSE "end"]
        /\ hw' = [hw EXCEPT !.in = <<>>, !.words = 0]
    BY <1>1, <1>3, <1>5, <2>3, <2>4 DEF DrainFifo, Drain, DriverTypes, was
  <2>8. buf \in Seq(Seq(BytePairs)) /\ Len(buf) = N
        /\ \A i \in 1..N : buf[i] = IF i = d.m THEN was \o hw.in ELSE d.buf[i]
    BY SMTT(40), <1>3, <1>3s, <2>6, ExceptSeq
  <2> HIDE DEF buf
  <2>9. I2cTypeOK'
    <3>1. d.pos + n \in Nat /\ d.cnt - n \in Nat /\ buf \in Buffers
      <4> HIDE DEF n
      <4> QED BY SMTT(40), <1>3, <2>2, <2>8 DEF Buffers
    <3>2. <<>> \in Seq(BytePairs) /\ 0 \in Nat
      BY EmptySeq
    <3> HIDE DEF n
    <3>3. d' \in DriverTypes
      BY <1>1, <2>7, <3>1 DEF DriverTypes
    <3>4. hw' \in QupTypes
      BY <1>1, <2>7, <3>2 DEF QupTypes
    <3> QED BY <3>3, <3>4 DEF I2cTypeOK
  <2> HIDE DEF n
  <2>10. /\ d'.msgs = d.msgs /\ d'.m = d.m /\ d'.msg = d.msg /\ d'.rem = d.rem /\ d'.ret = d.ret
         /\ d'.pos = d.pos + n /\ d'.cnt = d.cnt - n /\ d'.buf = buf /\ d'.filled = d.filled
         /\ d'.pc = (IF d.cnt - n > 0 THEN "pause" ELSE "end") /\ d'.wr_sz = d.wr_sz
         /\ hw'.in = <<>> /\ hw'.ask = hw.ask /\ hw'.out = hw.out /\ hw'.seen = hw.seen
         /\ hw'.room = hw.room /\ hw'.failed = hw.failed /\ hw'.error = hw.error
    BY <1>1, <2>7 DEF DriverTypes, QupTypes
  <2>11. N' = N /\ This' = This /\ InMessage'
    BY <2>10 DEF N, This, Message, InMessage
  <2>12. Place'
    BY <1>2, <1>3, <2>8, <2>10, <2>11, InAMessage, <1>1 DEF Place, Between, InMessage
  <2>13. InTheMessage'
    <3>1. d.pos + n <= This.len /\ d.cnt - n <= This.len - (d.pos + n)
          /\ (~(d.cnt - n > 0) => d.cnt - n = 0)
      BY SMTT(40), <1>3, <2>2
    <3> QED BY <1>2, <1>5, <3>1, <2>10, <2>11, <1>1 DEF InTheMessage
  <2>14. BuffersAre'
    <3> SUFFICES ASSUME NEW i \in 1..N, Message(i).rd
                 PROVE  buf[i] = Bytes(i, HasRead(i)')
      BY <2>10, <2>11 DEF BuffersAre, Message
    <3>1. CASE i = d.m
      <4>1. HasRead(i)' = d.pos + n
        BY <3>1, <2>10, <1>3 DEF HasRead
      <4> QED BY <3>1, <4>1, <2>6, <2>8
    <3>2. CASE i # d.m
      <4>1. HasRead(i)' = HasRead(i)
        BY <3>2, <2>10, <1>3 DEF HasRead, Message
      <4> QED BY <3>2, <4>1, <2>8, <1>1 DEF I2cGoing, BuffersAre
    <3> QED BY <3>1, <3>2
  <2>15. \A k \in 1..Len(hw.out) : hw.out[k].op = "REC" =>
            k = Len(hw.out) /\ hw.out[k].arg = <<d.m, d.pos, d.cnt>> /\ n = 0 /\ hw.ask = <<>>
    BY <2>1, EmptySeq DEF BytesComing, Commanded, n
  <2>16. Coming'
    <3>1. CASE d.cnt - n > 0
      <4>1. Reading'
        BY <3>1, <1>5, <2>1, <2>10, <2>11 DEF Reading
      <4>2. Len(hw'.in) = 0 /\ Len(hw'.ask) = Len(hw.ask) /\ 1..Len(hw'.in) = {}
        BY <2>10, EmptySeq
      <4>3. \A k \in 1..Len(hw.ask) : hw.ask[k] = <<d.m, (d.pos + n) + 0 + k>>
        <5>1. \A k \in 1..Len(hw.ask) : hw.ask[k] = <<d.m, d.pos + n + k>>
          BY <2>1 DEF BytesComing, Arriving, n
        <5>2. (d.pos + n) + 0 = d.pos + n
          BY <1>3, <2>2
        <5> QED BY <5>1, <5>2
      <4>4. Arriving'
        BY <4>2, <4>3, <2>10 DEF Arriving
      <4>5. Commanded'
        <5>1. \A k \in 1..Len(hw.out) : hw.out[k].op = "REC" =>
                 hw.out[k].arg = <<d.m, d.pos + n, d.cnt - n>>
          <6> TAKE k \in 1..Len(hw.out)
          <6> HAVE hw.out[k].op = "REC"
          <6>1. hw.out[k].arg = <<d.m, d.pos, d.cnt>> /\ n = 0
            BY <2>15
          <6>2. d.pos + 0 = d.pos /\ d.cnt - 0 = d.cnt
            BY <1>3
          <6> QED BY <6>1, <6>2
        <5> QED BY <5>1, <2>15, <2>10 DEF Commanded
      <4>6. Len(hw'.in) + Len(hw'.ask) <= d'.cnt
        BY <4>2, <2>2, <2>10, <1>3
      <4> QED BY <4>1, <4>4, <4>5, <4>6 DEF Coming, BytesComing
    <3>2. CASE ~(d.cnt - n > 0)
      <4>1. ~Reading'
        BY <3>2, <2>10 DEF Reading
      <4>2. d.cnt = n /\ Len(hw.ask) = 0
        BY <3>2, <2>2, <1>3
      <4>3. hw.ask = <<>>
        BY <4>2, <1>3s, EmptySeq
      <4>4. \A k \in 1..Len(hw.out) : hw.out[k].op # "REC"
        BY <2>15, <4>2, <2>1
      <4> QED BY <4>1, <4>3, <4>4, <2>10 DEF Coming, NothingComing
    <3> QED BY <3>1, <3>2
  <2>17. Enough'
    <3>1. Wanted' = 0 /\ Room' = Room
      BY <1>5, <2>10, <2>11 DEF Wanted, Room
    <3> QED BY <1>1, <1>5, <2>1, <2>10, <2>11, <3>1 DEF I2cGoing, Enough
  <2>18. ASSUME ~hw.failed PROVE Said'
    <3>1. Said
      BY <1>1, <2>18 DEF I2cGoing
    <3>2. Stream' = Stream
      BY <1>1, <2>10 DEF Stream
    <3>3. Stream \in Seq(Entries)
      BY <1>1, I2cFields, ConcatProperties, EmptySeq DEF Stream
    <3>4. \A i \in DOMAIN d.msgs : \A j \in 1..d.msgs[i].len :
            Told(d.msgs, i, j, d.m, d.pos) <=> Told(d.msgs, i, j, d.m, d.pos + n)
      BY <1>3, <1>5 DEF Told, Message
    <3>5. SaysSoFar(d.msgs, Stream, d.m, d.pos + n)
      <4>1. SaysSoFar(d.msgs, Stream, d.m, d.pos) /\ d.m \in Nat /\ d.pos + n \in Nat
        BY SMTT(40), <3>1, <1>3, <2>2 DEF Said
      <4> HIDE DEF Told
      <4> QED BY <4>1, <3>3, <3>4, <1>3, <1>3s, SaysSame
    <3>6. ~Ended'
      BY <1>3, <1>5, <2>10, <2>11 DEF Ended, Message
    <3> QED BY <3>2, <3>5, <3>6, <2>10 DEF Said
  <2> QED BY <2>9, <2>10, <2>12, <2>13, <2>14, <2>16, <2>17, <2>18 DEF I2cInv, I2cGoing
<1> QED BY <1>4, <1>5

(* The bytes of a read come in their order.                                *)
LEMMA HwReceivesKeeps ==
  ASSUME I2cInv, HwReceives
  PROVE  I2cInv'
<1> DEFINE n == OneOf(2, Len(hw.ask))
<1>1. I2cTypeOK /\ d \in DriverTypes /\ hw \in QupTypes /\ d' = d /\ hw.ask # <<>>
  BY DEF I2cInv, I2cTypeOK, HwReceives
<1>1s. hw.in \in Seq(BytePairs) /\ hw.ask \in Seq(BytePairs)
  BY <1>1, I2cFields
<1>2. n \in Nat /\ n >= 1 /\ n <= Len(hw.ask) /\ Len(hw.ask) \in Nat /\ Len(hw.in) \in Nat
  <2>1. Len(hw.ask) \in Nat \ {0} /\ Len(hw.in) \in Nat
    BY <1>1, <1>1s, EmptySeq, LenProperties
  <2> QED BY <2>1 DEF OneOf
<1> DEFINE got == SubSeq(hw.ask, 1, n)
           ask == SubSeq(hw.ask, n + 1, Len(hw.ask))
           in  == hw.in \o got
<1>3. hw' = [hw EXCEPT !.in = in, !.words = hw.words + 1, !.ask = ask, !.svc = TRUE]
  BY <1>1 DEF HwReceives, QupTypes
<1> HIDE DEF n
<1>4. got \in Seq(BytePairs) /\ Len(got) = n /\ \A k \in 1..n : got[k] = hw.ask[k]
  <2>1. \A i \in 1..n : hw.ask[i] \in BytePairs
    BY <1>1s, <1>2, ElementOfSeq
  <2>2. /\ got \in Seq(BytePairs)
        /\ Len(got) = (IF 1 <= n THEN n - 1 + 1 ELSE 0)
        /\ \A k \in 1..(n - 1 + 1) : got[k] = hw.ask[1 + k - 1]
    BY <2>1, <1>2, SubSeqProperties
  <2>3. n - 1 + 1 = n /\ \A k \in 1..n : 1 + k - 1 = k
    BY <1>2
  <2> HIDE DEF got
  <2> QED BY <2>2, <2>3, <1>2
<1>5. /\ ask \in Seq(BytePairs) /\ Len(ask) = Len(hw.ask) - n
      /\ \A k \in 1..(Len(hw.ask) - n) : ask[k] = hw.ask[n + k]
  <2>0. n + 1 \in Int /\ Len(hw.ask) \in Int
    BY <1>2
  <2>1. \A i \in (n + 1)..Len(hw.ask) : hw.ask[i] \in BytePairs
    BY <1>1s, <1>2, ElementOfSeq
  <2>2. /\ ask \in Seq(BytePairs)
        /\ Len(ask) = (IF n + 1 <= Len(hw.ask) THEN Len(hw.ask) - (n + 1) + 1 ELSE 0)
        /\ \A k \in 1..(Len(hw.ask) - (n + 1) + 1) : ask[k] = hw.ask[(n + 1) + k - 1]
    BY <2>0, <2>1, SubSeqProperties
  <2>3. /\ Len(hw.ask) - (n + 1) + 1 = Len(hw.ask) - n
        /\ ~(n + 1 <= Len(hw.ask)) => Len(hw.ask) - n = 0
        /\ \A k \in 1..(Len(hw.ask) - n) : (n + 1) + k - 1 = n + k
    BY <1>2
  <2> HIDE DEF ask
  <2> QED BY <2>2, <2>3
<1>6. /\ in \in Seq(BytePairs) /\ Len(in) = Len(hw.in) + n
      /\ \A k \in 1..(Len(hw.in) + n) :
           in[k] = IF k <= Len(hw.in) THEN hw.in[k] ELSE got[k - Len(hw.in)]
  <2> HIDE DEF got
  <2>1. /\ in \in Seq(BytePairs) /\ Len(in) = Len(hw.in) + Len(got)
        /\ \A k \in 1..(Len(hw.in) + Len(got)) :
             in[k] = IF k <= Len(hw.in) THEN hw.in[k] ELSE got[k - Len(hw.in)]
    BY ZenonT(60), <1>1s, <1>4, ConcatProperties
  <2> HIDE DEF in
  <2> QED BY ONLY <2>1, <1>4
<1> HIDE DEF got, ask, in
<1>7. I2cTypeOK'
  <2>1. hw.words \in Nat
    BY <1>1, Zenon DEF I2cTypeOK, QupTypes
  <2>2. hw.words + 1 \in Nat
    BY ONLY <2>1
  <2> QED BY <1>1, <1>3, <1>5, <1>6, <2>2 DEF I2cTypeOK, QupTypes
<1>8. /\ hw'.in = in /\ hw'.ask = ask /\ hw'.out = hw.out /\ hw'.seen = hw.seen
      /\ hw'.room = hw.room /\ hw'.failed = hw.failed /\ hw'.error = hw.error
  BY <1>1, <1>3 DEF QupTypes
<1>9. CASE d.pc = "idle"
  BY <1>1, <1>7, <1>8, <1>9 DEF I2cInv, I2cDone, TransfersAreWhole, Message
<1>10. CASE d.pc # "idle"
  <2>1. I2cGoing /\ Reading /\ BytesComing
    BY <1>1, <1>10 DEF I2cInv, I2cGoing, Coming, NothingComing
  <2>2. Place' /\ InMessage
    <3>1. ~Between /\ InMessage
      BY <2>1 DEF Reading, Between, InMessage
    <3> QED BY <1>1, <1>8, <2>1, <3>1 DEF I2cGoing, Place, This, Message, N, Between, InMessage
  <2>3. InTheMessage' /\ BuffersAre'
    BY <1>1, <2>1 DEF I2cGoing, InTheMessage, InMessage, FillsUp, BuffersAre, HasRead, This, Message, N
  <2>4. Len(in) + Len(ask) <= d.cnt
    <3>1. Len(hw.in) + Len(hw.ask) <= d.cnt
      BY <2>1 DEF BytesComing
    <3>2. Len(in) + Len(ask) = Len(hw.in) + Len(hw.ask)
      <4>1. Len(in) = Len(hw.in) + n
        BY <1>6
      <4>2. Len(ask) = Len(hw.ask) - n
        BY <1>5
      <4>3. \A x, y \in Nat : (x + n) + (y - n) = x + y
        BY ONLY <1>2
      <4> QED BY ONLY <4>1, <4>2, <4>3, <1>2
    <3> QED BY <3>1, <3>2
  <2>5. /\ \A k \in 1..Len(hw.in) : hw.in[k] = <<d.m, d.pos + k>>
        /\ \A k \in 1..Len(hw.ask) : hw.ask[k] = <<d.m, d.pos + Len(hw.in) + k>>
    BY <2>1 DEF BytesComing, Arriving
  <2>6. d.pos \in Nat
    BY <1>1, I2cFields
  <2>7. \A k \in 1..Len(in) : in[k] = <<d.m, d.pos + k>>
    <3> TAKE k \in 1..Len(in)
    <3>0. k \in 1..(Len(hw.in) + n)
      BY <1>6
    <3>1. CASE k <= Len(hw.in)
      <4>1. in[k] = hw.in[k] /\ k \in 1..Len(hw.in)
        BY <3>0, <3>1, <1>2, <1>6
      <4> QED BY <4>1, <2>5
    <3>2. CASE ~(k <= Len(hw.in))
      <4>1. k - Len(hw.in) \in 1..n /\ k - Len(hw.in) \in 1..Len(hw.ask)
        BY <3>0, <3>2, <1>2
      <4>2. in[k] = hw.ask[k - Len(hw.in)]
        BY <3>0, <3>2, <4>1, <1>4, <1>6
      <4>3. hw.ask[k - Len(hw.in)] = <<d.m, d.pos + Len(hw.in) + (k - Len(hw.in))>>
        BY <4>1, <2>5
      <4>4. d.pos + Len(hw.in) + (k - Len(hw.in)) = d.pos + k
        BY <3>0, <1>2, <2>6
      <4> QED BY <4>2, <4>3, <4>4
    <3> QED BY <3>1, <3>2
  <2>8. \A k \in 1..Len(ask) : ask[k] = <<d.m, d.pos + Len(in) + k>>
    <3> TAKE k \in 1..Len(ask)
    <3>1. k \in 1..(Len(hw.ask) - n) /\ n + k \in 1..Len(hw.ask)
      BY <1>2, <1>5
    <3>2. ask[k] = hw.ask[n + k]
      BY <3>1, <1>5
    <3>3. hw.ask[n + k] = <<d.m, d.pos + Len(hw.in) + (n + k)>>
      BY <3>1, <2>5
    <3>4. d.pos + Len(hw.in) + (n + k) = d.pos + Len(in) + k
      BY <3>1, <1>2, <1>6, <2>6
    <3> QED BY <3>2, <3>3, <3>4
  <2>9. \A k \in 1..Len(hw.out) : hw.out[k].op # "REC"
    BY <2>1, <1>1 DEF BytesComing, Commanded
  <2>10. Coming'
    <3>1. Reading'
      BY <1>1, <2>1 DEF Reading, This, Message
    <3>2. Arriving' /\ Commanded'
      BY <1>1, <1>8, <2>7, <2>8, <2>9 DEF Arriving, Commanded
    <3> QED BY <1>1, <1>8, <2>4, <3>1, <3>2 DEF Coming, BytesComing
  <2>11. Enough'
    BY <1>1, <1>8, <2>1 DEF I2cGoing, Enough, Wanted, HeldBack, Room, Budget, Payload, InMessage, This, Message
  <2>12. ~hw'.failed => Said'
    BY <1>1, <1>8, <2>1 DEF I2cGoing, Said, Stream, Pending, Ended, Message, N
  <2> QED BY <1>1, <1>7, <1>10, <2>2, <2>3, <2>10, <2>11, <2>12 DEF I2cInv, I2cGoing
<1> QED BY <1>9, <1>10

(* The entries the controller acts upon.                                   *)
LEMMA EntryTypes ==
  ASSUME NEW e \in Entries
  PROVE  /\ e.op \in {"NOP", "START", "DATA", "STOP", "REC"}
         /\ e.op = "REC" => e.arg \in Nat \X Nat \X Nat
  BY DEF Entries

(* Taking out the first of the middle one of three sequences.              *)
IsWithout(t, s, p, h) ==
  /\ p \in 1..Len(s) /\ s[p] = h /\ Len(t) = Len(s) - 1
  /\ \A k \in 1..Len(t) : t[k] = IF k < p THEN s[k] ELSE s[k + 1]
(* A sequence without its first part's last entry.                         *)
LEMMA Dropped ==
  ASSUME NEW S, NEW a \in Seq(S), NEW h \in S, NEW r \in Seq(S)
  PROVE  /\ a \o (<<h>> \o r) \in Seq(S) /\ a \o r \in Seq(S)
         /\ IsWithout(a \o r, a \o (<<h>> \o r), Len(a) + 1, h)
<1> DEFINE na == Len(a)
           nr == Len(r)
           x  == Append(a, h)
           s  == a \o (<<h>> \o r)
           t  == a \o r
<1>1. na \in Nat /\ nr \in Nat
  BY LenProperties
<1>2. /\ x \in Seq(S) /\ Len(x) = na + 1
      /\ \A k \in 1..na : x[k] = a[k]
      /\ x[na + 1] = h
  BY AppendProperties
<1>3. <<h>> \in Seq(S)
  OBVIOUS
<1>4. s = x \o r
  BY SMTT(40), <1>3, ConcatAssociative, AppendIsConcat
<1>5. /\ t \in Seq(S) /\ Len(t) = na + nr
      /\ \A k \in 1..(na + nr) : t[k] = IF k <= na THEN a[k] ELSE r[k - na]
  BY ConcatProperties
<1> HIDE DEF x
<1>6. /\ x \o r \in Seq(S) /\ Len(x \o r) = Len(x) + nr
      /\ \A k \in 1..(Len(x) + nr) : (x \o r)[k] = IF k <= Len(x) THEN x[k] ELSE r[k - Len(x)]
  BY <1>2, ConcatProperties
<1> HIDE DEF s, t, na, nr
<1>7. /\ s \in Seq(S) /\ Len(s) = na + 1 + nr
      /\ \A k \in 1..(na + 1 + nr) : s[k] = IF k <= na + 1 THEN x[k] ELSE r[k - (na + 1)]
  BY <1>4, <1>6, <1>2
<1>8. na + 1 \in 1..(na + 1 + nr) /\ s[na + 1] = h
  BY <1>1, <1>2, <1>7
<1>9. ASSUME NEW k \in 1..(na + nr)
      PROVE  t[k] = IF k < na + 1 THEN s[k] ELSE s[k + 1]
  <2>1. CASE k < na + 1
    <3>1. k \in 1..na /\ k <= na /\ k \in 1..(na + 1 + nr) /\ k <= na + 1
      BY <2>1, <1>1
    <3> QED BY <3>1, <2>1, <1>2, <1>5, <1>7
  <2>2. CASE ~(k < na + 1)
    <3>1. ~(k <= na) /\ k + 1 \in 1..(na + 1 + nr) /\ ~(k + 1 <= na + 1) /\ (k + 1) - (na + 1) = k - na
      BY <2>2, <1>1
    <3>2. t[k] = r[k - na]
      BY <3>1, <1>5
    <3>3. s[k + 1] = r[(k + 1) - (na + 1)]
      BY <3>1, <1>7
    <3> QED BY <3>1, <3>2, <3>3, <2>2
  <2> QED BY <2>1, <2>2
<1>10. Len(t) = Len(s) - 1
  BY <1>1, <1>5, <1>7
<1>11. IsWithout(t, s, na + 1, h)
  BY <1>5, <1>7, <1>8, <1>9, <1>10 DEF IsWithout
<1> QED BY <1>5, <1>7, <1>11 DEF s, t, na

LEMMA DroppedLast ==
  ASSUME NEW S, NEW a \in Seq(S), NEW h \in S, NEW r \in Seq(S), r # <<>>
  PROVE  (a \o r)[Len(a \o r)] = (a \o (<<h>> \o r))[Len(a \o (<<h>> \o r))]
<1> DEFINE na == Len(a)
           s  == a \o (<<h>> \o r)
           t  == a \o r
<1>1. na \in Nat /\ Len(r) \in Nat \ {0}
  BY LenProperties, EmptySeq
<1>2. Len(t) = na + Len(r)
  BY ConcatProperties
<1>3. /\ Len(t) = Len(s) - 1 /\ na + 1 \in 1..Len(s)
      /\ \A k \in 1..Len(t) : t[k] = IF k < na + 1 THEN s[k] ELSE s[k + 1]
  BY Dropped DEF IsWithout
<1>4. Len(s) \in Nat
  <2>1. s \in Seq(S)
    BY Dropped
  <2> QED BY <2>1, LenProperties
<1> HIDE DEF na, s, t
<1>5. Len(t) \in 1..Len(t) /\ ~(Len(t) < na + 1) /\ Len(t) + 1 = Len(s)
  BY <1>1, <1>2, <1>3, <1>4
<1> QED BY <1>3, <1>5 DEF s, t

(* A sequence is its head and its tail.                                    *)
LEMMA HeadAndTail ==
  ASSUME NEW S, NEW b \in Seq(S), b # <<>>
  PROVE  <<Head(b)>> \o Tail(b) = b /\ Head(b) \in S /\ Tail(b) \in Seq(S)
<1>1. Head(b) \in S /\ Tail(b) \in Seq(S)
  BY HeadTailProperties
<1>2. Len(b) \in Nat \ {0}
  BY EmptySeq
<1>3. SubSeq(b, 1, Len(b)) = <<b[1]>> \o SubSeq(b, 2, Len(b))
  <2>1. 1 \in 1..Len(b) /\ Len(b) \in 1..Len(b) /\ 1 + 1 = 2
    BY <1>2
  <2> QED BY <2>1, SubSeqRecursiveFirst
<1>4. Head(b) = b[1] /\ Tail(b) = SubSeq(b, 2, Len(b)) /\ SubSeq(b, 1, Len(b)) = b
  BY <1>2, TailIsSubSeq, SubSeqFull
<1> QED BY <1>1, <1>3, <1>4

LEMMA HeadMoves ==
  ASSUME NEW S, NEW a \in Seq(S), NEW b \in Seq(S), b # <<>>
  PROVE  Append(a, Head(b)) \o Tail(b) = a \o b
<1>1. Head(b) \in S /\ Tail(b) \in Seq(S) /\ <<Head(b)>> \o Tail(b) = b
  BY HeadAndTail
<1>2. <<Head(b)>> \in Seq(S)
  BY <1>1
<1>3. (a \o <<Head(b)>>) \o Tail(b) = a \o (<<Head(b)>> \o Tail(b))
  BY SMTT(40), <1>1, <1>2, ConcatAssociative
<1> QED BY <1>1, <1>3, AppendIsConcat

LEMMA Regrouped ==
  ASSUME NEW S, NEW a \in Seq(S), NEW b \in Seq(S), NEW c \in Seq(S), b # <<>>
  PROVE  /\ (a \o b) \o c = a \o (<<Head(b)>> \o (Tail(b) \o c))
         /\ (a \o Tail(b)) \o c = a \o (Tail(b) \o c)
         /\ Head(b) \in S /\ Tail(b) \o c \in Seq(S)
<1>1. Head(b) \in S /\ Tail(b) \in Seq(S) /\ <<Head(b)>> \o Tail(b) = b
  BY HeadAndTail
<1>2. <<Head(b)>> \in Seq(S)
  BY <1>1
<1>3. (<<Head(b)>> \o Tail(b)) \o c = <<Head(b)>> \o (Tail(b) \o c)
  BY <1>1, <1>2, ConcatAssociative
<1>4. (a \o b) \o c = a \o (b \o c)
  BY SMTT(40), ConcatAssociative
<1>5. (a \o Tail(b)) \o c = a \o (Tail(b) \o c)
  BY SMTT(40), <1>1, ConcatAssociative
<1>6. Tail(b) \o c \in Seq(S)
  BY <1>1, ConcatProperties
<1> QED BY <1>1, <1>3, <1>4, <1>5, <1>6

LEMMA Sums ==
  /\ \A a, b, c \in Nat : a = 0 /\ b = c => a + b <= c
  OBVIOUS

(* Sending the first entry: what was said and is to be said stays.         *)
(* An entry that is sent moves from what is to go out to what was seen.    *)
LEMMA HwSendsKeeps ==
  ASSUME I2cInv, HwSends
  PROVE  I2cInv'
<1> DEFINE e == Head(hw.out)
           seen == IF e.op \in {"START", "DATA", "STOP"} THEN Append(hw.seen, e) ELSE hw.seen
           ask  == IF e.op = "REC" THEN [k \in 1..e.arg[3] |-> <<e.arg[1], e.arg[2] + k>>]
                   ELSE <<>>
           room == IF hw.room > 0 THEN hw.room - 1 ELSE hw.room
           out  == Tail(hw.out)
<1>1. /\ I2cTypeOK /\ d \in DriverTypes /\ hw \in QupTypes /\ d' = d
      /\ hw.out # <<>> /\ hw.room # 0 /\ hw.ask = <<>>
  BY DEF I2cInv, I2cTypeOK, HwSends
<1>1s. hw.out \in Seq(Entries) /\ hw.seen \in Seq(Entries) /\ hw.room \in Int /\ hw.room >= -1
  BY <1>1, I2cFields
<1>2. /\ e \in Entries /\ out \in Seq(Entries) /\ Len(out) = Len(hw.out) - 1
      /\ e = hw.out[1] /\ Len(hw.out) \in Nat /\ Len(hw.out) >= 1
      /\ \A k \in 1..Len(out) : out[k] = hw.out[k + 1]
  <2>1. Len(hw.out) \in Nat \ {0} /\ Head(hw.out) = hw.out[1]
    BY <1>1, <1>1s, EmptySeq
  <2> QED BY <1>1, <1>1s, <2>1, HeadTailProperties
<1>3. hw' = [hw EXCEPT !.out = out, !.svc = TRUE, !.room = room, !.seen = seen, !.ask = ask]
  BY <1>1 DEF HwSends, QupTypes
<1> HIDE DEF e, out
<1>4. seen \in Seq(Entries) /\ ask \in Seq(BytePairs) /\ room \in Nat \cup {-1}
  <2>1. seen \in Seq(Entries)
    BY <1>1s, <1>2, AppendProperties
  <2>2. CASE e.op = "REC"
    <3>1. e.arg \in Nat \X Nat \X Nat
      BY <2>2, <1>2, EntryTypes
    <3>2. e.arg[1] \in Nat /\ e.arg[2] \in Nat /\ e.arg[3] \in Nat
      BY <3>1
    <3>3. \A k \in 1..e.arg[3] : <<e.arg[1], e.arg[2] + k>> \in BytePairs
      BY <3>2 DEF BytePairs
    <3> QED BY SMTT(40), <2>1, <2>2, <3>2, <3>3, <1>1s
  <2>3. CASE e.op # "REC"
    BY <2>1, <2>3, <1>1s, EmptySeq
  <2> QED BY <2>2, <2>3
<1>5. /\ hw'.out = out /\ hw'.seen = seen /\ hw'.ask = ask /\ hw'.room = room
      /\ hw'.in = hw.in /\ hw'.failed = hw.failed /\ hw'.error = hw.error
  BY <1>1, <1>3 DEF QupTypes
<1>6. I2cTypeOK'
  <2> HIDE DEF ask, room, seen
  <2> QED BY <1>1, <1>2, <1>3, <1>4 DEF I2cTypeOK, QupTypes
<1>7. CASE d.pc = "idle"
  <2>1. ~(d.ret > 0)
    BY <1>1, <1>7 DEF I2cInv, I2cDone
  <2> QED BY <1>1, <1>6, <1>7, <2>1 DEF I2cInv, I2cDone
<1>8. CASE d.pc # "idle"
  <2>1. I2cGoing
    BY <1>8 DEF I2cInv
  <2>2. Coming' /\ (ask # <<>> => Reading)
    <3>1. CASE Reading
      <4>1. BytesComing
        BY <2>1, <3>1 DEF I2cGoing, Coming
      <4>2. Reading'
        BY <1>1, <3>1 DEF Reading, This, Message
      <4>3. CASE e.op = "REC"
        <5>0. 1 \in 1..Len(hw.out) /\ hw.out[1].op = "REC"
          BY <4>3, <1>2
        <5>1. 1 = Len(hw.out) /\ e.arg = <<d.m, d.pos, d.cnt>> /\ hw.in = <<>>
          BY <4>1, <5>0, <1>2 DEF BytesComing, Commanded
        <5>2. Len(out) = 0
          BY <5>1, <1>2
        <5>3. d.cnt \in Nat /\ d.pos \in Nat
          BY <1>1, I2cFields
        <5>4. ask = [k \in 1..d.cnt |-> <<d.m, d.pos + k>>] /\ Len(hw.in) = 0
          BY <4>3, <5>1, EmptySeq
        <5> HIDE DEF ask
        <5>5. Len(ask) = d.cnt
          BY <5>3, <5>4
        <5>6. Arriving'
          <6>1. \A k \in 1..d.cnt : ask[k] = <<d.m, d.pos + 0 + k>>
            BY <5>3, <5>4
          <6>2. 1..Len(hw.in) = {}
            BY <5>4
          <6> QED BY <6>1, <6>2, <5>4, <5>5, <1>1, <1>5 DEF Arriving
        <5>7. Commanded'
          BY <5>2, <1>5 DEF Commanded
        <5>8. Len(hw'.in) + Len(hw'.ask) <= d'.cnt
          <6>1. Len(hw'.in) = 0 /\ Len(hw'.ask) = d.cnt /\ d'.cnt = d.cnt
            BY <5>4, <5>5, <1>1, <1>5
          <6>2. Len(hw'.in) \in Nat /\ Len(hw'.ask) \in Nat /\ d.cnt \in Nat
            BY <6>1, <5>3
          <6> QED BY <6>1, <6>2, Sums
        <5> QED BY <5>6, <5>7, <5>8, <4>2, <3>1 DEF Coming, BytesComing
      <4>4. CASE e.op # "REC"
        <5>1. ask = hw.ask
          BY <4>4, <1>1
        <5> HIDE DEF ask
        <5>2. Arriving' /\ Len(hw'.in) + Len(hw'.ask) <= d'.cnt
          BY <4>1, <5>1, <1>1, <1>5 DEF BytesComing, Arriving
        <5>3. Commanded'
          <6>1. ASSUME NEW k \in 1..Len(out), out[k].op = "REC"
                PROVE  /\ k = Len(out) /\ out[k].arg = <<d.m, d.pos, d.cnt>>
                       /\ hw.in = <<>> /\ hw.ask = <<>>
            <7>1. out[k] = hw.out[k + 1] /\ k + 1 \in 1..Len(hw.out)
              BY <1>2
            <7>2. k + 1 = Len(hw.out) /\ hw.out[k + 1].arg = <<d.m, d.pos, d.cnt>>
                  /\ hw.in = <<>> /\ hw.ask = <<>>
              BY <6>1, <7>1, <4>1 DEF BytesComing, Commanded
            <7> QED BY <7>1, <7>2, <1>2
          <6> QED BY <6>1, <5>1, <1>1, <1>5 DEF Commanded
        <5> QED BY <5>2, <5>3, <4>2, <3>1 DEF Coming, BytesComing
      <4> QED BY <3>1, <4>3, <4>4
    <3>2. CASE ~Reading
      <4>1. NothingComing
        BY <2>1, <3>2 DEF I2cGoing, Coming
      <4>2. e.op # "REC"
        BY <4>1, <1>2 DEF NothingComing
      <4>3. ask = <<>>
        BY <4>2
      <4>4. \A k \in 1..Len(out) : out[k].op # "REC"
        <5> TAKE k \in 1..Len(out)
        <5>1. out[k] = hw.out[k + 1] /\ k + 1 \in 1..Len(hw.out)
          BY <1>2
        <5> QED BY <5>1, <4>1 DEF NothingComing
      <4>5. ~Reading'
        BY <1>1, <3>2 DEF Reading, This, Message
      <4> QED BY <4>1, <4>3, <4>4, <4>5, <1>5 DEF Coming, NothingComing
    <3> QED BY <3>1, <3>2
  <2>3. Place'
    <3>1. Between => ask = <<>>
      BY <2>2 DEF Between, Reading
    <3>2. ~(Between /\ d.rem > 0 /\ d.pc # "reset") /\ d.pc # "next"
      BY <2>1, <1>1 DEF I2cGoing, Place
    <3> HIDE DEF ask
    <3> QED BY <1>1, <1>5, <2>1, <3>1, <3>2 DEF I2cGoing, Place, This, Message, N, Between, InMessage
  <2>4. InTheMessage' /\ BuffersAre'
    BY <1>1, <2>1 DEF I2cGoing, InTheMessage, InMessage, FillsUp, BuffersAre, HasRead, This, Message, N
  <2>5. Enough'
    <3>1. Room' = (IF hw.room > 0 THEN Room ELSE hw.room - Len(out))
      <4>1. hw'.room = room /\ Len(hw'.out) = Len(out)
        BY <1>5
      <4>2. Len(out) = Len(hw.out) - 1 /\ Len(hw.out) \in Nat /\ hw.room \in Int
        BY <1>1s, <1>2
      <4> QED BY ONLY <4>1, <4>2 DEF Room, room
    <3>2. hw'.room # -1 => hw.room > 0 /\ hw.room # -1
      BY <1>1, <1>1s, <1>5
    <3>3. Wanted' = Wanted
      BY <1>1 DEF Wanted, HeldBack, Budget, Payload, InMessage, This, Message
    <3> HIDE DEF room
    <3> QED BY <1>1, <2>1, <3>1, <3>2, <3>3 DEF I2cGoing, Enough, InMessage, This, Message
  <2>6. ASSUME ~hw.failed PROVE Said'
    <3> DEFINE rest == IF d.pc = "fill" THEN Pending ELSE <<>>
    <3>1. Said
      BY <2>1, <2>6 DEF I2cGoing
    <3>2. rest \in Seq(Entries) /\ rest' = rest
      <4>1. d.carry \in Entries
        BY <1>1, I2cFields
      <4>2. <<d.carry>> \in Seq(Entries) /\ <<>> \in Seq(Entries)
        BY <4>1, EmptySeq
      <4> QED BY <4>2, <1>1 DEF Pending
    <3>3. Stream = (hw.seen \o hw.out) \o rest /\ Stream' = (seen \o out) \o rest
      BY <3>2, <1>1, <1>5 DEF Stream
    <3> HIDE DEF rest, seen
    <3>4. hw.seen \o hw.out \in Seq(Entries) /\ seen \o out \in Seq(Entries)
      BY <1>1s, <1>2, <1>4, ConcatProperties
    <3>5. Stream \in Seq(Entries) /\ Stream' \in Seq(Entries)
      BY <3>2, <3>3, <3>4, ConcatProperties
    <3>6. Ended' = Ended
      BY <1>1 DEF Ended, Message, N
    <3>7. d.msgs \in Seq(I2cMessages) /\ d.m \in Nat /\ d.pos \in Nat
      BY <1>1, I2cFields
    <3>8. CASE e.op \in {"START", "DATA", "STOP"}
      <4>1. seen = Append(hw.seen, e)
        BY <3>8 DEF seen
      <4>2. seen \o out = hw.seen \o hw.out
        BY <4>1, <1>1, <1>1s, <1>2, HeadMoves DEF e, out
      <4>3. Stream' = Stream
        BY <4>2, <3>3
      <4> QED BY <4>3, <3>1, <3>6, <1>1 DEF Said
    <3>9. CASE e.op \in {"NOP", "REC"}
      <4> DEFINE p == Len(hw.seen) + 1
                 r == out \o rest
      <4>1. seen = hw.seen
        BY SMTT(40), <3>9 DEF seen
      <4>2. /\ Stream = hw.seen \o (<<e>> \o r) /\ Stream' = hw.seen \o r
            /\ e \in Entries /\ r \in Seq(Entries)
        <5>1. /\ (hw.seen \o hw.out) \o rest
                   = hw.seen \o (<<Head(hw.out)>> \o (Tail(hw.out) \o rest))
              /\ (hw.seen \o Tail(hw.out)) \o rest = hw.seen \o (Tail(hw.out) \o rest)
              /\ Head(hw.out) \in Entries /\ Tail(hw.out) \o rest \in Seq(Entries)
          <6>1. /\ hw.seen \in Seq(Entries) /\ hw.out \in Seq(Entries)
                /\ rest \in Seq(Entries) /\ hw.out # <<>>
            BY <3>2, <1>1, <1>1s
          <6>2. \A a, b, c \in Seq(Entries) : b # <<>> =>
                   /\ (a \o b) \o c = a \o (<<Head(b)>> \o (Tail(b) \o c))
                   /\ (a \o Tail(b)) \o c = a \o (Tail(b) \o c)
                   /\ Head(b) \in Entries /\ Tail(b) \o c \in Seq(Entries)
            BY Regrouped
          <6> QED BY <6>1, <6>2, Zenon
        <5>2. e = Head(hw.out) /\ out = Tail(hw.out)
          BY DEF e, out
        <5> QED BY <5>1, <5>2, <3>3, <4>1
      <4> HIDE DEF r
      <4>6. /\ p \in 1..Len(Stream) /\ Stream[p] = e /\ Len(Stream') = Len(Stream) - 1
            /\ \A k \in 1..Len(Stream') : Stream'[k] = IF k < p THEN Stream[k] ELSE Stream[k + 1]
        <5>1. IsWithout(hw.seen \o r, hw.seen \o (<<e>> \o r), p, e)
          BY <4>2, <1>1s, Dropped
        <5>2. IsWithout(Stream', Stream, p, e)
          BY <4>2, <5>1
        <5> HIDE DEF p
        <5> QED BY <5>2 DEF IsWithout
      <4>7. SaysSoFar(d.msgs, Stream', d.m, d.pos)
        <5>1. SaysSoFar(d.msgs, Stream, d.m, d.pos) /\ Stream[p].op \in {"NOP", "REC"}
          BY <3>1, <3>9, <4>6 DEF Said
        <5> HIDE DEF p
        <5> QED BY <5>1, <3>5, <3>7, <4>6, SaysWithout
      <4>8. ASSUME Ended PROVE Stream' # <<>> /\ Stream'[Len(Stream')].op = "STOP"
        <5>1. Stream[Len(Stream)].op = "STOP" /\ Len(hw.seen) \in Nat
          BY <3>1, <4>8, <1>1s, LenProperties DEF Said
        <5>2. r # <<>>
          <6>1. SUFFICES ASSUME r = <<>> PROVE FALSE
            OBVIOUS
          <6>2. Stream' = hw.seen
            BY <6>1, <4>2, <1>1s, ConcatEmptySeq
          <6>3. Len(Stream) = p
            BY <6>2, <4>6, <5>1
          <6> QED BY <6>3, <5>1, <4>6, <3>9
        <5>3. Stream'[Len(Stream')] = Stream[Len(Stream)]
          <6>1. (hw.seen \o r)[Len(hw.seen \o r)]
                  = (hw.seen \o (<<e>> \o r))[Len(hw.seen \o (<<e>> \o r))]
            BY <5>2, <4>2, <1>1s, DroppedLast
          <6> QED BY <6>1, <4>2
        <5>4. Stream' # <<>>
          BY <5>2, <4>2, <1>1s, ConcatEqualIffEmpty
        <5> QED BY <5>1, <5>3, <5>4
      <4> QED BY <4>7, <4>8, <3>6, <1>1 DEF Said
    <3> QED BY <3>8, <3>9, <1>2, EntryTypes
  <2> QED BY <1>1, <1>5, <1>6, <1>8, <2>1, <2>2, <2>3, <2>4, <2>5, <2>6 DEF I2cInv, I2cGoing
<1> QED BY <1>7, <1>8

-----------------------------------------------------------------------------
(* The entries that are told to the controller.                            *)
LEMMA Division ==
  ASSUME NEW p \in Nat, NEW b \in Nat, b > 0
  PROVE  /\ p \div b \in Nat /\ (p + b) \div b = p \div b + 1
         /\ p \div b <= (p + 1) \div b
<1> DEFINE k == p \div b
           l == (p + b) \div b
           m == (p + 1) \div b
           r == p % b
           s == (p + b) % b
           t == (p + 1) % b
<1>1. /\ k \in Nat /\ r \in Nat /\ r < b /\ p = b * k + r
  OBVIOUS
<1>2. /\ l \in Nat /\ s \in Nat /\ s < b /\ p + b = b * l + s
  OBVIOUS
<1>3. /\ m \in Nat /\ t \in Nat /\ t < b /\ p + 1 = b * m + t
  OBVIOUS
<1> HIDE DEF k, l, m, r, s, t
<1>4. \A x \in Nat, y \in Nat : x < y => b * x + b <= b * y
  <2> TAKE x \in Nat, y \in Nat
  <2> HAVE x < y
  <2>1. y = (x + 1) + (y - x - 1) /\ y - x - 1 \in Nat
    OBVIOUS
  <2>2. b * y = b * (x + 1) + b * (y - x - 1)
    BY <2>1
  <2>3. b * (y - x - 1) >= 0 /\ b * (x + 1) = b * x + b
    BY <2>1
  <2> QED BY <2>2, <2>3
<1>5. l = k + 1
  <2>1. b * (k + 1) = b * k + b /\ k + 1 \in Nat
    BY <1>1
  <2>2. ~(l < k + 1)
    BY <2>1, <1>1, <1>2, <1>4
  <2>3. ~(k + 1 < l)
    BY <2>1, <1>1, <1>2, <1>4
  <2> QED BY <2>1, <2>2, <2>3, <1>1, <1>2
<1>6. k <= m
  <2>1. ~(m < k)
    BY <1>1, <1>3, <1>4
  <2> QED BY <2>1, <1>1, <1>3
<1> QED BY <1>1, <1>5, <1>6 DEF k, l, m

Joins == FollowedUp(d.msgs, d.m) /\ ~Message(d.m + 1).rd

(* At most two messages are written in one go.                             *)
LEMMA JoinedIs ==
  ASSUME I2cTypeOK, Place, d.m <= N, ~This.rd
  PROVE  /\ Joined(d.m) = IF Joins THEN {d.m, d.m + 1} ELSE {d.m}
         /\ Joins => d.m + 1 = N
<1>1. d.m \in 1..N /\ N \in Nat /\ d.m \in Nat /\ d.msgs \in Transfers /\ N = Len(d.msgs)
  BY ThisMessage, I2cFields DEF Place, N
<1>2. ~Message(d.m).rd
  BY DEF This
<1>3. Joins => d.m + 1 = N
  <2>1. SUFFICES ASSUME Joins, d.m + 1 # N PROVE FALSE
    OBVIOUS
  <2>2. d.m < N /\ d.msgs[d.m + 1].addr = d.msgs[d.m].addr /\ ~d.msgs[d.m + 1].rd
    BY <2>1, <1>1 DEF Joins, FollowedUp, Message
  <2>3. d.m \in 1..(Len(d.msgs) - 2)
    BY <2>1, <2>2, <1>1
  <2>4. ~d.msgs[d.m].rd
    BY <1>2 DEF Message
  <2> QED BY <1>1, <2>2, <2>3, <2>4, I2cAssumption
<1>4. ASSUME NEW k \in Joined(d.m)
      PROVE  k = d.m \/ (k = d.m + 1 /\ Joins)
  <2>1. k \in d.m..N /\ \A j \in d.m..k : Message(j).addr = Message(d.m).addr /\ ~Message(j).rd
    BY <1>1 DEF Joined
  <2>2. CASE k # d.m
    <3>1. d.m + 1 \in d.m..k /\ d.m < N
      BY <2>1, <2>2, <1>1
    <3>2. Joins
      BY <3>1, <2>1, <1>1 DEF Joins, FollowedUp, Message
    <3> QED BY <3>1, <3>2, <1>1, <1>3, <2>1
  <2> QED BY <2>2
<1>5. d.m \in Joined(d.m)
  <2>1. \A j \in d.m..d.m : j = d.m
    BY <1>1
  <2>2. d.m \in d.m..Len(d.msgs)
    BY <1>1
  <2> QED BY <2>1, <2>2, <1>2 DEF Joined
<1>6. Joins => d.m + 1 \in Joined(d.m)
  <2>1. SUFFICES ASSUME Joins PROVE d.m + 1 \in Joined(d.m)
    OBVIOUS
  <2>2. \A j \in d.m..(d.m + 1) : j = d.m \/ j = d.m + 1
    BY <1>1
  <2>3. d.m + 1 \in d.m..Len(d.msgs)
    BY <2>1, <1>1 DEF Joins, FollowedUp
  <2>4. Message(d.m + 1).addr = Message(d.m).addr /\ ~Message(d.m + 1).rd
    BY <2>1 DEF Joins, FollowedUp, Message
  <2> QED BY <2>2, <2>3, <2>4, <1>2 DEF Joined
<1>7. CASE Joins
  <2>1. Joined(d.m) \subseteq {d.m, d.m + 1} /\ {d.m, d.m + 1} \subseteq Joined(d.m)
    BY <1>4, <1>5, <1>6, <1>7
  <2> QED BY <2>1, <1>3, <1>7
<1>8. CASE ~Joins
  <2>1. Joined(d.m) \subseteq {d.m} /\ {d.m} \subseteq Joined(d.m)
    BY <1>4, <1>5, <1>8
  <2> QED BY <2>1, <1>8
<1> QED BY <1>7, <1>8

(* get_i2c_qup_write_len counts the bytes and the START between them.      *)
LEMMA WriteLenIs ==
  ASSUME I2cTypeOK, Place, d.m <= N, ~This.rd, d.pos = 0
  PROVE  WriteLen(d.m) = Payload /\ Payload \in Nat
<1> DEFINE J == Joined(d.m)
           Is(h) == h = [k \in J |-> Message(k).len + IF k + 1 \in J THEN 1 + h[k + 1] ELSE 0]
           g == [k \in J |-> IF k = d.m THEN Payload ELSE Message(k).len]
<1>1. d.m \in 1..N /\ d.m \in Nat /\ N \in Nat
  BY ThisMessage, I2cFields DEF Place
<1>2. J = (IF Joins THEN {d.m, d.m + 1} ELSE {d.m})
  BY JoinedIs
<1>3. /\ Message(d.m).len \in Nat /\ This = Message(d.m)
      /\ Joins => Message(d.m + 1).len \in Nat
  BY <1>1, ThisMessage DEF This, Joins
<1>4. Payload = Message(d.m).len + IF Joins THEN 1 + Message(d.m + 1).len ELSE 0
  BY <1>3 DEF Payload, Joins
<1>5. d.m \in J /\ d.m + 1 # d.m /\ (d.m + 1) + 1 # d.m /\ (d.m + 1) + 1 # d.m + 1
  BY <1>1, <1>2
<1> HIDE DEF J
<1>6. \A k \in J : g[k] = Message(k).len + IF k + 1 \in J THEN 1 + g[k + 1] ELSE 0
  <2> TAKE k \in J
  <2>1. CASE k = d.m
    BY <2>1, <1>2, <1>4, <1>5, <1>3
  <2>2. CASE k # d.m
    <3>1. k = d.m + 1 /\ Joins /\ k + 1 \notin J
      BY <2>2, <1>2, <1>5
    <3> QED BY <3>1, <2>2, <1>3
  <2> QED BY <2>1, <2>2
<1>7. Is(g)
  <2>1. g = [k \in J |-> g[k]]
    OBVIOUS
  <2> HIDE DEF g
  <2> QED BY <1>6, <2>1
<1>8. WriteLen(d.m) = (CHOOSE h : Is(h))[d.m]
  BY DEF WriteLen, J
<1>9. PICK h : Is(h) /\ WriteLen(d.m) = h[d.m]
  <2> DEFINE c == CHOOSE h : Is(h)
  <2>1. Is(c)
    <3> HIDE DEF Is
    <3> QED BY <1>7
  <2> HIDE DEF c, Is
  <2> QED BY <1>8, <2>1 DEF c
<1>10. \A k \in J : h[k] = Message(k).len + IF k + 1 \in J THEN 1 + h[k + 1] ELSE 0
  BY <1>9
<1> HIDE DEF Is
<1>11. CASE Joins
  <2>1. h[d.m + 1] = Message(d.m + 1).len
    <3>1. d.m + 1 \in J /\ (d.m + 1) + 1 \notin J
      BY <1>11, <1>2, <1>5
    <3> QED BY <3>1, <1>10, <1>3, <1>11
  <2>2. h[d.m] = Message(d.m).len + (1 + h[d.m + 1])
    BY <1>11, <1>2, <1>5, <1>10
  <2> QED BY <2>1, <2>2, <1>3, <1>4, <1>9, <1>11
<1>12. CASE ~Joins
  <2>1. h[d.m] = Message(d.m).len + 0
    BY <1>12, <1>2, <1>5, <1>10
  <2> QED BY <2>1, <1>3, <1>4, <1>9, <1>12
<1> QED BY <1>11, <1>12

(* What the controller is told is not less than what will be written.      *)
LEMMA TotalLenIsEnough ==
  ASSUME I2cTypeOK, Place, d.m <= N, ~This.rd, d.pos = 0
  PROVE  TotalLen(d.m) \in Nat /\ TotalLen(d.m) >= Budget
<1> DEFINE len   == WriteLen(d.m)
           total == len + 1 + len \div (out_blk_sz - 1)
           next  == d.m + Cardinality(Joined(d.m))
           read  == next <= Len(d.msgs) /\ Message(next).addr = Message(d.m).addr
<1>1. len = Payload /\ Payload \in Nat
  BY WriteLenIs
<1>2. total = Need(Payload) /\ total \in Nat
  BY <1>1, NeedIsANumber DEF Need
<1>3. d.m \in Nat /\ N = Len(d.msgs) /\ N \in Nat /\ This = Message(d.m)
  BY ThisMessage, I2cFields DEF N, This
<1>4. FollowedUp(d.msgs, d.m) /\ Message(d.m + 1).rd => read
  <2>1. SUFFICES ASSUME FollowedUp(d.msgs, d.m), Message(d.m + 1).rd PROVE read
    OBVIOUS
  <2>2. Joined(d.m) = {d.m}
    BY <2>1, JoinedIs DEF Joins
  <2>3. next = d.m + 1
    BY <2>2, FS_Singleton
  <2> QED BY <2>1, <2>3, <1>3 DEF FollowedUp, Message
<1>5. TotalLen(d.m) = IF ~read THEN total
                      ELSE total + (IF total % out_blk_sz = out_blk_sz - 1 THEN 3 ELSE 2)
  BY DEF TotalLen
<1> HIDE DEF total, read
<1> QED BY <1>2, <1>4, <1>5 DEF Budget

(* The driver begins idle.                                                 *)
LEMMA I2cStarts ==
  ASSUME I2cInit
  PROVE  I2cInv
<1>1. d \in DriverTypes
  <2>1. <<>> \in MessageSeqs /\ <<>> \in Buffers /\ None \in Entries
    BY EmptySeq DEF MessageSeqs, Buffers, None, Entries
  <2> QED BY <2>1 DEF I2cInit, DriverTypes
<1>2. hw \in QupTypes
  <2>1. <<>> \in Seq(Entries) /\ <<>> \in Seq(BytePairs)
    BY EmptySeq
  <2> QED BY <2>1 DEF I2cInit, QupTypes
<1>3. d.pc = "idle" /\ d.ret = 0 /\ d.pos = 0
  BY DEF I2cInit
<1> QED BY <1>1, <1>2, <1>3 DEF I2cInv, I2cTypeOK, I2cDone

(* The next message: what it needs was told to the controller.             *)
LEMMA NextMessageKeeps ==
  ASSUME I2cInv, NextMessage
  PROVE  I2cInv'
<1> DEFINE left   == This.len - d.pos
           blocks == ~This.rd /\ ByBlocks(d.m)
           cnt    == IF This.rd THEN OneOf(left, MaxReadChunk) ELSE left
           wr_sz  == IF blocks THEN out_blk_sz ELSE out_fifo_sz
           room   == IF blocks THEN TotalLen(d.m) ELSE -1
<1>1. /\ I2cTypeOK /\ d \in DriverTypes /\ hw \in QupTypes /\ d.pc = "next" /\ d.rem > 0
      /\ I2cGoing /\ Place
  BY DEF I2cInv, I2cTypeOK, NextMessage, I2cGoing
<1>2. /\ N \in Nat /\ d.m \in Nat /\ d.m <= N /\ d.m \in 1..N /\ d.rem = N - d.m + 1
      /\ d.pos \in Nat
  <2>1. N \in Nat /\ d.m \in 1..(N + 1) /\ d.rem = N - d.m + 1 /\ d.rem > 0
    BY <1>1, ThisMessage DEF Place
  <2>2. d.m <= N /\ d.m \in Nat /\ d.m \in 1..N
    BY <2>1
  <2> QED BY <1>1, <2>1, <2>2, I2cFields
<1>3. /\ This.len \in Nat /\ d.pos < This.len /\ (~This.rd => d.pos = 0)
      /\ This = Message(d.m) /\ hw.out = <<>> /\ hw.in = <<>> /\ hw.ask = <<>>
      /\ This.rd \in BOOLEAN
  BY <1>1, <1>2, ThisMessage DEF Place, Between, This
<1>4. left \in Nat /\ left > 0
  BY <1>2, <1>3
<1>5. cnt \in Nat /\ cnt > 0 /\ cnt <= left
  BY <1>4, I2cAssumption DEF OneOf
<1>6. wr_sz \in Nat /\ wr_sz \in {out_blk_sz, out_fifo_sz} /\ blocks \in BOOLEAN
  BY I2cAssumption, <1>3
<1>7. room \in Nat \cup {-1} /\ (room # -1 => blocks /\ room >= Budget)
  BY <1>1, <1>2, <1>3, TotalLenIsEnough
<1>8. /\ d' = [d EXCEPT !.msg = d.m, !.err = 0, !.pc = "pause", !.cnt = cnt, !.wr_sz = wr_sz,
                        !.filled = blocks]
      /\ hw' = [hw EXCEPT !.state = "run", !.room = room]
  BY DEF NextMessage
<1> HIDE DEF cnt, wr_sz, room, blocks
<1>9. I2cTypeOK'
  <2>1. d' \in DriverTypes
    <3>1. 0 \in Int /\ d.m \in Nat /\ cnt \in Nat /\ wr_sz \in Nat /\ blocks \in BOOLEAN
      BY <1>2, <1>5, <1>6
    <3> QED BY <1>1, <1>8, <3>1 DEF DriverTypes
  <2>2. hw' \in QupTypes
    BY <1>1, <1>7, <1>8 DEF QupTypes
  <2> QED BY <2>1, <2>2 DEF I2cTypeOK
<1>10. /\ d'.msgs = d.msgs /\ d'.m = d.m /\ d'.rem = d.rem /\ d'.pos = d.pos /\ d'.ret = d.ret
       /\ d'.buf = d.buf /\ d'.msg = d.m /\ d'.pc = "pause" /\ d'.cnt = cnt
       /\ d'.wr_sz = wr_sz /\ d'.filled = blocks
       /\ hw'.room = room /\ hw'.out = hw.out /\ hw'.in = hw.in /\ hw'.ask = hw.ask
       /\ hw'.seen = hw.seen /\ hw'.failed = hw.failed /\ hw'.error = hw.error
  BY <1>1, <1>8 DEF DriverTypes, QupTypes
<1>11. N' = N /\ This' = This /\ InMessage'
  BY <1>10 DEF N, This, Message, InMessage
<1>12. Place'
  BY <1>1, <1>2, <1>10, <1>11 DEF Place, Between, InMessage
<1>13. InTheMessage'
  <2>1. ~This.rd => cnt = left
    BY DEF cnt
  <2>2. d.pos <= This.len /\ cnt <= This.len - d.pos
    BY <1>2, <1>3, <1>5
  <2> QED BY <1>5, <1>6, <1>10, <1>11, <2>1, <2>2 DEF InTheMessage
<1>14. BuffersAre'
  BY <1>1, <1>10, <1>11 DEF I2cGoing, BuffersAre, HasRead, Message
<1>15. Coming'
  <2>1. ~Reading'
    BY <1>10, <1>11 DEF Reading, blocks
  <2>2. NothingComing'
    BY <1>3, <1>10, EmptySeq DEF NothingComing
  <2> QED BY <2>1, <2>2 DEF Coming
<1>16. Enough'
  <2>1. Room' = room
    <3>1. Len(hw'.out) = 0 /\ hw'.room = room
      BY <1>3, <1>10, EmptySeq
    <3>2. room \in Int
      BY <1>7
    <3> QED BY ONLY <3>1, <3>2 DEF Room
  <2>2. Budget' = Budget
    BY <1>10, <1>11 DEF Budget, Payload, Message
  <2>3. Wanted' = IF ~This.rd THEN Budget ELSE 0
    BY <1>3, <1>10, <1>11, <2>2 DEF Wanted
  <2>4. ASSUME room # -1 PROVE /\ room >= 0 /\ room >= Wanted' /\ wr_sz = out_blk_sz /\ ~This.rd
    BY <2>3, <2>4, <1>7 DEF blocks, wr_sz
  <2> QED BY <2>1, <2>4, <1>10, <1>11 DEF Enough
<1>17. ~hw'.failed => Said'
  <2>1. ~hw.failed => Said
    BY <1>1 DEF I2cGoing
  <2>2. Stream' = Stream /\ Ended' = Ended
    BY <1>1, <1>10, <1>11 DEF Stream, Ended, Message
  <2> QED BY <2>1, <2>2, <1>10 DEF Said
<1> QED BY <1>9, <1>10, <1>12, <1>13, <1>14, <1>15, <1>16, <1>17 DEF I2cInv, I2cGoing

-----------------------------------------------------------------------------
(* What is put into the FIFO.                                              *)
(* An entry that is no byte may follow.                                    *)
LEMMA SaysAlso ==
  ASSUME NEW g \in Seq(I2cMessages), NEW S \in Seq(Entries), NEW e \in Entries, ~IsByte(e),
         NEW m \in Nat, NEW pos \in Nat, SaysSoFar(g, S, m, pos)
  PROVE  SaysSoFar(g, Append(S, e), m, pos) /\ Append(S, e) \in Seq(Entries)
<1> DEFINE T == Append(S, e)
<1>1. /\ T \in Seq(Entries) /\ Len(T) = Len(S) + 1 /\ Len(S) \in Nat
      /\ \A k \in 1..Len(S) : T[k] = S[k]
      /\ T[Len(S) + 1] = e
  BY AppendProperties, LenProperties
<1> HIDE DEF T
<1>2. \A k \in 1..Len(T) : k > Len(S) => ~IsByte(T[k])
  <2> TAKE k \in 1..Len(T)
  <2> HAVE k > Len(S)
  <2>1. k = Len(S) + 1
    BY <1>1
  <2> QED BY <2>1, <1>1
<1>3. Len(T) >= Len(S)
  BY <1>1
<1>4. SaysSoFar(g, T, m, pos)
  BY <1>1, <1>2, <1>3, SaysStill
<1> QED BY <1>1, <1>4 DEF T

(* A START or a NOP, then bytes.                                           *)
LEMMA SaysBytes ==
  ASSUME NEW g \in Seq(I2cMessages), NEW S \in Seq(Entries), NEW e \in Entries, ~IsByte(e),
         NEW m \in 1..Len(g), NEW pos \in Nat, NEW k \in Nat,
         SaysSoFar(g, S, m, pos), ~g[m].rd, pos + k <= g[m].len,
         pos = 0 => e = Entry("START", <<g[m].addr, FALSE>>),
         NEW B \in Seq(Entries), Len(B) = k,
         \A j \in 1..k : IsByte(B[j]) /\ B[j].arg = <<m, pos + j>>
  PROVE  SaysSoFar(g, Append(S, e) \o B, m, pos + k) /\ Append(S, e) \o B \in Seq(Entries)
<1> DEFINE S1 == Append(S, e)
           T  == S1 \o B
<1>0. m \in Nat
  BY LenProperties
<1>1. /\ S1 \in Seq(Entries) /\ Len(S1) = Len(S) + 1 /\ Len(S) \in Nat
      /\ S1[Len(S) + 1] = e /\ S1 # <<>> /\ Len(S1) \in Nat
  BY SMTT(40), AppendProperties, LenProperties
<1>2. SaysSoFar(g, S1, m, pos)
  BY <1>0, SaysAlso
<1> HIDE DEF S1
<1>3. /\ T \in Seq(Entries) /\ Len(T) = Len(S1) + Len(B)
      /\ \A i \in 1..(Len(S1) + Len(B)) : T[i] = IF i <= Len(S1) THEN S1[i] ELSE B[i - Len(S1)]
  <2>1. \A x, y \in Seq(Entries) :
          /\ x \o y \in Seq(Entries) /\ Len(x \o y) = Len(x) + Len(y)
          /\ \A i \in 1..(Len(x) + Len(y)) :
               (x \o y)[i] = IF i <= Len(x) THEN x[i] ELSE y[i - Len(x)]
    BY ConcatProperties
  <2> QED BY <1>1, <2>1, Zenon
<1> HIDE DEF T
<1>4. \A i \in 1..Len(S1) : T[i] = S1[i]
  <2> TAKE i \in 1..Len(S1)
  <2>1. i \in 1..(Len(S1) + Len(B)) /\ i <= Len(S1)
    BY <1>1
  <2> QED BY <2>1, <1>3
<1>5. \A j \in 1..k : IsByte(T[Len(S1) + j]) /\ T[Len(S1) + j].arg = <<m, pos + j>>
  <2> TAKE j \in 1..k
  <2>1. Len(S1) + j \in 1..(Len(S1) + Len(B)) /\ ~(Len(S1) + j <= Len(S1))
        /\ (Len(S1) + j) - Len(S1) = j
    BY <1>1
  <2>2. T[Len(S1) + j] = B[j]
    BY <2>1, <1>3
  <2> QED BY <2>2
<1>6. Len(T) = Len(S1) + k
  BY <1>3
<1>7. pos = 0 => S1 # <<>> /\ S1[Len(S1)] = Entry("START", <<g[m].addr, FALSE>>)
  BY <1>1
<1>8. SaysSoFar(g, T, m, pos + k)
  BY <1>1, <1>2, <1>3, <1>4, <1>5, <1>6, <1>7, SaysMore
<1> QED BY <1>3, <1>8 DEF T, S1

IsConcat(s, a, b) ==
  /\ Len(s) = Len(a) + Len(b)
  /\ \A k \in 1..(Len(a) + Len(b)) : s[k] = IF k <= Len(a) THEN a[k] ELSE b[k - Len(a)]
(* What a concatenation is, as one fact that is not taken apart.           *)
LEMMA ConcatIs ==
  ASSUME NEW S, NEW a \in Seq(S), NEW b \in Seq(S)
  PROVE  a \o b \in Seq(S) /\ IsConcat(a \o b, a, b)
  BY ConcatProperties DEF IsConcat

(* The entry that was carried over.                                        *)
LEMMA PendingIs ==
  ASSUME I2cTypeOK
  PROVE  /\ Pending \in Seq(Entries) /\ Len(Pending) = HeldBack /\ HeldBack \in Nat
         /\ d.carry.op # "REC" => \A k \in 1..Len(Pending) : Pending[k].op # "REC"
<1>1. d.carry \in Entries
  BY I2cFields
<1>2. <<d.carry>> \in Seq(Entries) /\ <<>> \in Seq(Entries)
  BY <1>1, EmptySeq
<1> QED BY <1>2 DEF Pending, HeldBack

(* Two parts without a read command, put together.                         *)
LEMMA NoCommand ==
  ASSUME NEW a \in Seq(Entries), NEW b \in Seq(Entries),
         \A k \in 1..Len(a) : a[k].op # "REC", \A k \in 1..Len(b) : b[k].op # "REC"
  PROVE  \A k \in 1..Len(a \o b) : (a \o b)[k].op # "REC"
<1>1. /\ Len(a \o b) = Len(a) + Len(b) /\ Len(a) \in Nat /\ Len(b) \in Nat
      /\ \A k \in 1..(Len(a) + Len(b)) : (a \o b)[k] = IF k <= Len(a) THEN a[k] ELSE b[k - Len(a)]
  BY ConcatProperties, LenProperties
<1> DEFINE s == a \o b
<1> HIDE DEF s
<1>2. ASSUME NEW k \in 1..(Len(a) + Len(b))
      PROVE  s[k].op # "REC"
  <2>1. CASE k <= Len(a)
    <3>1. k \in 1..Len(a)
      BY <1>1, <2>1
    <3> QED BY <3>1, <2>1, <1>1 DEF s
  <2>2. CASE ~(k <= Len(a))
    <3>1. k - Len(a) \in 1..Len(b)
      BY <1>1, <2>2
    <3> QED BY <3>1, <2>2, <1>1 DEF s
  <2> QED BY <2>1, <2>2
<1> QED BY <1>1, <1>2 DEF s

(* Two entries more are one and one more.                                  *)
LEMMA TwoMore ==
  ASSUME NEW S, NEW a \in Seq(S), NEW x \in S, NEW y \in S
  PROVE  a \o <<x, y>> = Append(Append(a, x), y)
<1> DEFINE two == <<x, y>>
           T   == Append(a, x)
<1>1. /\ two \in Seq(S) /\ Len(two) = 2 /\ two[1] = x /\ two[2] = y
  OBVIOUS
<1> HIDE DEF two
<1>2. /\ T \in Seq(S) /\ Len(T) = Len(a) + 1 /\ Len(a) \in Nat
      /\ \A k \in 1..Len(a) : T[k] = a[k]
      /\ T[Len(a) + 1] = x
  BY AppendProperties, LenProperties
<1> HIDE DEF T
<1> DEFINE R == Append(T, y)
           L == a \o two
<1>3. /\ R \in Seq(S) /\ Len(R) = Len(T) + 1
      /\ \A k \in 1..Len(T) : R[k] = T[k]
      /\ R[Len(T) + 1] = y
  BY <1>2, AppendProperties
<1>4. L \in Seq(S) /\ IsConcat(L, a, two)
  BY <1>1, ConcatIs
<1> HIDE DEF R, L
<1>5. Len(L) = Len(a) + 2 /\ Len(R) = Len(a) + 2
  BY <1>1, <1>2, <1>3, <1>4 DEF IsConcat
<1>6. ASSUME NEW k \in 1..(Len(a) + 2) PROVE L[k] = R[k]
  <2>0. L[k] = IF k <= Len(a) THEN a[k] ELSE two[k - Len(a)]
    BY <1>1, <1>4 DEF IsConcat
  <2>1. CASE k <= Len(a)
    <3>1. k \in 1..Len(a) /\ k \in 1..Len(T)
      BY <2>1, <1>2
    <3> QED BY <2>0, <2>1, <3>1, <1>2, <1>3
  <2>2. CASE k = Len(a) + 1
    <3>1. k \in 1..Len(T) /\ k - Len(a) = 1 /\ ~(k <= Len(a))
      BY <2>2, <1>2
    <3>2. R[k] = T[k]
      BY <3>1, <1>3
    <3> QED BY <2>0, <2>2, <3>1, <3>2, <1>1, <1>2
  <2>3. CASE k = Len(a) + 2
    <3>1. k = Len(T) + 1 /\ k - Len(a) = 2 /\ ~(k <= Len(a))
      BY <2>3, <1>2
    <3> QED BY <2>0, <3>1, <1>1, <1>3
  <2> QED BY <1>2, <2>1, <2>2, <2>3
<1>7. L = R
  BY <1>3, <1>4, <1>5, <1>6, SeqEqual
<1> QED BY <1>7 DEF L, R, T, two

(* Concatenation is associative.                                           *)
LEMMA Grouped ==
  ASSUME NEW S, NEW a \in Seq(S), NEW b \in Seq(S), NEW w \in Seq(S)
  PROVE  a \o (b \o w) = (a \o b) \o w
<1>1. (a \o b) \o w = a \o (b \o w)
  BY SMTT(40), ConcatAssociative
<1> QED BY <1>1

(* A read command goes behind what was carried over, and nothing is to     *)
(* come before it but its own bytes.                                       *)
LEMMA FillReads ==
  ASSUME I2cInv, Fill, This.rd
  PROVE  I2cInv'
<1> DEFINE start == Entry("START", <<This.addr, TRUE>>)
           read  == Entry("REC", <<d.m, d.pos, d.cnt>>)
           two   == <<start, read>>
           words == Pending \o two
<1>1. /\ I2cTypeOK /\ d \in DriverTypes /\ hw \in QupTypes /\ d.pc = "fill"
      /\ I2cGoing /\ Place /\ InTheMessage /\ InMessage /\ FillsUp
  BY DEF I2cInv, I2cTypeOK, Fill, I2cGoing, InMessage, InTheMessage
<1>2. /\ d.m \in 1..N /\ N \in Nat /\ d.msg = d.m /\ d.pos \in Nat /\ d.cnt \in Nat /\ d.m \in Nat
      /\ This.addr \in Devices /\ d.cnt > 0 /\ d.idx \in Nat
  BY <1>1, InAMessage, I2cFields DEF InTheMessage
<1>3. /\ d' = [d EXCEPT !.idx = d.idx + 4, !.carry = None, !.pos = d.pos, !.cnt = d.cnt,
                        !.pc = "run", !.filled = TRUE]
      /\ hw' = [hw EXCEPT !.out = hw.out \o words]
  BY <1>1 DEF Fill, IssueRead, DriverTypes, QupTypes
<1>4. start \in Entries /\ read \in Entries
  <2>1. <<This.addr, TRUE>> \in Devices \X BOOLEAN /\ <<d.m, d.pos, d.cnt>> \in Nat \X Nat \X Nat
    BY <1>2
  <2> QED BY <2>1 DEF Entries, Entry
<1>5. two \in Seq(Entries) /\ Len(two) = 2 /\ two[1] = start /\ two[2] = read
  <2> HIDE DEF start, read
  <2> QED BY <1>4
<1>5a. start.op = "START" /\ read.op = "REC" /\ read.arg = <<d.m, d.pos, d.cnt>>
  BY DEF Entry
<1> HIDE DEF start, read, two
<1>6. /\ Pending \in Seq(Entries) /\ Len(Pending) = HeldBack /\ HeldBack \in Nat
      /\ \A k \in 1..Len(Pending) : Pending[k].op # "REC"
  BY <1>1, PendingIs DEF FillsUp
<1>7. /\ words \in Seq(Entries) /\ Len(words) = HeldBack + 2
      /\ words[HeldBack + 1] = start /\ words[HeldBack + 2] = read
      /\ \A k \in 1..HeldBack : words[k] = Pending[k]
  <2>1. /\ words \in Seq(Entries) /\ Len(words) = Len(Pending) + Len(two)
        /\ \A k \in 1..(Len(Pending) + Len(two)) :
             words[k] = IF k <= Len(Pending) THEN Pending[k] ELSE two[k - Len(Pending)]
    <3>1. Pending \in Seq(Entries) /\ two \in Seq(Entries)
      BY <1>5, <1>6
    <3>2. words \in Seq(Entries) /\ IsConcat(words, Pending, two)
      BY <3>1, ConcatIs
    <3> HIDE DEF words
    <3> QED BY <3>2 DEF IsConcat
  <2> HIDE DEF words
  <2>2. Len(words) = HeldBack + 2 /\ \A k \in 1..(HeldBack + 2) :
             words[k] = IF k <= HeldBack THEN Pending[k] ELSE two[k - HeldBack]
    BY <2>1, <1>5, <1>6
  <2>3. words[HeldBack + 1] = two[1]
    <3>1. HeldBack + 1 \in 1..(HeldBack + 2) /\ ~(HeldBack + 1 <= HeldBack)
          /\ (HeldBack + 1) - HeldBack = 1
      BY <1>6
    <3> QED BY <3>1, <2>2
  <2>4. words[HeldBack + 2] = two[2]
    <3>1. HeldBack + 2 \in 1..(HeldBack + 2) /\ ~(HeldBack + 2 <= HeldBack)
          /\ (HeldBack + 2) - HeldBack = 2
      BY <1>6
    <3> QED BY <3>1, <2>2
  <2>5. \A k \in 1..HeldBack : words[k] = Pending[k]
    BY <2>2, <1>6
  <2> QED BY <2>1, <2>2, <2>3, <2>4, <2>5, <1>5
<1> DEFINE out == hw.out \o words
<1>8. hw.out \in Seq(Entries) /\ hw.seen \in Seq(Entries) /\ Len(hw.out) \in Nat /\ hw.room \in Int
      /\ d.msgs \in Seq(I2cMessages)
  BY <1>1, I2cFields, LenProperties
<1>9. /\ out \in Seq(Entries) /\ Len(out) = Len(hw.out) + (HeldBack + 2)
      /\ \A k \in 1..(Len(hw.out) + (HeldBack + 2)) :
           out[k] = IF k <= Len(hw.out) THEN hw.out[k] ELSE words[k - Len(hw.out)]
  <2> HIDE DEF words
  <2>1. /\ out \in Seq(Entries) /\ Len(out) = Len(hw.out) + Len(words)
        /\ \A k \in 1..(Len(hw.out) + Len(words)) :
             out[k] = IF k <= Len(hw.out) THEN hw.out[k] ELSE words[k - Len(hw.out)]
    <3>1. hw.out \in Seq(Entries) /\ words \in Seq(Entries)
      BY <1>7, <1>8
    <3>2. out \in Seq(Entries) /\ IsConcat(out, hw.out, words)
      BY <3>1, ConcatIs
    <3> HIDE DEF out
    <3> QED BY <3>2 DEF IsConcat
  <2> HIDE DEF out
  <2> QED BY <2>1, <1>7
<1>10. NothingComing
  BY <1>1 DEF I2cGoing, Coming, Reading
<1>11. \A k \in 1..Len(out) : out[k].op = "REC" => k = Len(out) /\ out[k] = read
  <2> HIDE DEF out, words
  <2> SUFFICES ASSUME NEW k \in 1..(Len(hw.out) + (HeldBack + 2)), out[k].op = "REC"
               PROVE  k = Len(hw.out) + (HeldBack + 2) /\ out[k] = read
    BY <1>9
  <2>1. CASE k <= Len(hw.out)
    <3>1. k \in 1..Len(hw.out) /\ out[k] = hw.out[k]
      BY <2>1, <1>8, <1>9
    <3> QED BY <3>1, <1>10 DEF NothingComing
  <2>2. CASE ~(k <= Len(hw.out))
    <3> DEFINE j == k - Len(hw.out)
    <3>1. j \in 1..(HeldBack + 2) /\ out[k] = words[j] /\ k = Len(hw.out) + j
      <4>1. Len(hw.out) \in Nat /\ HeldBack \in Nat
        BY <1>6, <1>8
      <4>2. out[k] = words[k - Len(hw.out)]
        BY <2>2, <1>9
      <4>3. k - Len(hw.out) \in 1..(HeldBack + 2) /\ k = Len(hw.out) + (k - Len(hw.out))
        <5>1. \A x, y \in Nat : \A z \in 1..(x + (y + 2)) :
                ~(z <= x) => z - x \in 1..(y + 2) /\ z = x + (z - x)
          OBVIOUS
        <5> QED BY <5>1, <2>2, <4>1
      <4> QED BY <4>2, <4>3
    <3> HIDE DEF j
    <3>2. j \in 1..HeldBack \/ j = HeldBack + 1 \/ j = HeldBack + 2
      BY <3>1, <1>6
    <3>3. j \notin 1..HeldBack
      BY <3>1, <1>6, <1>7
    <3>4. j # HeldBack + 1
      BY <3>1, <1>7, <1>5a
    <3> QED BY <3>1, <3>2, <3>3, <3>4, <1>7
  <2> QED BY <2>1, <2>2
<1> HIDE DEF out
<1>12. /\ d'.msgs = d.msgs /\ d'.m = d.m /\ d'.rem = d.rem /\ d'.pos = d.pos /\ d'.ret = d.ret
       /\ d'.buf = d.buf /\ d'.msg = d.msg /\ d'.pc = "run" /\ d'.cnt = d.cnt
       /\ d'.wr_sz = d.wr_sz /\ d'.filled = TRUE
       /\ hw'.room = hw.room /\ hw'.out = out /\ hw'.in = hw.in /\ hw'.ask = hw.ask
       /\ hw'.seen = hw.seen /\ hw'.failed = hw.failed /\ hw'.error = hw.error
  BY <1>1, <1>3 DEF DriverTypes, QupTypes, out
<1>13. I2cTypeOK'
  <2>1. None \in Entries /\ d.idx + 4 \in Nat
    BY <1>2 DEF None, Entries
  <2>2. d' \in DriverTypes
    BY <1>1, <1>2, <1>3, <2>1 DEF DriverTypes
  <2>3. hw' \in QupTypes
    <3>1. hw' = [hw EXCEPT !.out = out] /\ out \in Seq(Entries)
      BY <1>3, <1>9 DEF out
    <3> QED BY <1>1, <3>1 DEF QupTypes
  <2> QED BY <2>2, <2>3 DEF I2cTypeOK
<1> HIDE DEF words
<1>14. N' = N /\ This' = This /\ InMessage'
  BY <1>12 DEF N, This, Message, InMessage
<1>15. Place' /\ InTheMessage'
  BY <1>1, <1>2, <1>12, <1>14 DEF Place, InTheMessage, Between, InMessage
<1>16. BuffersAre'
  BY <1>1, <1>12, <1>14 DEF I2cGoing, BuffersAre, HasRead, Message
<1>17. Coming'
  <2>1. Reading'
    BY <1>12, <1>14 DEF Reading
  <2>2. hw'.in = <<>> /\ hw'.ask = <<>> /\ Len(hw'.in) = 0 /\ Len(hw'.ask) = 0
    BY <1>10, <1>12, EmptySeq DEF NothingComing
  <2>3. Commanded'
    BY <1>11, <1>12, <2>2, <1>5a DEF Commanded
  <2>4. Arriving' /\ Len(hw'.in) + Len(hw'.ask) <= d'.cnt
    <3>1. 1..Len(hw'.in) = {} /\ 1..Len(hw'.ask) = {}
      BY <2>2
    <3>2. 0 + 0 <= d'.cnt
      BY <1>2, <1>12
    <3> QED BY <2>2, <3>1, <3>2 DEF Arriving
  <2> QED BY <2>1, <2>3, <2>4 DEF Coming, BytesComing
<1>18. Enough'
  <2>1. Wanted' = 0
    BY <1>12, <1>14 DEF Wanted
  <2>2. ASSUME hw.room # -1 PROVE hw.room - Len(out) >= 0
    <3>1. d.idx > 0 /\ Room >= Wanted
      BY <1>1, <1>2, <2>2 DEF I2cGoing, Enough
    <3>2. Wanted = HeldBack + 2
      BY <1>1, <3>1 DEF Wanted
    <3>3. hw.room - Len(hw.out) >= HeldBack + 2
      BY <3>1, <3>2 DEF Room
    <3>4. Len(out) = Len(hw.out) + (HeldBack + 2)
      BY <1>9
    <3>5. Len(hw.out) \in Nat /\ HeldBack \in Nat /\ hw.room \in Int
      BY <1>6, <1>8
    <3>6. \A r \in Int : \A x, y \in Nat : \A z \in Int :
            r - x >= y + 2 /\ z = x + (y + 2) => r - z >= 0
      OBVIOUS
    <3>7. Len(out) \in Int
      BY <3>4, <3>5
    <3> QED BY <3>3, <3>4, <3>5, <3>6, <3>7
  <2> QED BY <2>1, <2>2, <1>12, <1>14 DEF Enough, Room
<1>19. ASSUME ~hw.failed PROVE Said'
  <2> DEFINE T == Append(Append(Stream, start), read)
  <2>1. Said /\ Stream = (hw.seen \o hw.out) \o Pending
    BY <1>1, <1>19 DEF I2cGoing, Stream, Said
  <2>2. Stream \in Seq(Entries)
    <3>1. hw.seen \o hw.out \in Seq(Entries)
      BY <1>8, ConcatProperties
    <3> QED BY <2>1, <3>1, <1>6, ConcatProperties
  <2>3. Stream' = T
    <3>1. Stream' = (hw.seen \o (hw.out \o words)) \o <<>>
      BY <1>12 DEF Stream, out
    <3>2. hw.out \o words \in Seq(Entries) /\ hw.out \o words = out
      BY <1>9 DEF out
    <3>3. hw.seen \o (hw.out \o words) \in Seq(Entries)
      BY <3>2, <1>8, ConcatProperties
    <3>4. Stream' = hw.seen \o (hw.out \o words)
      BY <3>1, <3>3, ConcatEmptySeq
    <3>5. hw.seen \o (hw.out \o words) = (hw.seen \o hw.out) \o words
      <4> HIDE DEF words
      <4>1. hw.seen \in Seq(Entries) /\ hw.out \in Seq(Entries) /\ words \in Seq(Entries)
        BY <1>7, <1>8
      <4>2. \A a, b, c \in Seq(Entries) : a \o (b \o c) = (a \o b) \o c
        BY SMTT(40), Grouped
      <4> QED BY <4>1, <4>2, Zenon
    <3>6. (hw.seen \o hw.out) \o words = ((hw.seen \o hw.out) \o Pending) \o two
      <4>1. /\ hw.seen \in Seq(Entries) /\ hw.out \in Seq(Entries)
            /\ Pending \in Seq(Entries) /\ two \in Seq(Entries)
        BY <1>5, <1>6, <1>8
      <4>2. hw.seen \o hw.out \in Seq(Entries)
        BY <4>1, ConcatProperties
      <4>3. \A a, b, c \in Seq(Entries) : a \o (b \o c) = (a \o b) \o c
        BY Grouped
      <4>4. (hw.seen \o hw.out) \o (Pending \o two) = ((hw.seen \o hw.out) \o Pending) \o two
        BY <4>1, <4>2, <4>3, Zenon
      <4> QED BY <4>4, Zenon DEF words
    <3>7. Stream \o two = T
      BY <2>2, <1>4, TwoMore DEF two
    <3> QED BY <3>4, <3>5, <3>6, <3>7, <2>1
  <2>4. SaysSoFar(d.msgs, T, d.m, d.pos)
    <3>1. SaysSoFar(d.msgs, Stream, d.m, d.pos) /\ ~IsByte(start) /\ ~IsByte(read)
      BY <2>1, <1>5a DEF Said, IsByte
    <3>2. SaysSoFar(d.msgs, Append(Stream, start), d.m, d.pos) /\ Append(Stream, start) \in Seq(Entries)
      BY <3>1, <2>2, <1>2, <1>4, <1>8, SaysAlso
    <3> QED BY <3>1, <3>2, <1>2, <1>4, <1>8, SaysAlso
  <2>5. ~Ended'
    BY <1>2, <1>12, <1>14 DEF Ended, This, Message
  <2> QED BY <2>3, <2>4, <2>5, <1>12 DEF Said
<1> QED BY <1>12, <1>13, <1>15, <1>16, <1>17, <1>18, <1>19 DEF I2cInv, I2cGoing

-----------------------------------------------------------------------------
(* The parts of what qup_issue_write makes.                                *)
WrN     == Max({OneOf(d.cnt + 1, d.wr_sz - d.idx \div 2), 2})
WrFirst == IF d.pos = 0 THEN Entry("START", <<This.addr, FALSE>>) ELSE None
WrData  == [k \in 1..(WrN - 2) |-> Entry("DATA", <<d.m, d.pos + k>>)]
WrPos   == d.pos + WrN - 2
WrIdx   == d.idx + 2 * (WrN - 1)
WrEnds  == WrPos = This.len - 1
WrLast  == Entry(IF WrEnds /\ d.rem = 1 THEN "STOP" ELSE "DATA", <<d.m, WrPos + 1>>)
WrStop  == [WrLast EXCEPT !.op = "STOP"]
WrFront == Pending \o <<WrFirst>> \o WrData
Wrote(i, words, carry) ==
  [idx |-> i, pos |-> WrPos + 1, cnt |-> This.len - WrPos - 1,
   words |-> words, carry |-> carry]

IsWhole == /\ Odd(WrIdx) \/ d.rem = 1
           /\ IssueWrite = Wrote(WrIdx + 2, WrFront \o <<WrLast>>, None)
ReadFollows == /\ d.rem > 1 /\ Message(d.m + 1).addr = This.addr
               /\ Message(d.m + 1).rd /\ WrIdx = d.wr_sz * 2 - 4
OtherFollows == /\ d.rem > 1 /\ WrEnds /\ WrIdx < d.wr_sz * 2
                /\ Message(d.m + 1).addr # This.addr
IsPadded == /\ ~Odd(WrIdx) /\ ReadFollows
            /\ IssueWrite = Wrote(WrIdx + 4, WrFront \o <<WrLast, None>>, None)
IsStopped == /\ ~Odd(WrIdx) /\ OtherFollows
             /\ IssueWrite = Wrote(WrIdx + 4, WrFront \o <<WrStop>>, None)
IsCarried == /\ ~Odd(WrIdx) /\ d.rem # 1 /\ ~ReadFollows /\ ~OtherFollows
             /\ IssueWrite = Wrote(WrIdx + 2, WrFront, WrLast)

(* qup_issue_write ends in one of four ways.                               *)
LEMMA WriteIs ==
  IsWhole \/ IsPadded \/ IsStopped \/ IsCarried
<1>1. IssueWrite =
        CASE Odd(WrIdx) \/ d.rem = 1 -> Wrote(WrIdx + 2, WrFront \o <<WrLast>>, None)
          [] ~Odd(WrIdx) /\ d.rem > 1 /\ Message(d.m + 1).addr = This.addr
               /\ Message(d.m + 1).rd /\ WrIdx = d.wr_sz * 2 - 4
               -> Wrote(WrIdx + 4, WrFront \o <<WrLast, None>>, None)
          [] ~Odd(WrIdx) /\ d.rem > 1 /\ WrEnds /\ WrIdx < d.wr_sz * 2
               /\ Message(d.m + 1).addr # This.addr
               -> Wrote(WrIdx + 4, WrFront \o <<WrStop>>, None)
          [] OTHER -> Wrote(WrIdx + 2, WrFront, WrLast)
  BY Zenon DEF IssueWrite, Wrote, WrN, WrFirst, WrData, WrPos, WrIdx, WrEnds, WrLast, WrStop, WrFront
<1> QED BY <1>1 DEF IsWhole, IsPadded, IsStopped, IsCarried, ReadFollows, OtherFollows

(* How much of the message goes into this block: all of it or what fills   *)
(* the block; behind another message it is the group's last, and falls     *)
(* short only of the block.                                                *)
LEMMA WriteNumbers ==
  ASSUME I2cInv, Fill, ~This.rd
  PROVE  /\ WrN \in Nat /\ WrN >= 2 /\ WrN <= d.cnt + 1
         /\ d.wr_sz \in Nat /\ d.wr_sz >= 4 /\ d.idx \in Nat /\ d.wr_sz % 2 = 0
         /\ d.pos \in Nat /\ d.cnt \in Nat /\ This.len \in Nat /\ This.len > 0
         /\ d.pos + d.cnt <= This.len
         /\ WrPos \in Nat /\ WrPos + 1 = d.pos + (WrN - 1) /\ WrPos + 1 <= This.len
         /\ WrIdx \in Nat
         /\ d.idx = 0 => /\ WrN = d.cnt + 1 \/ WrN = d.wr_sz
                         /\ WrN <= d.wr_sz
                         /\ WrIdx = 2 * (WrN - 1)
                         /\ d.pos + d.cnt = This.len
         /\ d.idx > 0 => /\ d.m = N /\ d.pos = 0 /\ d.rem = 1
                         /\ WrPos + 1 = WrN - 1
                         /\ d.idx \div 2 \in Nat /\ 2 <= d.idx \div 2 /\ d.idx \div 2 < d.wr_sz
                         /\ WrPos + 1 < This.len /\ d.wr_sz = out_blk_sz =>
                              \/ WrN + d.idx \div 2 = d.wr_sz
                              \/ WrN = 2 /\ d.idx \div 2 = d.wr_sz - 1 
<1>1. /\ I2cTypeOK /\ d.pc = "fill" /\ I2cGoing /\ Place /\ InTheMessage /\ InMessage /\ FillsUp
  BY DEF I2cInv, Fill, I2cGoing, InMessage, InTheMessage
<1>2. /\ d.m \in 1..N /\ N \in Nat /\ d.pos \in Nat /\ d.cnt \in Nat /\ d.m \in Nat
      /\ d.cnt > 0 /\ d.idx \in Nat /\ d.wr_sz \in Nat /\ d.rem = N - d.m + 1
      /\ This.len \in Nat /\ This.len > 0 /\ d.pos <= This.len /\ d.cnt <= This.len - d.pos
  BY <1>1, InAMessage, I2cFields DEF InTheMessage, Place
<1>3. d.wr_sz >= 4 /\ d.wr_sz % 2 = 0
  BY <1>1, I2cAssumption DEF InTheMessage
<1> DEFINE h == d.idx \div 2
<1>4. /\ h \in Nat /\ h < d.wr_sz /\ (d.idx = 0 => h = 0) /\ (d.idx >= 4 => h >= 2)
  BY <1>1, <1>2 DEF FillsUp
<1> HIDE DEF h
<1> DEFINE o == OneOf(d.cnt + 1, d.wr_sz - h)
<1>5. /\ o = IF d.cnt + 1 < d.wr_sz - h THEN d.cnt + 1 ELSE d.wr_sz - h
      /\ o \in Nat
  BY <1>2, <1>4 DEF OneOf
<1> HIDE DEF o
<1>6. WrN = IF o >= 2 THEN o ELSE 2
  <2>1. \A x \in Nat : Max({x, 2}) = IF x >= 2 THEN x ELSE 2
    BY DEF Max
  <2> QED BY <2>1, <1>5 DEF WrN, o, h
<1>7. WrN \in Nat /\ WrN >= 2 /\ WrN <= d.cnt + 1
  BY <1>2, <1>5, <1>6, <1>4
<1>8. WrPos \in Nat /\ WrPos + 1 = d.pos + (WrN - 1) /\ WrPos + 1 <= This.len /\ WrIdx \in Nat
  BY <1>2, <1>7 DEF WrPos, WrIdx
<1>9. ASSUME d.idx = 0
      PROVE  /\ WrN = d.cnt + 1 \/ WrN = d.wr_sz
             /\ WrN <= d.wr_sz
             /\ WrIdx = 2 * (WrN - 1)
             /\ d.pos + d.cnt = This.len
  <2>1. d.cnt = This.len - d.pos
    BY <1>1, <1>9 DEF FillsUp
  <2>2. WrN = d.cnt + 1 \/ WrN = d.wr_sz
    BY <1>2, <1>3, <1>4, <1>5, <1>6, <1>9
  <2>3. WrN <= d.wr_sz
    BY <1>2, <1>3, <1>4, <1>5, <1>6, <1>9
  <2>4. WrIdx = 2 * (WrN - 1)
    BY <1>7, <1>9 DEF WrIdx
  <2> QED BY <2>1, <2>2, <2>3, <2>4, <1>2
<1>10. ASSUME d.idx > 0
       PROVE /\ d.m = N /\ d.pos = 0 /\ d.rem = 1
             /\ WrPos + 1 = WrN - 1
             /\ 2 <= h
             /\ WrPos + 1 < This.len /\ d.wr_sz = out_blk_sz =>
                  \/ WrN + h = d.wr_sz
                  \/ WrN = 2 /\ h = d.wr_sz - 1
  <2>1. d.m = N /\ d.pos = 0 /\ d.idx >= 4 /\ d.cnt = OneOf(This.len, MaxReadChunk)
    BY <1>1, <1>10 DEF FillsUp
  <2>2. d.rem = 1 /\ WrPos + 1 = WrN - 1 /\ h >= 2
    BY <2>1, <1>2, <1>4, <1>8, <1>7
  <2>3. /\ d.cnt = IF This.len < MaxReadChunk THEN This.len ELSE MaxReadChunk
        /\ MaxReadChunk \in Nat
    BY <2>1, I2cAssumption DEF OneOf
  <2>4. d.cnt < This.len /\ d.wr_sz = out_blk_sz => d.cnt >= d.wr_sz
    <3>1. MaxReadChunk >= out_blk_sz
      BY I2cAssumption
    <3> QED BY <3>1, <2>3, <1>2
  <2> QED BY <2>1, <2>2, <2>3, <2>4, <1>2, <1>4, <1>5, <1>6, <1>7, <1>8
<1> QED BY <1>2, <1>3, <1>4, <1>7, <1>8, <1>9, <1>10 DEF h

Assoc(S) == \A x, y, z \in Seq(S) : x \o (y \o z) = (x \o y) \o z
LEMMA Associative == ASSUME NEW S PROVE Assoc(S)
  BY Grouped DEF Assoc
(* Appending to the second part is appending to the whole.                 *)
LEMMA AppendBehind ==
  ASSUME NEW S, NEW a \in Seq(S), NEW b \in Seq(S), NEW x \in S
  PROVE  a \o Append(b, x) = Append(a \o b, x)
<1>1. \A s \in Seq(S) : Append(s, x) = s \o <<x>>
  BY AppendIsConcat
<1>2. <<x>> \in Seq(S) /\ a \o b \in Seq(S)
  BY ConcatProperties
<1>3. \A u, y, z \in Seq(S) : u \o (y \o z) = (u \o y) \o z
  BY SMTT(40), Grouped
<1>4. a \o (b \o <<x>>) = (a \o b) \o <<x>>
  BY <1>2, <1>3, Zenon
<1> QED BY <1>1, <1>2, <1>4, Zenon

(* The entries a write is made of.                                         *)
LEMMA WriteTypes ==
  ASSUME I2cInv, Fill, ~This.rd
  PROVE  /\ WrFirst \in Entries /\ ~IsByte(WrFirst) /\ WrFirst.op # "REC"
         /\ d.pos = 0 => WrFirst = Entry("START", <<This.addr, FALSE>>)
         /\ WrData \in Seq(Entries) /\ Len(WrData) = WrN - 2
         /\ \A k \in 1..(WrN - 2) : WrData[k] = Entry("DATA", <<d.m, d.pos + k>>)
         /\ WrLast \in Entries /\ IsByte(WrLast) /\ WrLast.arg = <<d.m, WrPos + 1>>
         /\ WrStop \in Entries /\ IsByte(WrStop) /\ WrStop.arg = <<d.m, WrPos + 1>>
         /\ WrStop.op = "STOP"
         /\ WrEnds /\ d.rem = 1 => WrLast.op = "STOP"
         /\ None \in Entries /\ None.op = "NOP"
<1>1. /\ d.m \in Nat /\ d.pos \in Nat /\ This.addr \in Devices /\ WrN \in Nat /\ WrN >= 2
      /\ WrPos \in Nat
  <2>1. I2cTypeOK /\ Place /\ InTheMessage /\ InMessage
    BY DEF I2cInv, Fill, I2cGoing, InMessage
  <2>2. d.m \in Nat /\ This.addr \in Devices
    BY <2>1, InAMessage, I2cFields
  <2>3. d.pos \in Nat /\ WrN \in Nat /\ WrN >= 2 /\ WrPos \in Nat
    BY WriteNumbers
  <2> QED BY <2>2, <2>3
<1>2. None \in Entries /\ None.op = "NOP"
  BY DEF None, Entries
<1>3. /\ WrFirst \in Entries /\ ~IsByte(WrFirst) /\ WrFirst.op # "REC"
      /\ d.pos = 0 => WrFirst = Entry("START", <<This.addr, FALSE>>)
  <2>1. Entry("START", <<This.addr, FALSE>>) \in Entries
    BY <1>1 DEF Entry, Entries
  <2> QED BY <1>2, <2>1 DEF WrFirst, IsByte, Entry
<1>4. \A k \in Nat : Entry("DATA", <<d.m, k>>) \in Entries /\ Entry("STOP", <<d.m, k>>) \in Entries
  BY <1>1 DEF Entry, Entries
<1>5. /\ WrData \in Seq(Entries) /\ Len(WrData) = WrN - 2
      /\ \A k \in 1..(WrN - 2) : WrData[k] = Entry("DATA", <<d.m, d.pos + k>>)
  <2>1. \A k \in 1..(WrN - 2) : d.pos + k \in Nat
    BY <1>1
  <2>2. WrN - 2 \in Nat
    BY <1>1
  <2>3. \A k \in 1..(WrN - 2) : Entry("DATA", <<d.m, d.pos + k>>) \in Entries
    BY <2>1, <1>4
  <2> DEFINE n == WrN - 2
             E(k) == Entry("DATA", <<d.m, d.pos + k>>)
  <2>4. n \in Nat /\ (\A k \in 1..n : E(k) \in Entries) /\ WrData = [k \in 1..n |-> E(k)]
    BY <2>2, <2>3 DEF WrData
  <2> HIDE DEF n, E
  <2>5. WrData \in Seq(Entries) /\ Len(WrData) = n /\ \A k \in 1..n : WrData[k] = E(k)
    BY <2>4
  <2> QED BY <2>5 DEF n, E
<1>6. WrPos + 1 \in Nat
  BY <1>1
<1>7. WrStop = Entry("STOP", <<d.m, WrPos + 1>>)
  BY DEF WrStop, WrLast, Entry
<1> QED BY <1>2, <1>3, <1>4, <1>5, <1>6, <1>7 DEF WrLast, IsByte, Entry

WrBase(last) == (hw.seen \o hw.out) \o (WrFront \o <<last>>)

(* All of them but the last.                                               *)
LEMMA FrontIs ==
  ASSUME I2cInv, Fill, ~This.rd
  PROVE  /\ WrFront \in Seq(Entries) /\ Len(WrFront) = HeldBack + (WrN - 1)
         /\ \A k \in 1..Len(WrFront) : WrFront[k].op # "REC"
<1>1. I2cTypeOK /\ d.carry.op # "REC"
  BY DEF I2cInv, Fill, I2cGoing, InTheMessage, InMessage, FillsUp
<1>2. /\ Pending \in Seq(Entries) /\ Len(Pending) = HeldBack /\ HeldBack \in Nat
      /\ \A k \in 1..Len(Pending) : Pending[k].op # "REC"
  BY <1>1, PendingIs
<1>3. /\ <<WrFirst>> \in Seq(Entries) /\ Len(<<WrFirst>>) = 1
      /\ \A k \in 1..Len(<<WrFirst>>) : <<WrFirst>>[k].op # "REC"
  BY WriteTypes
<1>4. /\ WrData \in Seq(Entries) /\ Len(WrData) = WrN - 2 /\ WrN \in Nat /\ WrN >= 2
      /\ \A k \in 1..Len(WrData) : WrData[k].op # "REC"
  <2>1. /\ WrData \in Seq(Entries) /\ Len(WrData) = WrN - 2
        /\ \A k \in 1..(WrN - 2) : WrData[k] = Entry("DATA", <<d.m, d.pos + k>>)
    BY WriteTypes
  <2>2. WrN \in Nat /\ WrN >= 2
    BY WriteNumbers
  <2>3. \A k \in 1..(WrN - 2) : WrData[k].op = "DATA"
    <3> TAKE k \in 1..(WrN - 2)
    <3>1. WrData[k] = Entry("DATA", <<d.m, d.pos + k>>)
      BY <2>1, Zenon
    <3> QED BY <3>1 DEF Entry
  <2>4. \A k \in 1..Len(WrData) : WrData[k].op = "DATA"
    BY <2>1, <2>3, Zenon
  <2>5. \A k \in 1..Len(WrData) : WrData[k].op # "REC"
    BY <2>4
  <2> QED BY <2>1, <2>2, <2>5
<1> DEFINE one == <<WrFirst>>
           pf  == Pending \o one
<1>5. pf \in Seq(Entries) /\ Len(pf) = HeldBack + 1
  BY <1>2, <1>3, ConcatProperties
<1> HIDE DEF one
<1>6. \A k \in 1..Len(pf) : pf[k].op # "REC"
  BY <1>2, <1>3, NoCommand DEF one
<1> HIDE DEF pf
<1>7. pf \o WrData \in Seq(Entries) /\ Len(pf \o WrData) = Len(pf) + Len(WrData)
  BY <1>4, <1>5, ConcatProperties
<1>8. \A k \in 1..Len(pf \o WrData) : (pf \o WrData)[k].op # "REC"
  BY <1>4, <1>5, <1>6, NoCommand
<1>9. WrFront = pf \o WrData
  BY DEF WrFront, pf, one
<1>10. Len(WrFront) = HeldBack + (WrN - 1)
  <2>1. Len(WrFront) = (HeldBack + 1) + (WrN - 2)
    BY <1>4, <1>5, <1>7, <1>9
  <2> QED BY <2>1, <1>2, <1>4
<1> QED BY <1>7, <1>8, <1>9, <1>10

(* With its last entry, whatever its operation, the block says what the    *)
(* message says so far.                                                    *)
LEMMA BaseSays ==
  ASSUME I2cInv, Fill, ~This.rd,
         NEW last \in Entries, IsByte(last), last.arg = <<d.m, WrPos + 1>>
  PROVE  /\ WrBase(last) \in Seq(Entries) /\ WrBase(last) # <<>>
         /\ WrBase(last)[Len(WrBase(last))] = last
         /\ ~hw.failed => SaysSoFar(d.msgs, WrBase(last), d.m, WrPos + 1)
<1> DEFINE so  == hw.seen \o hw.out
           one == <<WrFirst>>
           lst == <<last>>
           B   == WrData \o lst
<1>1. /\ I2cTypeOK /\ d.pc = "fill" /\ I2cGoing /\ Place /\ InTheMessage /\ InMessage
  BY DEF I2cInv, Fill, I2cGoing, InMessage, InTheMessage
<1>2. so \in Seq(Entries) /\ d.msgs \in Seq(I2cMessages)
  BY <1>1, I2cFields, ConcatProperties
<1>3. Pending \in Seq(Entries)
  BY <1>1, PendingIs
<1>4. one \in Seq(Entries)
  BY WriteTypes
<1>5. WrData \in Seq(Entries) /\ lst \in Seq(Entries) /\ Len(lst) = 1 /\ lst[1] = last
  BY WriteTypes
<1>6. WrBase(last) = ((so \o Pending) \o one) \o B
  <2> HIDE DEF so, one, lst
  <2>1. so \o (((Pending \o one) \o WrData) \o lst) = ((so \o Pending) \o one) \o (WrData \o lst)
    <3> DEFINE pf == Pending \o one
               tl == WrData \o lst
               ap == so \o Pending
    <3>0. Assoc(Entries) /\ so \in Seq(Entries)
      BY <1>2, Associative
    <3>1. pf \in Seq(Entries)
      BY <1>3, <1>4, ConcatProperties
    <3>1a. tl \in Seq(Entries) /\ WrData \in Seq(Entries) /\ lst \in Seq(Entries)
      BY <1>5, ConcatProperties
    <3>2. so \o pf = ap \o one
      BY <3>0, <1>3, <1>4, Zenon DEF Assoc
    <3> HIDE DEF pf, ap
    <3>3. pf \o tl = (pf \o WrData) \o lst
      BY <3>1, <3>1a, <3>0, ZenonT(60) DEF Assoc
    <3> HIDE DEF tl
    <3>4. so \o (pf \o tl) = (so \o pf) \o tl
      BY <3>1, <3>1a, <3>0, Zenon DEF Assoc
    <3> QED BY <3>2, <3>3, <3>4, Zenon DEF pf, tl, ap
  <2> QED BY <2>1, Zenon DEF WrBase, WrFront, so, one, lst
<1>7. Stream = so \o Pending
  BY <1>1, Zenon DEF Stream
<1>8. Stream \in Seq(Entries)
  <2> HIDE DEF so
  <2> QED BY <1>2, <1>3, <1>7, ConcatProperties
<1>9. Append(Stream, WrFirst) = (so \o Pending) \o one
  <2>1. Append(Stream, WrFirst) = Stream \o <<WrFirst>>
    BY <1>8, WriteTypes, AppendIsConcat
  <2> QED BY <2>1, <1>7, Zenon
<1>10. WrBase(last) = Append(Stream, WrFirst) \o B
  BY <1>6, <1>9, Zenon
<1>11. WrN \in Nat /\ WrN >= 2 /\ WrPos + 1 = d.pos + (WrN - 1) /\ WrPos + 1 <= This.len
  BY WriteNumbers
<1>12. /\ Len(WrData) = WrN - 2
       /\ \A k \in 1..(WrN - 2) : WrData[k] = Entry("DATA", <<d.m, d.pos + k>>)
  BY WriteTypes
<1> HIDE DEF so, one, lst
<1>13. B \in Seq(Entries) /\ IsConcat(B, WrData, lst)
  BY <1>5, ConcatIs
<1> HIDE DEF B
<1>14. /\ Len(B) = WrN - 1
       /\ \A k \in 1..(WrN - 1) : B[k] = IF k <= WrN - 2 THEN WrData[k] ELSE lst[k - (WrN - 2)]
  <2>1. (WrN - 2) + 1 = WrN - 1
    BY <1>11
  <2> QED BY <2>1, <1>5, <1>12, <1>13 DEF IsConcat
<1>15. B[WrN - 1] = last
  <2>1. WrN - 1 \in 1..(WrN - 1) /\ ~(WrN - 1 <= WrN - 2) /\ (WrN - 1) - (WrN - 2) = 1
    BY <1>11
  <2> QED BY <2>1, <1>5, <1>14
<1>16. d.m \in 1..Len(d.msgs) /\ d.pos \in Nat /\ d.pos + (WrN - 1) <= d.msgs[d.m].len
       /\ WrN - 1 \in Nat /\ WrN - 1 >= 1
  <2>1. d.m \in 1..N /\ d.pos \in Nat
    BY <1>1, InAMessage
  <2> QED BY <2>1, <1>11 DEF N, This, Message
<1>17. \A j \in 1..(WrN - 1) : IsByte(B[j]) /\ B[j].arg = <<d.m, d.pos + j>>
  <2> TAKE j \in 1..(WrN - 1)
  <2>1. CASE j <= WrN - 2
    <3>1. j \in 1..(WrN - 2)
      BY <2>1, <1>11
    <3>2. B[j] = Entry("DATA", <<d.m, d.pos + j>>)
      BY <2>1, <3>1, <1>12, <1>14
    <3> QED BY <3>2 DEF Entry, IsByte
  <2>2. CASE ~(j <= WrN - 2)
    <3>1. j = WrN - 1
      BY <2>2, <1>11
    <3> QED BY <3>1, <1>11, <1>15
  <2> QED BY <2>1, <2>2
<1> DEFINE S1 == Append(Stream, WrFirst)
<1>18. S1 \in Seq(Entries) /\ Len(S1) \in Nat
  <2>1. WrFirst \in Entries
    BY WriteTypes
  <2> QED BY <2>1, <1>8, AppendProperties, LenProperties
<1> HIDE DEF S1
<1> DEFINE T == S1 \o B
<1>19. T \in Seq(Entries) /\ IsConcat(T, S1, B)
  BY <1>13, <1>18, ConcatIs
<1> HIDE DEF T
<1>20. Len(T) = Len(S1) + (WrN - 1) /\ T # <<>> /\ T[Len(T)] = last
  <2>1. Len(T) = Len(S1) + (WrN - 1)
    BY <1>14, <1>19 DEF IsConcat
  <2>2. Len(T) \in 1..(Len(S1) + (WrN - 1)) /\ ~(Len(T) <= Len(S1)) /\ Len(T) - Len(S1) = WrN - 1
        /\ Len(T) # 0
    BY <2>1, <1>16, <1>18
  <2>3. T[Len(T)] = B[Len(T) - Len(S1)]
    BY <2>2, <1>14, <1>19 DEF IsConcat
  <2> QED BY <2>1, <2>2, <2>3, <1>15, <1>19, EmptySeq
<1>21. ASSUME ~hw.failed PROVE SaysSoFar(d.msgs, T, d.m, d.pos + (WrN - 1))
  <2>1. SaysSoFar(d.msgs, Stream, d.m, d.pos)
    BY <1>1, <1>21 DEF I2cGoing, Said
  <2>2. /\ WrFirst \in Entries /\ ~IsByte(WrFirst)
        /\ d.pos = 0 => WrFirst = Entry("START", <<d.msgs[d.m].addr, FALSE>>)
    BY WriteTypes DEF This, Message
  <2>3. ~d.msgs[d.m].rd
    BY DEF This, Message
  <2>4. SaysSoFar(d.msgs, Append(Stream, WrFirst) \o B, d.m, d.pos + (WrN - 1))
    BY <1>2, <1>8, <1>13, <1>14, <1>16, <1>17, <2>1, <2>2, <2>3, SaysBytes
  <2> QED BY <2>4 DEF T, S1
<1>22. WrBase(last) = T
  BY <1>10 DEF T, S1
<1> QED BY <1>11, <1>19, <1>20, <1>21, <1>22

GoesOn == /\ IssueWrite.idx < d.wr_sz * 2 /\ d.rem > 1
          /\ Message(d.m + 1).addr = This.addr

(* The fields of what qup_issue_write returns.                             *)
LEMMA WroteIs ==
  ASSUME NEW i, NEW words, NEW carry, IssueWrite = Wrote(i, words, carry)
  PROVE  /\ IssueWrite.idx = i /\ IssueWrite.words = words /\ IssueWrite.carry = carry
         /\ IssueWrite.pos = WrPos + 1 /\ IssueWrite.cnt = This.len - WrPos - 1
  BY DEF Wrote

(* Indices are twice the number of entries: half a word is odd.            *)
LEMMA Halves ==
  ASSUME NEW n \in Nat, n >= 2
  PROVE  /\ Odd(2 * (n - 1)) <=> n % 2 = 0
         /\ Odd(2 * n) <=> n % 2 = 1
         /\ 2 * (n - 1) + 2 = 2 * n /\ 2 * (n - 1) \in Nat
         /\ (2 * n) % 2 = 0 /\ (2 * n) \div 2 = n
  BY DEF Odd

(* The next message follows in the same block only behind a whole one, and *)
(* an entry left over is carried to it.                                    *)
LEMMA WriteGoesOn ==
  ASSUME I2cInv, Fill, ~This.rd, GoesOn
  PROVE  /\ d.idx = 0 /\ IssueWrite.idx = 2 * WrN /\ WrPos + 1 = This.len
         /\ WrN = d.cnt + 1 /\ WrN < d.wr_sz
         /\ \/ /\ ~Odd(IssueWrite.idx) /\ IssueWrite.words = WrFront \o <<WrLast>>
               /\ IssueWrite.carry = None
            \/ /\ Odd(IssueWrite.idx) /\ IssueWrite.words = WrFront
               /\ IssueWrite.carry = WrLast
<1>1. d.rem > 1 /\ d.rem \in Nat
  BY I2cFields DEF GoesOn, I2cInv
<1>2. /\ WrN \in Nat /\ WrN >= 2 /\ d.idx \in Nat /\ d.idx = 0
      /\ d.wr_sz \in Nat /\ d.wr_sz >= 4 /\ d.wr_sz % 2 = 0
      /\ WrN = d.cnt + 1 \/ WrN = d.wr_sz
      /\ WrN <= d.wr_sz /\ WrIdx = 2 * (WrN - 1) /\ d.pos + d.cnt = This.len
      /\ WrPos + 1 = d.pos + (WrN - 1) /\ d.cnt \in Nat /\ d.pos \in Nat
  BY <1>1, WriteNumbers
<1>3. ~IsStopped
  BY DEF GoesOn, IsStopped, OtherFollows
<1>4. ~IsPadded
  <2> SUFFICES ASSUME IsPadded PROVE FALSE
    OBVIOUS
  <2>1. IssueWrite.idx = WrIdx + 4 /\ WrIdx = d.wr_sz * 2 - 4
    BY WroteIs DEF IsPadded, ReadFollows
  <2> QED BY <2>1, <1>2 DEF GoesOn
<1>5. IssueWrite.idx = WrIdx + 2
  BY <1>3, <1>4, WriteIs, WroteIs DEF IsWhole, IsCarried
<1>6. IssueWrite.idx = 2 * WrN
  BY <1>2, <1>5
<1>7. WrN < d.wr_sz
  BY <1>2, <1>6 DEF GoesOn
<1>8. WrN = d.cnt + 1 /\ WrPos + 1 = This.len
  BY <1>2, <1>7
<1>9. CASE IsWhole
  <2>1. Odd(WrIdx)
    BY <1>1, <1>9 DEF IsWhole
  <2>2. ~Odd(2 * WrN)
    BY <2>1, <1>2, Halves
  <2> QED BY ZenonT(60), <2>2, <1>2, <1>6, <1>7, <1>8, <1>9, WroteIs DEF IsWhole
<1>10. CASE IsCarried
  <2>1. ~Odd(WrIdx)
    BY <1>10 DEF IsCarried
  <2>2. Odd(2 * WrN)
    BY <2>1, <1>2, Halves
  <2> QED BY <2>2, <1>2, <1>6, <1>7, <1>8, <1>10, WroteIs DEF IsCarried
<1> QED BY <1>3, <1>4, <1>9, <1>10, WriteIs

(* Otherwise no entry is left over.                                        *)
LEMMA WriteStops ==
  ASSUME I2cInv, Fill, ~This.rd, ~GoesOn
  PROVE  \/ /\ IssueWrite.words = WrFront \o <<WrLast>>
         \/ /\ IssueWrite.words = WrFront \o <<WrLast, None>>
            /\ d.idx = 0 /\ d.rem > 1 /\ Message(d.m + 1).addr = This.addr
            /\ Message(d.m + 1).rd /\ WrPos + 1 = This.len
         \/ /\ IssueWrite.words = WrFront \o <<WrStop>>
            /\ d.idx = 0 /\ d.rem > 1 /\ WrPos + 1 = This.len
<1>1. d.rem \in Nat
  BY I2cFields DEF I2cInv
<1>2. /\ WrN \in Nat /\ WrN >= 2 /\ d.idx \in Nat
      /\ d.wr_sz \in Nat /\ d.wr_sz >= 4 /\ d.wr_sz % 2 = 0
      /\ d.cnt \in Nat /\ d.pos \in Nat /\ WrPos \in Nat
      /\ This.len \in Nat
  BY WriteNumbers
<1>3. d.rem > 1 => d.idx = 0
  BY <1>2, WriteNumbers
<1>4. d.idx = 0 =>
        /\ WrN = d.cnt + 1 \/ WrN = d.wr_sz
        /\ WrN <= d.wr_sz /\ WrIdx = 2 * (WrN - 1) /\ d.pos + d.cnt = This.len
        /\ WrPos + 1 = d.pos + (WrN - 1)
  BY WriteNumbers
<1>5. d.rem >= 1
  BY DEF I2cInv, Fill, I2cGoing, InMessage, Place
<1>6. CASE IsWhole
  BY <1>6, WroteIs DEF IsWhole
<1>7. CASE IsPadded
  <2>1. d.rem > 1 /\ Message(d.m + 1).addr = This.addr /\ Message(d.m + 1).rd
        /\ WrIdx = d.wr_sz * 2 - 4 /\ IssueWrite.words = WrFront \o <<WrLast, None>>
    BY <1>7, WroteIs DEF IsPadded, ReadFollows
  <2>2. d.idx = 0
    BY <2>1, <1>3
  <2>3. /\ WrN = d.cnt + 1 \/ WrN = d.wr_sz
        /\ WrIdx = 2 * (WrN - 1) /\ d.pos + d.cnt = This.len /\ WrPos + 1 = d.pos + (WrN - 1)
    BY <2>2, <1>4
  <2> DEFINE n == WrN
             at == WrIdx
             to == WrPos
             len == This.len
             sz == d.wr_sz
  <2>4. to + 1 = len
    <3>1. n \in Nat /\ sz \in Nat /\ d.cnt \in Nat /\ d.pos \in Nat /\ len \in Nat
      BY <1>2
    <3>2. /\ at = sz * 2 - 4 /\ at = 2 * (n - 1)
          /\ n = d.cnt + 1 \/ n = sz
      BY <2>1, <2>3
    <3>3. /\ d.pos + d.cnt = len /\ to + 1 = d.pos + (n - 1)
      BY <2>3
    <3> HIDE DEF n, at, to, len, sz
    <3>4. n # sz
      BY <3>1, <3>2
    <3> QED BY <3>1, <3>2, <3>3, <3>4
  <2> QED BY <2>1, <2>2, <2>4
<1>8. CASE IsStopped
  <2>1. d.rem > 1 /\ WrEnds /\ IssueWrite.words = WrFront \o <<WrStop>>
    BY <1>8, WroteIs DEF IsStopped, OtherFollows
  <2>2. WrPos + 1 = This.len
    BY <2>1, <1>2 DEF WrEnds
  <2> QED BY <2>1, <2>2, <1>3
<1>9. ~IsCarried
  <2> SUFFICES ASSUME IsCarried PROVE FALSE
    OBVIOUS
  <2>1. d.rem > 1 /\ d.idx = 0 /\ IssueWrite.idx = WrIdx + 2 /\ ~Odd(WrIdx)
        /\ ~ReadFollows /\ ~OtherFollows
    BY <1>1, <1>3, <1>5, WroteIs DEF IsCarried
  <2>2. WrN % 2 = 1
    BY <2>1, <1>2, <1>4, Halves
  <2>3. WrN < d.wr_sz /\ WrN = d.cnt + 1
    BY <2>1, <2>2, <1>2, <1>4
  <2>4. IssueWrite.idx = 2 * WrN /\ WrIdx < d.wr_sz * 2 /\ IssueWrite.idx < d.wr_sz * 2
    BY <2>1, <2>3, <1>2, <1>4
  <2>5. WrEnds
    <3>1. WrPos + 1 = This.len
      BY <2>1, <2>3, <1>2, <1>4
    <3> QED BY <3>1, <1>2 DEF WrEnds
  <2> QED BY <2>1, <2>4, <2>5 DEF OtherFollows, GoesOn
<1> QED BY <1>6, <1>7, <1>8, <1>9, WriteIs

NoRead(s) == s \in Seq(Entries) /\ \A k \in 1..Len(s) : s[k].op # "REC"

(* An entry that is no read command may follow.                            *)
LEMMA OneBehind ==
  ASSUME NEW a, NoRead(a), NEW x \in Entries, x.op # "REC"
  PROVE  NoRead(a \o <<x>>) /\ Len(a \o <<x>>) = Len(a) + 1
<1> DEFINE one == <<x>>
<1>1. a \in Seq(Entries) /\ \A k \in 1..Len(a) : a[k].op # "REC"
  BY DEF NoRead
<1>2. one \in Seq(Entries) /\ Len(one) = 1 /\ \A k \in 1..Len(one) : one[k].op # "REC"
  OBVIOUS
<1> HIDE DEF one
<1>3. \A k \in 1..Len(a \o one) : (a \o one)[k].op # "REC"
  BY <1>1, <1>2, NoCommand
<1>4. a \o one \in Seq(Entries) /\ Len(a \o one) = Len(a) + 1
  BY SMTT(40), <1>1, <1>2, ConcatProperties
<1> QED BY <1>3, <1>4 DEF NoRead, one

LEMMA TwoBehind ==
  ASSUME NEW a, NoRead(a), NEW x \in Entries, x.op # "REC", NEW y \in Entries, y.op # "REC"
  PROVE  /\ NoRead(a \o <<x, y>>) /\ Len(a \o <<x, y>>) = Len(a) + 2
         /\ a \o <<x, y>> = Append(a \o <<x>>, y)
<1>0. a \in Seq(Entries) /\ Len(a) \in Nat
  BY LenProperties DEF NoRead
<1> DEFINE ax == a \o <<x>>
<1>1. NoRead(ax) /\ Len(ax) = Len(a) + 1 /\ ax = Append(a, x)
  <2>1. NoRead(ax) /\ Len(ax) = Len(a) + 1
    BY OneBehind
  <2>2. ax = Append(a, x)
    BY <1>0, AppendIsConcat
  <2> QED BY <2>1, <2>2
<1>2. a \o <<x, y>> = Append(ax, y)
  <2>1. a \o <<x, y>> = Append(Append(a, x), y)
    BY <1>0, TwoMore
  <2> HIDE DEF ax
  <2> QED BY <2>1, <1>1
<1> HIDE DEF ax
<1>3. NoRead(ax \o <<y>>) /\ Len(ax \o <<y>>) = Len(ax) + 1
  BY <1>1, OneBehind
<1>4. Append(ax, y) = ax \o <<y>>
  BY <1>1, AppendIsConcat DEF NoRead
<1> DEFINE R == ax \o <<y>>
<1>5. a \o <<x, y>> = R /\ NoRead(R) /\ Len(R) = Len(a) + 2
  <2>1. Len(R) = Len(ax) + 1
    BY <1>3
  <2> HIDE DEF R
  <2>2. Len(R) = Len(a) + 2
    BY <2>1, <1>0, <1>1
  <2> QED BY <2>2, <1>2, <1>3, <1>4, Zenon DEF R
<1> QED BY <1>5, <1>2, Zenon DEF ax

(* The FIFO holds no read command after a write.                           *)
LEMMA OutBehind ==
  ASSUME NEW words, NoRead(words), I2cTypeOK, NothingComing
  PROVE  NoRead(hw.out \o words) /\ Len(hw.out \o words) = Len(hw.out) + Len(words)
<1>1. hw.out \in Seq(Entries) /\ \A k \in 1..Len(hw.out) : hw.out[k].op # "REC"
  BY I2cFields DEF NothingComing
<1>2. words \in Seq(Entries) /\ \A k \in 1..Len(words) : words[k].op # "REC"
  BY DEF NoRead
<1>3. \A k \in 1..Len(hw.out \o words) : (hw.out \o words)[k].op # "REC"
  BY <1>1, <1>2, NoCommand
<1>4. hw.out \o words \in Seq(Entries) /\ Len(hw.out \o words) = Len(hw.out) + Len(words)
  BY <1>1, <1>2, ConcatProperties
<1> QED BY <1>3, <1>4 DEF NoRead

(* What goes out behind what was seen and what is going out.               *)
LEMMA Regroup ==
  ASSUME I2cTypeOK, NEW words \in Seq(Entries)
  PROVE  /\ hw.seen \o (hw.out \o words) = (hw.seen \o hw.out) \o words
         /\ hw.seen \o (hw.out \o words) \in Seq(Entries)
<1>1. hw.seen \in Seq(Entries) /\ hw.out \in Seq(Entries)
  BY I2cFields
<1>2. Assoc(Entries)
  BY Associative
<1>3. hw.seen \o (hw.out \o words) = (hw.seen \o hw.out) \o words
  BY <1>1, <1>2, Zenon DEF Assoc
<1>4. hw.out \o words \in Seq(Entries)
  BY <1>1, ConcatProperties
<1> DEFINE ow == hw.out \o words
<1>5. ow \in Seq(Entries)
  BY <1>4
<1> HIDE DEF ow
<1>6. hw.seen \o ow \in Seq(Entries)
  BY <1>1, <1>5, ConcatProperties
<1> QED BY <1>3, <1>6, Zenon DEF ow

(* The words of a write and how many entries they are.                     *)
LEMMA WordsAre ==
  ASSUME I2cInv, Fill, ~This.rd
  PROVE  /\ NoRead(WrFront) /\ Len(WrFront) = HeldBack + (WrN - 1)
         /\ \A x \in {WrLast, WrStop} :
              /\ NoRead(WrFront \o <<x>>) /\ Len(WrFront \o <<x>>) = HeldBack + WrN
              /\ NoRead(WrFront \o <<x, None>>) /\ Len(WrFront \o <<x, None>>) = HeldBack + WrN + 1
              /\ (hw.seen \o hw.out) \o (WrFront \o <<x, None>>) = Append(WrBase(x), None)
<1>1. NoRead(WrFront) /\ Len(WrFront) = HeldBack + (WrN - 1)
  BY FrontIs DEF NoRead
<1>2. WrN \in Nat /\ HeldBack \in Nat
  BY WriteNumbers DEF HeldBack
<1>3. ASSUME NEW x \in {WrLast, WrStop}
      PROVE  /\ NoRead(WrFront \o <<x>>) /\ Len(WrFront \o <<x>>) = HeldBack + WrN
             /\ NoRead(WrFront \o <<x, None>>) /\ Len(WrFront \o <<x, None>>) = HeldBack + WrN + 1
             /\ (hw.seen \o hw.out) \o (WrFront \o <<x, None>>) = Append(WrBase(x), None)
  <2>1. x \in Entries /\ x.op # "REC" /\ None \in Entries /\ None.op # "REC"
    BY WriteTypes DEF IsByte
  <2>2. NoRead(WrFront \o <<x>>) /\ Len(WrFront \o <<x>>) = Len(WrFront) + 1
    BY <2>1, <1>1, OneBehind
  <2>3. /\ NoRead(WrFront \o <<x, None>>) /\ Len(WrFront \o <<x, None>>) = Len(WrFront) + 2
        /\ WrFront \o <<x, None>> = Append(WrFront \o <<x>>, None)
    BY <2>1, <1>1, TwoBehind
  <2>4. (hw.seen \o hw.out) \o (WrFront \o <<x, None>>) = Append(WrBase(x), None)
    <3> DEFINE so == hw.seen \o hw.out
               fx == WrFront \o <<x>>
    <3>1. so \in Seq(Entries) 
      <4>1. I2cTypeOK
        BY DEF I2cInv
      <4> QED BY <4>1, I2cFields, ConcatProperties
    <3>2. fx \in Seq(Entries)
      BY <2>2 DEF NoRead
    <3> HIDE DEF so, fx
    <3>3. so \o Append(fx, None) = Append(so \o fx, None)
      BY <2>1, <3>1, <3>2, AppendBehind
    <3> QED BY <3>3, <2>3, Zenon DEF WrBase, so, fx
  <2>5. Len(WrFront \o <<x>>) = HeldBack + WrN /\ Len(WrFront \o <<x, None>>) = HeldBack + WrN + 1
    BY ONLY <1>1, <1>2, <2>2, <2>3
  <2> QED BY <2>2, <2>3, <2>4, <2>5
<1> QED BY <1>1, <1>3

(* A whole block of bytes needs one entry more.                            *)
LEMMA NeedMoves ==
  ASSUME NEW p \in Nat
  PROVE  /\ Need(p + (out_blk_sz - 1)) = Need(p) + out_blk_sz
         /\ Need(p + 1) >= Need(p) + 1
         /\ Need(p) \in Nat /\ Need(p + 1) \in Nat /\ out_blk_sz \in Nat /\ out_blk_sz >= 4
<1> DEFINE b == out_blk_sz - 1
           x == p \div b
           y == (p + b) \div b
           z == (p + 1) \div b
<1>0. out_blk_sz \in Nat /\ out_blk_sz >= 4
  BY I2cAssumption
<1>1. b \in Nat /\ b > 0 /\ out_blk_sz = b + 1
  BY <1>0
<1>2. Need(p) = p + 1 + x /\ Need(p + b) = p + b + 1 + y /\ Need(p + 1) = p + 1 + 1 + z
  BY DEF Need
<1>3. Need(p) \in Nat /\ Need(p + 1) \in Nat
  BY NeedIsANumber
<1> HIDE DEF b
<1>4. x \in Nat /\ y = x + 1 /\ x <= z
  BY <1>1, Division
<1>5. z \in Nat
  BY <1>1, Division
<1> HIDE DEF x, y, z
<1>6. Need(p + b) = Need(p) + (b + 1) /\ Need(p + 1) >= Need(p) + 1
  BY <1>1, <1>2, <1>4, <1>5
<1> QED BY <1>0, <1>1, <1>3, <1>6 DEF b

(* The block is written: the controller was told of as many entries as it  *)
(* holds and the rest of the message will need.                            *)
LEMMA FillWritesOut ==
  ASSUME I2cInv, Fill, ~This.rd, ~GoesOn
  PROVE  I2cInv'
<1> DEFINE words == IssueWrite.words
           carry == IssueWrite.carry
           out   == hw.out \o words
           len   == This.len
<1>1. /\ I2cTypeOK /\ d \in DriverTypes /\ hw \in QupTypes /\ d.pc = "fill"
      /\ I2cGoing /\ Place /\ InTheMessage /\ InMessage /\ FillsUp
  BY DEF I2cInv, I2cTypeOK, Fill, I2cGoing, InMessage, InTheMessage
<1>2. /\ d.m \in 1..N /\ N \in Nat /\ d.msg = d.m /\ d.pos \in Nat /\ d.cnt \in Nat /\ d.m \in Nat
      /\ This.addr \in Devices /\ d.idx \in Nat /\ d.rem = N - d.m + 1 /\ d.m >= 1 /\ d.m <= N
      /\ len \in Nat
  BY <1>1, InAMessage, I2cFields
<1>3. /\ WrN \in Nat /\ WrN >= 2 /\ WrN <= d.cnt + 1 /\ WrPos \in Nat
      /\ WrPos + 1 = d.pos + (WrN - 1) /\ WrPos + 1 <= len
  BY WriteNumbers
<1>4. IssueWrite.pos = WrPos + 1 /\ IssueWrite.cnt = len - WrPos - 1 /\ carry \in Entries
      /\ IssueWrite.idx \in Nat
  <2>1. WrLast \in Entries /\ None \in Entries
    BY WriteTypes
  <2>2. WrIdx \in Nat
    BY WriteNumbers
  <2>3. WrIdx + 2 \in Nat /\ WrIdx + 4 \in Nat
    BY <2>2
  <2> QED BY <2>1, <2>3, WriteIs, WroteIs DEF IsWhole, IsPadded, IsStopped, IsCarried
<1>5. /\ d' = [d EXCEPT !.idx = IssueWrite.idx, !.carry = carry, !.pos = WrPos + 1,
                        !.cnt = len - WrPos - 1, !.pc = "run", !.filled = TRUE]
      /\ hw' = [hw EXCEPT !.out = out]
  BY <1>1, <1>4 DEF Fill, GoesOn, DriverTypes, QupTypes
<1> DEFINE x == Len(words)
<1>6. /\ NoRead(words) /\ Len(words) = x /\ x \in Nat /\ x <= HeldBack + WrN + 1
      /\ \/ /\ words = WrFront \o <<WrLast>> /\ x = HeldBack + WrN
         \/ /\ words = WrFront \o <<WrLast, None>> /\ x = HeldBack + WrN + 1
            /\ d.idx = 0 /\ d.rem > 1 /\ Message(d.m + 1).addr = This.addr
            /\ Message(d.m + 1).rd /\ WrPos + 1 = len
         \/ /\ words = WrFront \o <<WrStop>> /\ x = HeldBack + WrN
            /\ d.idx = 0 /\ d.rem > 1 /\ WrPos + 1 = len
  <2>1. HeldBack \in Nat
    BY DEF HeldBack
  <2>2. /\ NoRead(WrFront \o <<WrLast>>) /\ Len(WrFront \o <<WrLast>>) = HeldBack + WrN
        /\ NoRead(WrFront \o <<WrStop>>) /\ Len(WrFront \o <<WrStop>>) = HeldBack + WrN
        /\ NoRead(WrFront \o <<WrLast, None>>) /\ Len(WrFront \o <<WrLast, None>>) = HeldBack + WrN + 1
    BY WordsAre
  <2>3. HeldBack + WrN \in Nat /\ HeldBack + WrN + 1 \in Nat /\ HeldBack + WrN <= HeldBack + WrN + 1
        /\ HeldBack + WrN + 1 <= HeldBack + WrN + 1
    BY <2>1, <1>3
  <2>4. \/ words = WrFront \o <<WrLast>>
        \/ /\ words = WrFront \o <<WrLast, None>>
           /\ d.idx = 0 /\ d.rem > 1 /\ Message(d.m + 1).addr = This.addr
           /\ Message(d.m + 1).rd /\ WrPos + 1 = len
        \/ /\ words = WrFront \o <<WrStop>>
           /\ d.idx = 0 /\ d.rem > 1 /\ WrPos + 1 = len
    BY WriteStops
  <2> QED BY <2>2, <2>3, <2>4, Zenon
<1> HIDE DEF words, x
<1>7. NothingComing
  BY <1>1 DEF I2cGoing, Coming, Reading
<1>8. NoRead(out) /\ Len(out) = Len(hw.out) + x
  BY <1>1, <1>6, <1>7, OutBehind DEF x
<1> HIDE DEF carry, out, len
<1>9. /\ d'.msgs = d.msgs /\ d'.m = d.m /\ d'.rem = d.rem /\ d'.pos = WrPos + 1 /\ d'.ret = d.ret
      /\ d'.buf = d.buf /\ d'.msg = d.msg /\ d'.pc = "run" /\ d'.cnt = len - WrPos - 1
      /\ d'.wr_sz = d.wr_sz /\ d'.filled = TRUE
      /\ hw'.room = hw.room /\ hw'.out = out /\ hw'.in = hw.in /\ hw'.ask = hw.ask
      /\ hw'.seen = hw.seen /\ hw'.failed = hw.failed /\ hw'.error = hw.error
  BY <1>1, <1>5 DEF DriverTypes, QupTypes
<1>10. I2cTypeOK'
  <2>1. WrPos + 1 \in Nat /\ len - WrPos - 1 \in Nat
    BY <1>2, <1>3
  <2>2. d' \in DriverTypes
    BY <1>1, <1>4, <1>5, <2>1 DEF DriverTypes
  <2>3. out \in Seq(Entries)
    BY <1>8 DEF NoRead
  <2>4. hw' \in QupTypes
    BY <1>1, <1>5, <2>3 DEF QupTypes
  <2> QED BY <2>2, <2>4 DEF I2cTypeOK
<1>11. N' = N /\ This' = This /\ InMessage' /\ Message(d.m)' = Message(d.m)
  BY <1>9 DEF N, This, Message, InMessage
<1>12. Place' /\ InTheMessage'
  <2>1. Place'
    BY <1>1, <1>2, <1>9, <1>11 DEF Place, Between, InMessage
  <2>2. d'.pos <= len /\ d'.cnt = len - d'.pos /\ d'.cnt <= len - d'.pos
    BY <1>2, <1>3, <1>9
  <2> QED BY <2>1, <2>2, <1>1, <1>9, <1>11 DEF InTheMessage, len
<1>13. BuffersAre'
  <2>1. \A i \in 1..N : Message(i).rd => d.buf[i] = Bytes(i, HasRead(i))
    BY <1>1 DEF I2cGoing, BuffersAre
  <2>2. \A i : Message(i)' = Message(i)
    BY <1>9 DEF Message
  <2>3. \A i : Message(i).rd => HasRead(i)' = HasRead(i)
    BY <1>9, <2>2 DEF HasRead, This
  <2> QED BY <1>9, <1>11, <2>1, <2>2, <2>3 DEF BuffersAre
<1>14. Coming'
  <2>1. ~Reading'
    BY <1>9, <1>11 DEF Reading
  <2>2. NothingComing'
    BY <1>7, <1>8, <1>9 DEF NothingComing, NoRead
  <2> QED BY <2>1, <2>2 DEF Coming
<1>15. Enough'
  <2> SUFFICES ASSUME hw.room # -1
               PROVE  /\ Room' >= 0 /\ Room' >= Wanted'
                      /\ d.wr_sz = out_blk_sz
    BY <1>9, <1>11 DEF Enough
  <2> DEFINE h == d.idx \div 2
             q == len - (WrPos + 1)
             more == IF Joins THEN 1 + Message(d.m + 1).len ELSE 0
             two == IF FollowedUp(d.msgs, d.m) /\ Message(d.m + 1).rd THEN 2 ELSE 0
  <2>1. Room >= 0 /\ Room >= Wanted /\ d.wr_sz = out_blk_sz
    BY <1>1 DEF I2cGoing, Enough
  <2>2. Room \in Int /\ Room' = Room - x
    <3>1. hw.room \in Int /\ Len(hw.out) \in Nat
      BY <1>1, I2cFields, LenProperties
    <3>2. \A r \in Int : \A a, b \in Nat : r - (a + b) = (r - a) - b
      OBVIOUS
    <3>3. hw.room - (Len(hw.out) + x) = (hw.room - Len(hw.out)) - x
      BY <3>1, <3>2, <1>6
    <3> QED BY <3>1, <3>3, <1>8, <1>9 DEF Room
  <2>3. more \in Nat /\ two \in Nat /\ two <= 2 /\ q \in Nat
    <3>1. Joins => Message(d.m + 1).len \in Nat
      BY <1>1, ThisMessage DEF Joins
    <3> QED BY <3>1, <1>2, <1>3
  <2>4. /\ Payload = (len - d.pos) + more /\ Budget = Need((len - d.pos) + more) + two
    BY DEF Payload, Budget, Joins, len
  <2>5. Budget' = Need(q + more) + two
    <3>1. Payload' = q + more
      BY <1>9, <1>11 DEF Payload, Joins, len, FollowedUp, Message
    <3>2. Budget' = Need(Payload') + two
      BY <1>9, <1>11 DEF Budget, FollowedUp, Message, Need
    <3> QED BY <3>1, <3>2
  <2>6. Wanted' = IF WrPos + 1 < len THEN Need(q + more) + two ELSE 0
    BY <1>9, <1>11, <2>5 DEF Wanted, len
  <2>7. HeldBack \in Nat /\ (d.idx = 0 => HeldBack = 0)
    BY DEF HeldBack, Odd
  <2>8. CASE d.idx = 0 /\ WrPos + 1 < len
    <3>1. WrN = out_blk_sz /\ x = WrN
      <4>1. /\ WrN = d.cnt + 1 \/ WrN = d.wr_sz
            /\ d.pos + d.cnt = len
        BY <2>8, WriteNumbers DEF len
      <4> QED BY SMTT(40), <4>1, <2>1, <2>7, <2>8, <1>2, <1>3, <1>6
    <3>2. Wanted = Budget
      BY <2>8, <1>1, <1>2, <1>3 DEF Wanted, len
    <3>3. (len - d.pos) + more = (q + more) + (out_blk_sz - 1)
      BY <3>1, <1>2, <1>3, <2>3
    <3>4. Need((q + more) + (out_blk_sz - 1)) = Need(q + more) + out_blk_sz
          /\ Need(q + more) \in Nat /\ out_blk_sz \in Nat
      <4>1. q + more \in Nat
        BY <2>3
      <4> HIDE DEF q, more
      <4> QED BY <4>1, NeedMoves
    <3>5. Room >= (Need(q + more) + out_blk_sz) + two
      BY <3>2, <3>3, <3>4, <2>1, <2>4
    <3> QED
      <4> DEFINE nd == Need(q + more)
      <4>1. nd \in Nat
        BY <3>4
      <4> HIDE DEF nd, two, q, more
      <4> QED BY <3>1, <3>4, <3>5, <4>1, <2>1, <2>2, <2>3, <2>6, <2>8 DEF nd
  <2>9. CASE d.idx = 0 /\ ~(WrPos + 1 < len)
    <3>1. len - d.pos = WrN - 1 /\ WrPos + 1 = len
      BY <2>9, <1>2, <1>3
    <3>2. Wanted = Budget
      BY <2>9, <3>1, <1>1, <1>2, <1>3 DEF Wanted, len
    <3>3. Need((len - d.pos) + more) \in Nat /\ Need((len - d.pos) + more) >= (WrN - 1) + 1
      <4>1. (WrN - 1) + more \in Nat /\ (WrN - 1) + more + 1 >= (WrN - 1) + 1
        BY <1>3, <2>3
      <4>2. Need((WrN - 1) + more) \in Nat /\ Need((WrN - 1) + more) >= (WrN - 1) + more + 1
        BY <4>1, NeedIsANumber
      <4> HIDE DEF more
      <4> QED BY <4>1, <4>2, <3>1, <1>3, <2>3
    <3>4. x <= WrN + two
      <4>1. CASE x = HeldBack + WrN
        BY <4>1, <2>3, <2>7, <2>9, <1>3
      <4>2. CASE x = HeldBack + WrN + 1 /\ d.rem > 1 /\ Message(d.m + 1).addr = This.addr
                 /\ Message(d.m + 1).rd
        <5>1. FollowedUp(d.msgs, d.m)
          BY <4>2, <1>2 DEF FollowedUp, Message, This, N
        <5> QED BY <5>1, <4>2, <2>7, <2>9, <1>3
      <4> QED BY <4>1, <4>2, <1>6
    <3> DEFINE nd == Need((len - d.pos) + more)
    <3>5. Room >= nd + two /\ nd \in Nat /\ nd >= WrN
      BY <3>2, <3>3, <2>1, <2>4, <1>3
    <3> HIDE DEF nd, two
    <3>6. Room' >= 0
      BY <3>4, <3>5, <2>2, <2>3, <1>3, <1>6
    <3> QED BY <3>6, <2>1, <2>6, <2>9
  <2>10. CASE d.idx > 0
    <3>1. /\ d.m = N /\ d.pos = 0 /\ d.rem = 1 /\ WrPos + 1 = WrN - 1 /\ h \in Nat
          /\ WrPos + 1 < len => \/ WrN + h = out_blk_sz
                                \/ WrN = 2 /\ h = out_blk_sz - 1
      BY <2>10, <2>1, WriteNumbers DEF len
    <3>2. more = 0 /\ two = 0
      BY <3>1, <1>2 DEF FollowedUp, N, Joins
    <3>3. x = HeldBack + WrN
      BY <3>1, <2>10, <1>2, <1>6
    <3>4. Room >= HeldBack + (Need(h + len) - h)
      <4>1. Wanted = HeldBack + (Need(h + len) - h)
        BY <2>10, <1>1 DEF Wanted, len
      <4> QED BY <4>1, <2>1
    <3>5. CASE ~(WrPos + 1 < len)
      <4>1. len = WrN - 1 /\ h + len \in Nat
        BY <3>1, <3>5, <1>2, <1>3
      <4>2. Need(h + len) \in Nat /\ Need(h + len) >= h + len + 1
        BY <4>1, NeedIsANumber
      <4> DEFINE nd == Need(h + len)
      <4>3. nd \in Nat /\ nd >= h + len + 1 /\ Room >= HeldBack + (nd - h)
        BY <4>2, <3>4
      <4> HIDE DEF nd, h
      <4>4. Room' >= 0
        BY <4>1, <4>3, <3>1, <3>3, <2>2, <2>7, <1>3, <1>2
      <4> QED BY <4>4, <3>5, <2>1, <2>6
    <3>6. CASE WrPos + 1 < len
      <4> DEFINE nd == Need(h + len)
                 nq == Need(q)
                 n1 == Need(q + 1)
      <4>1. q = len - (WrN - 1) /\ q \in Nat
        BY <3>1, <2>3, <1>2, <1>3
      <4> HIDE DEF q
      <4>2. /\ nq \in Nat /\ n1 \in Nat /\ n1 >= nq + 1 /\ out_blk_sz \in Nat
            /\ Need(q + (out_blk_sz - 1)) = nq + out_blk_sz
            /\ Need((q + 1) + (out_blk_sz - 1)) = n1 + out_blk_sz
        <5>1. q + 1 \in Nat
          BY <4>1
        <5> QED BY <4>1, <5>1, NeedMoves
      <4>3. CASE WrN + h = out_blk_sz
        <5>1. h + len = q + (out_blk_sz - 1)
          BY <4>1, <4>2, <4>3, <3>1, <1>2, <1>3
        <5>2. nd = nq + out_blk_sz
          BY <5>1, <4>2
        <5>3. Room >= HeldBack + (nd - h)
          BY <3>4
        <5> HIDE DEF nd, nq, h
        <5>4. Room' >= nq
          BY <5>2, <5>3, <4>2, <4>3, <3>1, <3>3, <2>2, <2>7, <1>3
        <5>5. Wanted' = nq
          BY <3>2, <3>6, <2>6, <4>1, <4>2 DEF nq
        <5> QED BY <5>4, <5>5, <4>2, <2>1, <2>2, <1>6
      <4>4. CASE WrN = 2 /\ h = out_blk_sz - 1
        <5>1. h + len = (q + 1) + (out_blk_sz - 1)
          BY <4>1, <4>2, <4>4, <3>1, <1>2, <1>3
        <5>2. nd = n1 + out_blk_sz
          BY <5>1, <4>2
        <5>3. Room >= HeldBack + (nd - h)
          BY <3>4
        <5> HIDE DEF nd, nq, n1, h
        <5>4. Room' >= nq
          BY <5>2, <5>3, <4>2, <4>4, <3>1, <3>3, <2>2, <2>7, <1>3
        <5>5. Wanted' = nq
          BY <3>2, <3>6, <2>6, <4>1, <4>2 DEF nq
        <5> QED BY <5>4, <5>5, <4>2, <2>1, <2>2, <1>6
      <4> QED BY <4>3, <4>4, <3>1, <3>6
    <3> QED BY <3>5, <3>6
  <2> QED BY <2>8, <2>9, <2>10, <1>2
<1>16. ASSUME ~hw.failed PROVE Said'
  <2>1. words \in Seq(Entries)
    BY <1>6 DEF NoRead
  <2>2. Stream' = (hw.seen \o hw.out) \o words
    <3>1. Stream' = (hw.seen \o out) \o <<>>
      BY <1>9 DEF Stream
    <3>2. hw.seen \o out = (hw.seen \o hw.out) \o words /\ hw.seen \o out \in Seq(Entries)
      BY <2>1, <1>1, Regroup DEF out
    <3> DEFINE S == hw.seen \o out
    <3>3. S \in Seq(Entries)
      BY <3>2
    <3> HIDE DEF S
    <3>4. S \o <<>> = S
      BY <3>3, ConcatEmptySeq
    <3> QED BY <3>1, <3>2, <3>4, Zenon DEF S
  <2>3. Ended' => d.rem = 1 /\ WrPos + 1 = len
    BY <1>2, <1>9, <1>11 DEF Ended, This, Message, len
  <2>4. WrPos + 1 \in Nat /\ d.msgs \in Seq(I2cMessages)
    BY <1>1, <1>3, I2cFields
  <2>5. ASSUME NEW last \in {WrLast, WrStop}
        PROVE  /\ SaysSoFar(d.msgs, WrBase(last), d.m, WrPos + 1)
               /\ WrBase(last) \in Seq(Entries) /\ WrBase(last) # <<>>
               /\ WrBase(last)[Len(WrBase(last))] = last
    <3>1. last \in Entries /\ IsByte(last) /\ last.arg = <<d.m, WrPos + 1>>
      BY WriteTypes
    <3> QED BY <3>1, <1>16, BaseSays
  <2>6. CASE words = WrFront \o <<WrLast>>
    <3>1. Stream' = WrBase(WrLast)
      BY <2>2, <2>6, Zenon DEF WrBase
    <3>2. Ended' => WrLast.op = "STOP"
      <4>1. d.rem = 1 /\ WrPos + 1 = len => WrEnds
        BY <1>2, <1>3 DEF WrEnds, len
      <4> QED BY <4>1, <2>3, WriteTypes
    <3> QED BY <3>1, <3>2, <2>5, <1>9 DEF Said
  <2>7. CASE words = WrFront \o <<WrLast, None>> /\ d.rem > 1
    <3>1. Stream' = Append(WrBase(WrLast), None)
      <4>1. (hw.seen \o hw.out) \o (WrFront \o <<WrLast, None>>) = Append(WrBase(WrLast), None)
        BY WordsAre
      <4> QED BY <4>1, <2>2, <2>7, Zenon
    <3>2. SaysSoFar(d.msgs, Append(WrBase(WrLast), None), d.m, WrPos + 1)
      <4>1. None \in Entries /\ ~IsByte(None)
        BY WriteTypes DEF IsByte
      <4> QED BY <4>1, <2>4, <2>5, <1>2, SaysAlso
    <3>3. ~Ended'
      BY <2>3, <2>7
    <3> QED BY <3>1, <3>2, <3>3, <1>9 DEF Said
  <2>8. CASE words = WrFront \o <<WrStop>> /\ d.rem > 1
    <3>1. Stream' = WrBase(WrStop)
      BY <2>2, <2>8, Zenon DEF WrBase
    <3>3. ~Ended'
      BY <2>3, <2>8
    <3> QED BY <3>1, <3>3, <2>5, <1>9 DEF Said
  <2> QED BY <2>6, <2>7, <2>8, <1>6
<1> QED BY <1>9, <1>10, <1>12, <1>13, <1>14, <1>15, <1>16 DEF I2cInv, I2cGoing

(* The next message goes into the same block: what is left of the entries  *)
(* told is enough for it.                                                  *)
LEMMA FillWritesOn ==
  ASSUME I2cInv, Fill, ~This.rd, GoesOn
  PROVE  I2cInv'
<1> DEFINE words == IssueWrite.words
           carry == IssueWrite.carry
           out   == hw.out \o words
           len   == This.len
           next  == Message(d.m + 1)
           n     == WrN
           cnt   == OneOf(next.len, MaxReadChunk)
<1>1. /\ I2cTypeOK /\ d \in DriverTypes /\ hw \in QupTypes /\ d.pc = "fill"
      /\ I2cGoing /\ Place /\ InTheMessage /\ InMessage /\ FillsUp
  BY DEF I2cInv, I2cTypeOK, Fill, I2cGoing, InMessage, InTheMessage
<1>2. /\ d.m \in 1..N /\ N \in Nat /\ d.msg = d.m /\ d.pos \in Nat /\ d.cnt \in Nat /\ d.m \in Nat
      /\ This.addr \in Devices /\ d.idx \in Nat /\ d.rem = N - d.m + 1 /\ d.m >= 1 /\ d.m <= N
      /\ len \in Nat /\ d.msgs \in Transfers /\ d.ret = 0 /\ Len(d.buf) = N
  BY <1>1, InAMessage, I2cFields
<1>3. /\ d.rem > 1 /\ d.m + 1 <= N /\ d.m < N /\ next.addr = This.addr
  BY <1>2 DEF GoesOn
<1>4. /\ n \in Nat /\ n >= 2 /\ WrPos \in Nat /\ WrPos + 1 = d.pos + (n - 1)
      /\ d.wr_sz \in Nat
  BY WriteNumbers
<1>5. /\ d.idx = 0 /\ IssueWrite.idx = 2 * n /\ WrPos + 1 = len
      /\ n = d.cnt + 1 /\ n < d.wr_sz
      /\ \/ /\ ~Odd(IssueWrite.idx) /\ words = WrFront \o <<WrLast>>
            /\ carry = None
         \/ /\ Odd(IssueWrite.idx) /\ words = WrFront
            /\ carry = WrLast
  BY WriteGoesOn
<1>6. next.len \in Nat /\ next.len > 0 /\ next.rd \in BOOLEAN
  BY <1>1, <1>2, <1>3, ThisMessage DEF FollowedUp
<1>7. cnt \in Nat /\ cnt > 0 /\ cnt <= next.len
  BY <1>6, I2cAssumption DEF OneOf
<1>8. next.rd \/ d.m + 1 = N
  <2> SUFFICES ASSUME d.m + 1 # N PROVE next.rd
    OBVIOUS
  <2>1. d.m \in 1..(N - 2)
    BY <1>2, <1>3
  <2>2. \A i \in 1..(Len(d.msgs) - 2) :
          ~d.msgs[i].rd /\ d.msgs[i + 1].addr = d.msgs[i].addr => d.msgs[i + 1].rd
    BY <1>2, I2cAssumption
  <2> QED BY <2>1, <2>2, <1>3 DEF N, This, Message
<1>9. carry \in Entries /\ carry.op # "REC"
  BY <1>5, WriteTypes DEF IsByte
<1>10. /\ d' = [d EXCEPT !.idx = 2 * n, !.carry = carry, !.rem = d.rem - 1, !.m = d.m + 1,
                         !.msg = d.m + 1, !.pos = 0, !.cnt = cnt]
       /\ hw' = [hw EXCEPT !.out = out]
  BY <1>1, <1>5 DEF Fill, GoesOn, DriverTypes, QupTypes
<1> DEFINE held == IF Odd(2 * n) THEN 1 ELSE 0
           x == Len(words)
<1>11. NoRead(words) /\ Len(words) = x /\ x = n - held /\ x \in Nat
  <2>1. HeldBack = 0
    BY <1>5 DEF HeldBack, Odd
  <2>2. /\ NoRead(WrFront \o <<WrLast>>) /\ Len(WrFront \o <<WrLast>>) = HeldBack + n
        /\ NoRead(WrFront) /\ Len(WrFront) = HeldBack + (n - 1)
    BY WordsAre
  <2>3. HeldBack + n = n - 0 /\ HeldBack + (n - 1) = n - 1 /\ n - 0 \in Nat /\ n - 1 \in Nat
    BY <2>1, <1>4
  <2>4. CASE ~Odd(2 * n) /\ words = WrFront \o <<WrLast>>
    BY <2>2, <2>3, <2>4
  <2>5. CASE Odd(2 * n) /\ words = WrFront
    BY <2>2, <2>3, <2>5
  <2> QED BY <2>4, <2>5, <1>5
<1>12. NothingComing
  BY <1>1 DEF I2cGoing, Coming, Reading
<1> HIDE DEF words, x, held, n
<1>13. NoRead(out) /\ Len(out) = Len(hw.out) + x
  BY <1>1, <1>11, <1>12, OutBehind
<1> HIDE DEF carry, out, len, next, cnt
<1>14. /\ d'.msgs = d.msgs /\ d'.m = d.m + 1 /\ d'.rem = d.rem - 1 /\ d'.pos = 0 /\ d'.ret = d.ret
       /\ d'.buf = d.buf /\ d'.msg = d.m + 1 /\ d'.pc = "fill" /\ d'.cnt = cnt
       /\ d'.wr_sz = d.wr_sz /\ d'.idx = 2 * n /\ d'.carry = carry
       /\ hw'.room = hw.room /\ hw'.out = out /\ hw'.in = hw.in /\ hw'.ask = hw.ask
       /\ hw'.seen = hw.seen /\ hw'.failed = hw.failed /\ hw'.error = hw.error
  BY <1>1, <1>10 DEF DriverTypes, QupTypes
<1>15. I2cTypeOK'
  <2>1. d.m + 1 \in Nat /\ d.rem - 1 \in Nat /\ 2 * n \in Nat /\ 0 \in Nat
    BY SMTT(40), <1>2, <1>3, <1>4
  <2>2. d' \in DriverTypes
    BY <1>1, <1>7, <1>9, <1>10, <2>1 DEF DriverTypes
  <2>3. out \in Seq(Entries)
    BY <1>13 DEF NoRead
  <2>4. hw' \in QupTypes
    BY <1>1, <1>10, <2>3 DEF QupTypes
  <2> QED BY <2>2, <2>4 DEF I2cTypeOK
<1>16. N' = N /\ This' = next /\ InMessage' /\ (\A i : Message(i)' = Message(i))
  BY <1>14 DEF N, This, Message, InMessage, next
<1>17. Place'
  <2>1. d'.m \in 1..(N + 1) /\ d'.rem = N - d'.m + 1 /\ d'.rem # 0 /\ d'.m <= N
    BY SMTT(40), <1>2, <1>3, <1>14
  <2> QED BY <2>1, <1>1, <1>2, <1>14, <1>16 DEF Place, Between, InMessage
<1>18. InTheMessage'
  <2>1. (2 * n) % 2 = 0 /\ 2 * n >= 4 /\ 2 * n < 2 * d.wr_sz /\ 2 * n > 0
    BY <1>4, <1>5, Halves
  <2>2. Message(d.m - 1)' = This
    <3>1. d'.m - 1 = d.m
      BY <1>2, <1>14
    <3>2. Message(d.m - 1)' = d.msgs[d'.m - 1]
      BY <1>14 DEF Message
    <3> QED BY <3>1, <3>2, Zenon DEF Message, This
  <2>3. d'.m > 1
    BY <1>2, <1>14
  <2>4. FillsUp'
    <3>1. /\ d'.idx % 2 = 0 /\ d'.idx < 2 * d'.wr_sz /\ d'.carry.op # "REC"
          /\ d'.idx # 0 /\ d'.idx >= 4
      BY <2>1, <1>9, <1>14
    <3>2. d'.cnt = OneOf(This.len, MaxReadChunk)'
      BY <1>14, <1>16 DEF cnt, OneOf
    <3>3. This'.rd \/ d'.m = N'
      BY <1>8, <1>14, <1>16
    <3>4. This'.addr = This.addr
      BY <1>3, <1>16
    <3>5. d'.pos = 0
      BY <1>14
    <3> QED BY <2>2, <2>3, <3>1, <3>2, <3>3, <3>4, <3>5 DEF FillsUp
  <2>5. d'.pos <= This'.len /\ d'.cnt <= This'.len - d'.pos /\ d'.cnt > 0
    BY <1>6, <1>7, <1>14, <1>16
  <2>6. d'.wr_sz \in {out_blk_sz, out_fifo_sz}
    BY <1>1, <1>14 DEF InTheMessage
  <2> QED BY <2>4, <2>5, <2>6, <1>14 DEF InTheMessage
<1>19. BuffersAre'
  <2>1. \A i \in 1..N : Message(i).rd => d.buf[i] = Bytes(i, HasRead(i))
    BY <1>1 DEF I2cGoing, BuffersAre
  <2>2. \A i \in 1..N : Message(i).rd => HasRead(i)' = HasRead(i)
    <3> TAKE i \in 1..N
    <3> HAVE Message(i).rd
    <3>1. i # d.m /\ i \in Nat
      BY <1>2 DEF This
    <3>2. HasRead(i)' = IF i < d.m + 1 THEN Message(i).len ELSE IF i = d.m + 1 THEN 0 ELSE 0
      BY <1>14, <1>16 DEF HasRead
    <3> QED BY <3>1, <3>2, <1>2 DEF HasRead
  <2> QED BY <1>14, <1>16, <2>1, <2>2 DEF BuffersAre
<1>20. Coming'
  <2>1. ~Reading'
    BY <1>14 DEF Reading
  <2>2. NothingComing'
    BY <1>12, <1>13, <1>14 DEF NothingComing, NoRead
  <2> QED BY <2>1, <2>2 DEF Coming
<1>21. Enough'
  <2> SUFFICES ASSUME hw.room # -1
               PROVE  /\ Room' >= 0 /\ Room' >= Wanted'
                      /\ d.wr_sz = out_blk_sz
    <3>1. d'.idx # 0
      BY <1>4, <1>14
    <3> QED BY <3>1, <1>14, <1>16 DEF Enough
  <2>1. Room >= Wanted /\ d.wr_sz = out_blk_sz
    BY <1>1 DEF I2cGoing, Enough
  <2>2. Room \in Int /\ Room' = Room - x
    <3>1. hw.room \in Int /\ Len(hw.out) \in Nat
      BY <1>1, I2cFields, LenProperties
    <3>2. \A r \in Int : \A a, b \in Nat : r - (a + b) = (r - a) - b
      OBVIOUS
    <3>3. hw.room - (Len(hw.out) + x) = (hw.room - Len(hw.out)) - x
      BY <3>1, <3>2, <1>11
    <3> QED BY <3>1, <3>3, <1>13, <1>14 DEF Room
  <2>3. Wanted = Budget
    BY SMTT(40), <1>1, <1>2, <1>4, <1>5 DEF Wanted, len
  <2>4. FollowedUp(d.msgs, d.m)
    BY <1>3 DEF FollowedUp, N, This, Message, next
  <2>5. len - d.pos = n - 1
    BY <1>2, <1>4, <1>5
  <2>6. Wanted' = held + IF next.rd THEN 2 ELSE Need(n + next.len) - n
    <3>1. (2 * n) \div 2 = n /\ 2 * n > 0
      BY <1>4, Halves
    <3>2. HeldBack' = held
      BY <1>14 DEF HeldBack, held
    <3>3. Need(d'.idx \div 2 + next.len) = Need(n + next.len)
      BY <3>1, <1>14
    <3> QED BY <3>1, <3>2, <3>3, <1>14, <1>16 DEF Wanted, Need
  <2>7. held \in {0, 1} /\ held <= 1
    BY DEF held
  <2>8. CASE next.rd
    <3>1. Budget = Need(n - 1) + 2
      <4>1. Payload = (n - 1) + 0
        BY <2>5, <2>8 DEF Payload, next, len
      <4> QED BY <4>1, <2>4, <2>8, <1>4 DEF Budget, next
    <3>2. Need(n - 1) \in Nat /\ Need(n - 1) >= (n - 1) + 1
      <4>1. n - 1 \in Nat
        BY <1>4
      <4> QED BY <4>1, NeedIsANumber
    <3> DEFINE nd == Need(n - 1)
    <3>3. nd \in Nat /\ nd >= n /\ Room >= nd + 2
      BY <3>1, <3>2, <2>1, <2>3, <1>4
    <3> HIDE DEF nd
    <3>4. Room' >= held + 2
      BY <3>3, <2>2, <2>7, <1>4, <1>11
    <3> QED BY <3>4, <2>1, <2>2, <2>6, <2>7, <2>8, <1>11
  <2>9. CASE ~next.rd
    <3>1. Budget = Need(n + next.len)
      <4>1. Payload = (n - 1) + (1 + next.len)
        BY <2>4, <2>5, <2>9 DEF Payload, next, len
      <4>2. Payload = n + next.len
        BY <4>1, <1>4, <1>6
      <4>3. Budget = Need(Payload) + 0
        BY <2>9 DEF Budget, next
      <4>4. Need(n + next.len) \in Nat
        <5>1. n + next.len \in Nat
          BY <1>4, <1>6
        <5> QED BY <5>1, NeedIsANumber
      <4> QED BY <4>2, <4>3, <4>4
    <3>2. Need(n + next.len) \in Nat /\ Need(n + next.len) >= (n + next.len) + 1
      <4>1. n + next.len \in Nat
        BY <1>4, <1>6
      <4> QED BY <4>1, NeedIsANumber
    <3> DEFINE nd == Need(n + next.len)
    <3>3. nd \in Nat /\ nd >= n /\ Room >= nd
      BY <3>1, <3>2, <2>1, <2>3, <1>4, <1>6
    <3>4. Wanted' = held + (nd - n)
      BY <2>6, <2>9
    <3> HIDE DEF nd
    <3>5. Room' >= held + (nd - n) /\ held + (nd - n) >= 0
      BY <3>3, <2>2, <2>7, <1>4, <1>11
    <3>6. Room' >= 0
      BY <3>3, <3>5, <2>2, <2>7, <1>4, <1>11
    <3> QED BY <3>4, <3>5, <3>6, <2>1
  <2> QED BY <2>8, <2>9
<1>22. ASSUME ~hw.failed PROVE Said'
  <2>1. words \in Seq(Entries)
    BY <1>11 DEF NoRead
  <2>2. Stream' = WrBase(WrLast)
    <3>1. Stream' = (hw.seen \o out) \o (IF Odd(2 * n) THEN <<carry>> ELSE <<>>)
      BY <1>14 DEF Stream, Pending
    <3>2. hw.seen \o out = (hw.seen \o hw.out) \o words /\ hw.seen \o out \in Seq(Entries)
      BY <2>1, <1>1, Regroup DEF out
    <3>3. CASE ~Odd(2 * n) /\ words = WrFront \o <<WrLast>>
      <4> DEFINE S == hw.seen \o out
      <4>1. S \in Seq(Entries) /\ Stream' = S \o <<>>
        BY <3>1, <3>2, <3>3
      <4>2. S = WrBase(WrLast)
        BY <3>2, <3>3, Zenon DEF WrBase
      <4> HIDE DEF S
      <4>3. S \o <<>> = S
        BY <4>1, ConcatEmptySeq
      <4> QED BY <4>1, <4>2, <4>3, Zenon
    <3>4. CASE Odd(2 * n) /\ words = WrFront /\ carry = WrLast
      <4> DEFINE so == hw.seen \o hw.out
                 one == <<WrLast>>
      <4>1. Stream' = (so \o WrFront) \o one
        BY <3>1, <3>2, <3>4, Zenon
      <4>2. so \in Seq(Entries)
        BY <1>1, I2cFields, ConcatProperties
      <4>3. one \in Seq(Entries)
        BY WriteTypes
      <4>4. WrFront \in Seq(Entries)
        BY WordsAre DEF NoRead
      <4> HIDE DEF so, one
      <4>5. so \o (WrFront \o one) = (so \o WrFront) \o one
        BY <4>2, <4>3, <4>4, Grouped
      <4> QED BY <4>1, <4>5, Zenon DEF WrBase, so, one
    <3> QED BY <3>3, <3>4, <1>5 DEF words, carry, n
  <2>3. WrLast \in Entries /\ IsByte(WrLast) /\ WrLast.arg = <<d.m, WrPos + 1>>
    BY WriteTypes
  <2>4. SaysSoFar(d.msgs, WrBase(WrLast), d.m, len) /\ WrBase(WrLast) \in Seq(Entries)
    BY <2>3, <1>5, <1>22, BaseSays
  <2>5. SaysSoFar(d.msgs, WrBase(WrLast), d.m + 1, 0)
    <3>1. d.msgs \in Seq(I2cMessages)
      BY <1>1, I2cFields
    <3>1a. d.m \in Nat /\ d.m + 1 \in Nat /\ 0 \in Nat /\ len \in Nat
      BY <1>2
    <3>2. \A i \in DOMAIN d.msgs : \A j \in 1..d.msgs[i].len :
            Told(d.msgs, i, j, d.m, len) <=> Told(d.msgs, i, j, d.m + 1, 0)
      <4> TAKE i \in DOMAIN d.msgs
      <4> TAKE j \in 1..d.msgs[i].len
      <4>1. i \in Nat /\ d.msgs[i].len \in Nat
        BY <3>1, MessageTypes
      <4>2. i = d.m => d.msgs[i].len = len
        BY DEF len, This, Message
      <4>3. j \in Nat /\ j >= 1 /\ j <= d.msgs[i].len
        BY <4>1
      <4> QED BY <4>1, <4>2, <4>3, <1>2 DEF Told
    <3> QED BY <2>4, <3>1, <3>1a, <3>2, SaysSame
  <2>6. ~Ended'
    <3>1. d'.m # N + 1 /\ d'.pos = 0 /\ N' = N /\ d'.msgs = d.msgs
      BY <1>2, <1>3, <1>14, <1>16
    <3>2. d'.m = N => d.msgs[N].len = next.len
      BY <1>14 DEF next, Message
    <3> QED BY <3>1, <3>2, <1>6 DEF Ended, Message
  <2> QED BY <2>2, <2>5, <2>6, <1>14 DEF Said
<1> QED BY <1>14, <1>15, <1>17, <1>18, <1>19, <1>20, <1>21, <1>22 DEF I2cInv, I2cGoing

(* Fill, whatever it puts into the FIFO.                                   *)
LEMMA FillKeeps ==
  ASSUME I2cInv, Fill
  PROVE  I2cInv'
  BY FillReads, FillWritesOn, FillWritesOut

(* A group that is reported as done, the code's return of the number of    *)
(* messages, has read every message into its buffer, and unless the bus    *)
(* failed the device has seen every byte written, once, in order, behind   *)
(* the START of its message, with a STOP at the end.                       *)
THEOREM TransfersAreAlwaysWhole == I2cSpec => []TransfersAreWhole
<1>1. I2cInit => I2cInv
  BY I2cStarts
<1>2. I2cInv /\ [I2cNext]_i2cVars => I2cInv'
  <2> SUFFICES ASSUME I2cInv, [I2cNext]_i2cVars
               PROVE  I2cInv'
    BY SMTT(40)
  <2>1. CASE UNCHANGED i2cVars
    BY ZenonT(60), <2>1 DEF i2cVars, I2cInv, I2cTypeOK, I2cDone, TransfersAreWhole, I2cGoing, Place,
       InTheMessage, FillsUp, BuffersAre, HasRead, Coming, Reading, BytesComing, Arriving,
       Commanded, NothingComing, Enough, Room, Wanted, HeldBack, Budget, Payload, Need,
       Said, Stream, Ended, Pending, This, Message, N, Between, InMessage
  <2>2. CASE QupI2cXfer      BY <2>2, QupI2cXferKeeps
  <2>3. CASE GiveUp          BY <2>3, GiveUpKeeps
  <2>4. CASE NextMessage     BY <2>4, NextMessageKeeps
  <2>5. CASE Finish          BY <2>5, FinishKeeps
  <2>6. CASE Pause           BY <2>6, PauseKeeps
  <2>7. CASE Fill            BY <2>7, FillKeeps
  <2>8. CASE Run             BY <2>8, RunKeeps
  <2>9. CASE CheckErr        BY <2>9, CheckErrKeeps
  <2>10. CASE DrainFifo      BY <2>10, DrainFifoKeeps
  <2>11. CASE EndMessage     BY <2>11, EndMessageKeeps
  <2>12. CASE ResetState     BY <2>12, ResetStateKeeps
  <2>13. CASE PollWriteReady BY <2>13, PollWriteReadyKeeps
  <2>14. CASE QupI2cInterrupt BY <2>14, InterruptKeeps
  <2>15. CASE HwSends        BY <2>15, HwSendsKeeps
  <2>16. CASE HwReceives     BY <2>16, HwReceivesKeeps
  <2>17. CASE HwFails        BY <2>17, HwFailsKeeps
  <2> QED BY <2>1, <2>2, <2>3, <2>4, <2>5, <2>6, <2>7, <2>8, <2>9, <2>10, <2>11, <2>12,
             <2>13, <2>14, <2>15, <2>16, <2>17 DEF I2cNext
<1>3. I2cInv => TransfersAreWhole
  <2>1. CASE d.pc = "idle"
    BY <2>1 DEF I2cInv, I2cDone, TransfersAreWhole
  <2>2. CASE d.pc # "idle"
    BY <2>2 DEF I2cInv, I2cGoing, Place, TransfersAreWhole
  <2> QED BY <2>1, <2>2
<1> QED BY <1>1, <1>2, <1>3, PTL DEF I2cSpec
==============================================================================
