----------------------------- MODULE KeyStatus -----------------------------
(***************************************************************************)
(* The keypad device behind KeypadDxe: power, volume up and volume down.   *)
(* At each poll KeypadDeviceImplGetKeys reads the keys one after the other *)
(* and LibKeyUpdateKeyStatus turns presses into keystrokes: a short press  *)
(* is reported when it ends, a held volume key repeats, a held power key   *)
(* means something else together with a volume key.                        *)
(***************************************************************************)
EXTENDS Integers, Sequences, SequencesExt

CONSTANTS
  KeyList,       \* the keys the board has, in the order they are read
  ReleaseTime,   \* 10 ms
  RepeatTime,    \* 200 ms
  LongpressTime, \* 500 ms
  Deltas         \* time between two polls

Keys == ToSet(KeyList)

ASSUME KeyStatusAssumption ==
  /\ Keys \subseteq {"power", "up", "down"} /\ IsInjective(KeyList)
  /\ ReleaseTime \in Nat \ {0} /\ RepeatTime \in Nat /\ LongpressTime \in Nat
  /\ ReleaseTime <= RepeatTime /\ RepeatTime <= LongpressTime
  /\ Deltas \subseteq Nat

VARIABLES
  context,  \* the KEY_CONTEXT of each key
  bitmap,   \* the keys down in gBitmapScanCodes, gBitmapUnicodeChars
  button,   \* the keys the user holds
  reported, \* the keystrokes of the last poll, key by key as they are read: the
            \* key each comes from and the time since its last one (history: any,
            \* if it is the first)
  count,    \* history: reports of a key since it was pressed, up to two
  quiet,    \* history: the time since the last of them
  chorded   \* history: power was down at a poll of this press

keyVars == <<context, bitmap, button, reported, count, quiet, chorded>>

Released == [state |-> "RELEASED", time |-> 0, repeat |-> FALSE, longpress |-> FALSE]

(* Beyond the longest threshold times are not told apart; that of a key    *)
(* that is not pressed is not kept.                                        *)
Plus(t, delta) == IF t + delta > LongpressTime THEN LongpressTime ELSE t + delta

KeyInit ==
  /\ context = [k \in Keys |-> Released]
  /\ bitmap = {} /\ button = {} /\ reported = <<>>
  /\ count = [k \in Keys |-> 0] /\ quiet = [k \in Keys |-> 0]
  /\ chorded = [k \in Keys |-> FALSE]

-----------------------------------------------------------------------------
(* What a held power key reports, by the volume keys down: the bits of     *)
(* keys read later are those of the poll before.                           *)
PowerCombo(down) == IF "down" \in down THEN "s" ELSE IF "up" \in down THEN "e" ELSE " "

(* A pressed key that is still down: time t is up.                         *)
Held(k, c, t, down) ==
  IF c.repeat /\ t >= RepeatTime THEN [ctx |-> [c EXCEPT !.time = 0], keys |-> <<k>>]
  ELSE IF c.longpress \/ t < LongpressTime THEN [ctx |-> [c EXCEPT !.time = t], keys |-> <<>>]
  ELSE IF k = "power"
    THEN [ctx |-> [c EXCEPT !.time = t, !.longpress = TRUE], keys |-> <<PowerCombo(down)>>]
  ELSE IF "power" \in down
    THEN [ctx |-> [c EXCEPT !.time = t, !.longpress = TRUE], keys |-> <<>>]
  ELSE [ctx |-> [c EXCEPT !.time = 0, !.repeat = TRUE, !.longpress = TRUE], keys |-> <<k>>]

(* The operators named ...Bug are changed copies of the definition after    *)
(* them; nothing uses them except the check that a property can fail.      *)
LetGoSilentBug(k, c, t) ==
  IF ~c.longpress THEN [ctx |-> [Released EXCEPT !.state = "LONGPRESS_RELEASE"], keys |-> <<>>]
  ELSE IF t >= ReleaseTime THEN [ctx |-> Released, keys |-> <<>>]
  ELSE [ctx |-> [c EXCEPT !.time = t], keys |-> <<>>]

(* A pressed key that is up: a short press is reported now.                *)
LetGo(k, c, t) ==
  IF ~c.longpress THEN [ctx |-> [Released EXCEPT !.state = "LONGPRESS_RELEASE"], keys |-> <<k>>]
  ELSE IF t >= ReleaseTime THEN [ctx |-> Released, keys |-> <<>>]
  ELSE [ctx |-> [c EXCEPT !.time = t], keys |-> <<>>]

(* LibKeyUpdateKeyStatus: the key's context after the poll and what it     *)
(* reports ("power" stands for CHAR_CARRIAGE_RETURN, its own key).         *)
Update(k, c, isPressed, delta, down) ==
  LET t == Plus(c.time, delta)
  IN  CASE c.state = "RELEASED" ->
             [ctx |-> IF isPressed THEN [Released EXCEPT !.state = "PRESSED"] ELSE Released,
              keys |-> <<>>]
        [] c.state = "PRESSED" -> IF isPressed THEN Held(k, c, t, down) ELSE LetGo(k, c, t)
        [] c.state = "LONGPRESS_RELEASE" -> [ctx |-> Released, keys |-> <<>>]

(* KeypadDeviceImplGetKeys reads the keys in the order of KeyList and sets *)
(* the bit of a key before its context is brought up to date: these are    *)
(* the bits it sees.                                                       *)
Down(k) ==
  LET read == {KeyList[j] : j \in 1 .. SelectInSeq(KeyList, LAMBDA e : e = k)}
  IN  (button \cap read) \cup (bitmap \ read)

Reported(k, u, delta) ==
  [i \in 1..Len(u.keys) |->
     [by |-> k, key |-> u.keys[i],
      gap |-> IF count[k] = 0 THEN LongpressTime ELSE Plus(quiet[k], delta)]]

GetKeys(delta) ==
  LET updates == [k \in Keys |-> Update(k, context[k], k \in button, delta, Down(k))]
      reports(k) == Len(updates[k].keys)
      starts(k) == context[k].state = "RELEASED"
  IN  /\ context' = [k \in Keys |-> updates[k].ctx]
      /\ bitmap' = button
      /\ reported' = [i \in DOMAIN KeyList |->
                        Reported(KeyList[i], updates[KeyList[i]], delta)]
      /\ count' = [k \in Keys |->
                     IF starts(k) THEN 0
                     ELSE IF count[k] + reports(k) > 2 THEN 2
                     ELSE count[k] + reports(k)]
      /\ quiet' = [k \in Keys |->
                     IF starts(k) \/ reports(k) > 0 THEN 0
                     ELSE Plus(quiet[k], delta)]
      /\ chorded' = [k \in Keys |-> (chorded[k] /\ ~starts(k)) \/ "power" \in button]
      /\ UNCHANGED button

(* KeypadDeviceImplReset; the bitmaps are left as they are.                *)
KeypadReset ==
  /\ context' = [k \in Keys |-> Released]
  /\ reported' = <<>>
  /\ count' = [k \in Keys |-> 0] /\ quiet' = [k \in Keys |-> 0]
  /\ chorded' = [k \in Keys |-> FALSE]
  /\ UNCHANGED <<bitmap, button>>

(* The user presses or lets go of a key.                                   *)
User(k) ==
  /\ button' = IF k \in button THEN button \ {k} ELSE button \cup {k}
  /\ reported' = <<>>
  /\ UNCHANGED <<context, bitmap, count, quiet, chorded>>

KeyNext ==
  \/ \E delta \in Deltas : GetKeys(delta)
  \/ \E k \in Keys : User(k)
  \/ KeypadReset

KeySpec == KeyInit /\ [][KeyNext]_keyVars

(* The timer polls every 20 ms, which is more than ReleaseTime.            *)
FairKeySpec ==
  KeySpec /\ WF_keyVars(\E delta \in Deltas : delta >= ReleaseTime /\ GetKeys(delta))

-----------------------------------------------------------------------------
(* A press the device noticed has been answered when it is over: power     *)
(* with one keystroke, however long it was held and with whichever keys; a *)
(* volume key with at least one, unless it was held together with power.   *)
EveryPressAnswered ==
  [][\/ KeypadReset
     \/ \A k \in Keys :
          context[k].state # "RELEASED" /\ context'[k].state = "RELEASED"
            => \/ count[k] = 1
               \/ k # "power" /\ (count[k] = 2 \/ chorded[k])]_keyVars

(* A held key is reported no faster than once in RepeatTime.               *)
RepeatsAreSpaced ==
  \A i \in DOMAIN reported : \A j \in DOMAIN reported[i] :
    reported[i][j].gap >= RepeatTime

(* A key the user holds no longer is released for the device too.          *)
KeysComeBack ==
  \A k \in Keys : <>[](k \notin button) => []<>(context[k].state = "RELEASED")
=============================================================================
