------------------------------- MODULE Keypad -------------------------------
(***************************************************************************)
(* KeypadDxe: the console-input device in front of a keypad.  The timer    *)
(* handler polls the device at TPL_NOTIFY; a key it reports goes into the  *)
(* queue the readers take keys from and, if it was registered, into the    *)
(* queue of KeyNotifyProcessHandler, which calls the registered functions  *)
(* at TPL_CALLBACK.                                                        *)
(*                                                                         *)
(* What runs at TPL_NOTIFY is one step.  The handler is not: the timer,    *)
(* the functions it calls and events of other drivers run between any two  *)
(* of its steps.                                                           *)
(***************************************************************************)
EXTENDS Naturals, Sequences, SequencesExt

CONSTANTS
  KeyData,    \* the keys a device reports: code and KeyShiftState
  Awaited,    \* the keys clients register functions for
  Null,       \* the code SCAN_NULL, CHAR_NULL of a partial keystroke
  Fns,        \* the functions clients register
  KEYPAD_EFI_KEY_MAX_COUNT,
  MaxNotify   \* bound: registrations

ASSUME KeypadAssumption ==
  /\ \A key \in KeyData : key.shift \in Nat
  /\ Awaited \subseteq KeyData
  /\ KEYPAD_EFI_KEY_MAX_COUNT \in Nat \ {0, 1} /\ MaxNotify \in Nat

Free    == [code |-> "free", shift |-> 0]  \* what a slot nobody reads holds
Slots   == 0 .. KEYPAD_EFI_KEY_MAX_COUNT - 1

VARIABLES
  EfiKeyQueue,           \* keys for the readers
  EfiKeyQueueForNotify,  \* keys for KeyNotifyProcessHandler
  NotifyList,            \* the registrations, oldest first
  IsSupportPartialKey,
  signaled,              \* KeyNotifyProcessEvent is signaled
  handler                \* KeyNotifyProcessHandler: where it is

keypadVars == <<EfiKeyQueue, EfiKeyQueueForNotify, NotifyList,
                IsSupportPartialKey, signaled, handler>>

Empty   == [buffer |-> [i \in Slots |-> Free], head |-> 0, tail |-> 0]
NoEntry == [data |-> Free, fn |-> "none"]
Asleep  == [pc |-> "asleep", key |-> Free, at |-> NoEntry]

KeypadInit ==
  /\ EfiKeyQueue = Empty /\ EfiKeyQueueForNotify = Empty
  /\ NotifyList = <<>>
  /\ IsSupportPartialKey = FALSE
  /\ signaled = FALSE /\ handler = Asleep

-----------------------------------------------------------------------------
(* The ring buffer.                                                        *)
After(i) == (i + 1) % KEYPAD_EFI_KEY_MAX_COUNT

IsEfikeyBufEmpty(q) == q.head = q.tail

(* A popped slot is marked Free to keep keys nobody can read out of the    *)
(* state.                                                                  *)
PopEfikeyBufHead(q) ==
  IF IsEfikeyBufEmpty(q)
    THEN q
    ELSE [q EXCEPT !.buffer[q.head] = Free, !.head = After(@)]

(* The operators named ...Bug are changed copies of the definition after    *)
(* them; nothing uses them except the check that a property can fail.      *)
PushEfikeyBufTailBug(q, key) ==
  [q EXCEPT !.buffer[q.tail] = key, !.tail = After(@)]

(* A full ring gives up its oldest key.                                    *)
PushEfikeyBufTail(q, key) ==
  LET room == IF After(q.tail) = q.head THEN PopEfikeyBufHead(q) ELSE q
  IN  [room EXCEPT !.buffer[room.tail] = key, !.tail = After(@)]

Contents(q) ==
  LET n == (q.tail + KEYPAD_EFI_KEY_MAX_COUNT - q.head) % KEYPAD_EFI_KEY_MAX_COUNT
  IN  [i \in 1..n |-> q.buffer[(q.head + i - 1) % KEYPAD_EFI_KEY_MAX_COUNT]]

-----------------------------------------------------------------------------
(* A registration without shift state matches the key with any.            *)
IsKeyRegistered(registered, input) ==
  /\ registered.code = input.code
  /\ registered.shift \in {0, input.shift}

Matching(key) == SelectSeq(NotifyList, LAMBDA e : IsKeyRegistered(e.data, key))

Accepted(key) == key.code # Null \/ IsSupportPartialKey

Signalled(key) == signaled' = (signaled \/ Matching(key) # <<>>)

(* KeypadReturnApiPushEfikeyBufTail: the key is pushed for the handler     *)
(* once per registration it matches.                                       *)
PushNotify(key) ==
  /\ EfiKeyQueueForNotify' =
       FoldLeft(LAMBDA q, e : PushEfikeyBufTail(q, key),
                EfiKeyQueueForNotify, Matching(key))
  /\ Signalled(key)

(* KeypadTimerHandler, from the timer or from a reader.  A device that     *)
(* reports several keys at a poll reports them one after the other, with   *)
(* nothing in between: the model's polls report one.                       *)
Poll(key) ==
  /\ Accepted(key)
  /\ PushNotify(key)
  /\ EfiKeyQueue' = PushEfikeyBufTail(EfiKeyQueue, key)
  /\ UNCHANGED <<NotifyList, IsSupportPartialKey, handler>>

(* KeypadReadKeyStrokeWorker, which polls first.  ReadKeyStroke calls it   *)
(* again as long as it returns a partial keystroke.                        *)
ReadKeyStrokeEx(key) ==
  \/ /\ EfiKeyQueue' = PopEfikeyBufHead(EfiKeyQueue)
     /\ UNCHANGED <<EfiKeyQueueForNotify, NotifyList, IsSupportPartialKey,
                    signaled, handler>>
  \/ /\ Accepted(key)
     /\ PushNotify(key)
     /\ EfiKeyQueue' = PopEfikeyBufHead(PushEfikeyBufTail(EfiKeyQueue, key))
     /\ UNCHANGED <<NotifyList, IsSupportPartialKey, handler>>

(* KeypadWaitForKey drops the partial keystrokes at the head; the polls it *)
(* makes before are Poll.                                                  *)
WaitForKey ==
  /\ ~IsEfikeyBufEmpty(EfiKeyQueue)
  /\ EfiKeyQueue.buffer[EfiKeyQueue.head].code = Null
  /\ EfiKeyQueue' = PopEfikeyBufHead(EfiKeyQueue)
  /\ UNCHANGED <<EfiKeyQueueForNotify, NotifyList, IsSupportPartialKey,
                 signaled, handler>>

(* KeypadEfiReset, InitKeypad.                                             *)
Reset ==
  /\ EfiKeyQueue' = Empty /\ EfiKeyQueueForNotify' = Empty
  /\ IsSupportPartialKey' = FALSE
  /\ UNCHANGED <<NotifyList, signaled, handler>>

SetState(exposed) ==
  /\ IsSupportPartialKey' = exposed
  /\ UNCHANGED <<EfiKeyQueue, EfiKeyQueueForNotify, NotifyList, signaled,
                 handler>>

(* A registration that matches an older one of the same function is that   *)
(* one.                                                                    *)
IsRegistered(entry) ==
  \E i \in 1..Len(NotifyList) :
     NotifyList[i].fn = entry.fn /\ IsKeyRegistered(NotifyList[i].data, entry.data)

RegisterKeyNotify(entry) ==
  /\ ~IsRegistered(entry)
  /\ Len(NotifyList) < MaxNotify
  /\ NotifyList' = Append(NotifyList, entry)
  /\ UNCHANGED <<EfiKeyQueue, EfiKeyQueueForNotify, IsSupportPartialKey,
                 signaled, handler>>

(* The entry is freed; the handler does not expect that of the one it      *)
(* stands on.                                                              *)
UnregisterKeyNotify(entry) ==
  /\ entry \in ToSet(NotifyList) /\ handler.at # entry
  /\ NotifyList' = Remove(NotifyList, entry)
  /\ UNCHANGED <<EfiKeyQueue, EfiKeyQueueForNotify, IsSupportPartialKey,
                 signaled, handler>>

-----------------------------------------------------------------------------
(* KeyNotifyProcessHandler.  The event is no longer signaled when its      *)
(* notification function starts.                                           *)
HandlerStart ==
  /\ handler.pc = "asleep" /\ signaled
  /\ signaled' = FALSE
  /\ handler' = [handler EXCEPT !.pc = "pop"]
  /\ UNCHANGED <<EfiKeyQueue, EfiKeyQueueForNotify, NotifyList,
                 IsSupportPartialKey>>

WalkSleepsBug(key, entries) ==
  IF entries = <<>> THEN Asleep
  ELSE [pc |-> "visit", key |-> key, at |-> Head(entries)]

(* The first of these entries, or the next key.                            *)
Walk(key, entries) ==
  IF entries = <<>> THEN [pc |-> "pop", key |-> Free, at |-> NoEntry]
  ELSE [pc |-> "visit", key |-> key, at |-> Head(entries)]

HandlerPop ==
  /\ handler.pc = "pop"
  /\ IF IsEfikeyBufEmpty(EfiKeyQueueForNotify)
       THEN handler' = Asleep
       ELSE handler' = Walk(EfiKeyQueueForNotify.buffer[EfiKeyQueueForNotify.head],
                            NotifyList)
  /\ EfiKeyQueueForNotify' = PopEfikeyBufHead(EfiKeyQueueForNotify)
  /\ UNCHANGED <<EfiKeyQueue, NotifyList, IsSupportPartialKey, signaled>>

(* The function runs, if the entry is for this key: until HandlerNext.     *)
HandlerVisit ==
  /\ handler.pc = "visit"
  /\ handler' = [handler EXCEPT !.pc = "next"]
  /\ UNCHANGED <<EfiKeyQueue, EfiKeyQueueForNotify, NotifyList,
                 IsSupportPartialKey, signaled>>

HandlerNext ==
  /\ handler.pc = "next"
  /\ LET i == SelectInSeq(NotifyList, LAMBDA e : e = handler.at)
     IN  handler' = Walk(handler.key, SubSeq(NotifyList, i + 1, Len(NotifyList)))
  /\ UNCHANGED <<EfiKeyQueue, EfiKeyQueueForNotify, NotifyList,
                 IsSupportPartialKey, signaled>>

KeyNotifyProcess == HandlerStart \/ HandlerPop \/ HandlerVisit \/ HandlerNext

-----------------------------------------------------------------------------
KeypadNext ==
  \/ \E key \in KeyData : Poll(key) \/ ReadKeyStrokeEx(key)
  \/ WaitForKey \/ Reset
  \/ \E exposed \in BOOLEAN : SetState(exposed)
  \/ \E data \in Awaited, fn \in Fns :
       \/ RegisterKeyNotify([data |-> data, fn |-> fn])
       \/ UnregisterKeyNotify([data |-> data, fn |-> fn])
  \/ KeyNotifyProcess

KeypadSpec == KeypadInit /\ [][KeypadNext]_keypadVars

(* The firmware dispatches a signaled event, and the functions return.     *)
FairKeypadSpec == KeypadSpec /\ WF_keypadVars(KeyNotifyProcess)

-----------------------------------------------------------------------------
(* Readers are given the newest keys in the order they were typed: only a  *)
(* reset takes more than one away.                                         *)
ReadersQueue == INSTANCE KeyFifo
  WITH Key      <- KeyData,
       Capacity <- KEYPAD_EFI_KEY_MAX_COUNT - 1,
       keys     <- Contents(EfiKeyQueue)
ReadersSeeFifo ==
  /\ ReadersQueue!FifoInit
  /\ [][ReadersQueue!FifoNext \/ Reset]_EfiKeyQueue

(* A key for the handler is looked up, unless a reset throws it away: if    *)
(* the functions it calls do not register others for ever.                 *)
KeysReachHandler ==
  <>[][UNCHANGED NotifyList]_keypadVars
    => (~IsEfikeyBufEmpty(EfiKeyQueueForNotify)
          ~> (handler.pc = "pop" \/ IsEfikeyBufEmpty(EfiKeyQueueForNotify)))
=============================================================================
