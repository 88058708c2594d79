----------------------------- MODULE MCOutside ------------------------------
(* The device as the world outside uses it, in one run, each part by       *)
(* itself: `level` says which one moves.  A user at the keys, and the      *)
(* queues of the console the keys fill; a host at the plug, and the stages *)
(* of its control transfers.                                               *)
EXTENDS Keypad, KeyStatus, DwcControl, UsbSetup

VARIABLE level
outsideVars == <<level, keypadVars, keyVars, dwcControlVars, setupVars>>

(* A key with and without shift, and a partial keystroke nobody waits for. *)
MCKeyData == {[code |-> "a", shift |-> 0], [code |-> "a", shift |-> 1],
              [code |-> "null", shift |-> 0]}
MCAwaited == {key \in MCKeyData : key.code = "a"}
MCKeyList == <<"power", "up", "down">>

(* One bulk endpoint for each direction, in either order.                  *)
MCGadgets == {<<<<1, TRUE>>, <<1, FALSE>>>>, <<<<1, FALSE>>, <<1, TRUE>>>>,
              <<<<1, TRUE>>, <<1, FALSE>>, <<2, TRUE>>>>}

MCOutsideInit ==
  /\ level \in {"keypad", "keys", "stages", "setup"}
  /\ KeypadInit /\ KeyInit /\ DwcControlInit /\ UsbSetupInit
  /\ level # "setup" => controller = "ci" /\ gadget = CHOOSE g \in Gadgets : TRUE
MCOutsideNext ==
  /\ UNCHANGED level
  /\ \/ level = "keypad" /\ KeypadNext /\ UNCHANGED <<keyVars, dwcControlVars, setupVars>>
     \/ level = "keys" /\ KeyNext /\ UNCHANGED <<keypadVars, dwcControlVars, setupVars>>
     \/ level = "stages" /\ DwcControlNext /\ UNCHANGED <<keypadVars, keyVars, setupVars>>
     \/ level = "setup" /\ UsbSetupNext /\ UNCHANGED <<keypadVars, keyVars, dwcControlVars>>

Stages(A) ==
  level = "stages" /\ A /\ UNCHANGED <<level, keypadVars, keyVars, setupVars>>

(* The firmware dispatches a signaled event and the functions return; the  *)
(* timer polls every 20 ms, which is more than ReleaseTime; the controller *)
(* and its handler get on, and a host goes on with what it began.          *)
MCOutsideSpec ==
  /\ MCOutsideInit /\ [][MCOutsideNext]_outsideVars
  /\ WF_outsideVars(/\ level = "keypad" /\ KeyNotifyProcess
                    /\ UNCHANGED <<level, keyVars, dwcControlVars, setupVars>>)
  /\ WF_outsideVars(/\ level = "keys"
                    /\ \E delta \in Deltas : delta >= ReleaseTime /\ GetKeys(delta)
                    /\ UNCHANGED <<level, keypadVars, dwcControlVars, setupVars>>)
  /\ WF_outsideVars(Stages(Hardware)) /\ WF_outsideVars(Stages(Interrupt))
  /\ WF_outsideVars(Stages(HostToken))

-----------------------------------------------------------------------------
(* Every press is answered, by repeats no closer than RepeatTime if it     *)
(* lasts, and the key comes back to rest.                                  *)
PressesAreAnswered == EveryPressAnswered /\ []RepeatsAreSpaced /\ KeysComeBack
=============================================================================
