----------------------------- MODULE BootManager -----------------------------
(***************************************************************************)
(* The platform's part of the boot manager (PlatformBm.c): consoles and    *)
(* boot options are put into variables that last from boot to boot.  The   *)
(* user may reorder and delete options between boots, a boot may end       *)
(* anywhere.                                                               *)
(***************************************************************************)
EXTENDS Integers, Sequences, SequencesExt

CONSTANTS MaxBoots,      \* bound
          Screens, Keypads,  \* handles with the two protocols
          TextModes      \* the text modes: cells, 0 for one that is not there

VARIABLE bm   \* [pc, boots, options, keys, conIn, conOut, errOut, mode]
bmVars == <<bm>>

BootManagerInit ==
  bm = [pc |-> "before", boots |-> 0, options |-> <<>>, keys |-> {},
        conIn |-> {}, conOut |-> {}, errOut |-> {}, mode |-> 0]

(* PlatformRegisterFvBootOption: an option that is there is not added.     *)
Known(s, file) == \E i \in DOMAIN s.options : s.options[i].file = file
FreeNumber(s) ==
  LET used == {s.options[i].number : i \in DOMAIN s.options}
  IN  CHOOSE n \in 0..Len(s.options) : n \notin used /\ \A k \in 0..(n - 1) : k \in used
RegisterFvBootOptionBug(s, file) ==
  [s EXCEPT !.options = Append(@, [file |-> file, number |-> FreeNumber(s)])]

RegisterFvBootOption(s, file) ==
  IF Known(s, file) THEN s
  ELSE [s EXCEPT !.options = Append(@, [file |-> file, number |-> FreeNumber(s)])]

(* PlatformBootManagerBeforeConsole: screens and keypads that are there    *)
(* now, the keyboard and the serial line always; then the options and      *)
(* keys.  The menu's option is made when it is missing.                    *)
AddConsoles ==
  /\ bm.pc = "before"
  /\ \E out \in SUBSET Screens, in \in SUBSET Keypads :
       bm' = [bm EXCEPT !.pc = "options", !.conOut = @ \cup out \cup {"serial"},
                        !.errOut = @ \cup out \cup {"serial"},
                        !.conIn = @ \cup in \cup {"usb keyboard", "serial"}]
RegisterUi == /\ bm.pc = "options"
              /\ bm' = [RegisterFvBootOption(bm, "ui") EXCEPT !.pc = "keys"]
NumberOf(s, file) == s.options[CHOOSE i \in DOMAIN s.options : s.options[i].file = file].number
RegisterOptionsAndKeys ==
  /\ bm.pc = "keys"
  /\ LET s == RegisterFvBootOption(bm, "menu")
     IN  bm' = [s EXCEPT !.pc = "after", !.keys = @ \cup {<<"F2", NumberOf(s, "menu")>>,
                                                         <<"Esc", NumberOf(s, "menu")>>}]

(* ConsoleSetBestMode and the rest of PlatformBootManagerAfterConsole.     *)
BestMode(cells) ==
  LET best == {m \in DOMAIN cells : cells[m] > 0 /\ \A k \in DOMAIN cells : cells[k] <= cells[m]}
  IN  IF best = {} THEN 1 ELSE CHOOSE m \in best : \A k \in best : m <= k
BestCells(cells) == IF cells = <<>> THEN 0 ELSE cells[BestMode(cells)]
AfterConsole ==
  /\ bm.pc = "after"
  /\ \E cells \in TextModes :
       bm' = [RegisterFvBootOption(bm, "shell") EXCEPT !.pc = "up", !.mode = BestCells(cells)]

(* Outside: the user deletes or moves an option (its keys go with it), the *)
(* machine starts again at any time.                                       *)
UserChanges ==
  /\ bm.pc = "up"
  /\ \E i \in DOMAIN bm.options :
       \/ bm' = [bm EXCEPT !.options = RemoveAt(@, i),
                           !.keys = {k \in @ : k[2] # bm.options[i].number}]
       \/ bm' = [bm EXCEPT !.options = <<bm.options[i]>> \o RemoveAt(@, i)]
Restart ==
  /\ bm.boots < MaxBoots
  /\ bm' = [bm EXCEPT !.pc = "before", !.boots = @ + 1, !.mode = 0]

BootManagerNext == AddConsoles \/ RegisterUi \/ RegisterOptionsAndKeys \/ AfterConsole
                   \/ UserChanges \/ Restart
BootManagerSpec == BootManagerInit /\ [][BootManagerNext]_bmVars

(* However often the machine starts, is cut off while it does, or has its  *)
(* options changed, no option is there twice, and every key that opens one *)
(* opens the menu.                                                         *)
OptionsRegisteredOnce ==
  /\ \A i, j \in DOMAIN bm.options : bm.options[i].file = bm.options[j].file => i = j
  /\ \A k \in bm.keys : \E i \in DOMAIN bm.options :
       bm.options[i].number = k[2] /\ bm.options[i].file = "menu"
=============================================================================
