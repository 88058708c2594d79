------------------------------- MODULE Clocks --------------------------------
(***************************************************************************)
(* The clock tree (clock.c) with both generations of clocks: the older     *)
(* ones, whose parents are counted with them and whose source register is  *)
(* written when they are enabled (clock-local.c, clock_pll.c), and the     *)
(* newer ones, whose sources are enabled when a rate is set                *)
(* (clock_lib2.c).                                                         *)
(***************************************************************************)
EXTENDS Integers, Sequences, FiniteSets

CONSTANTS
  Trees,      \* clock -> [kind, parent, table, sibling]: kind is fixed, pll,
              \* local or banked (older), gpll, rcg, branch or vote (newer);
              \* table has <<rate, source>> for the clocks with rates
              \* (the parent of an older clock is one it depends on)
  MaxCount,   \* bounds: how often a clock is enabled at once,
  MaxVotes    \* and how often a source is

NoClock == "none"
NoRate  == <<0, NoClock>>         \* the dummy frequency

(* The platforms' tables: a source needs nothing but a crystal, and what   *)
(* an older clock depends on is no source and needs nothing.               *)
OfKind(t, kinds) == {x \in DOMAIN t : t[x].kind \in kinds}
ASSUME ClocksAssumption ==
  \A t \in Trees :
    /\ IsFiniteSet(DOMAIN t) /\ NoClock \notin DOMAIN t
    /\ \A c \in DOMAIN t :
         /\ t[c].kind \in {"fixed", "pll", "local", "banked", "gpll", "rcg", "branch", "vote"}
         /\ \/ t[c].parent = NoClock
            \/ t[c].kind \in {"pll", "gpll"}     /\ t[c].parent \in OfKind(t, {"fixed"})
            \/ t[c].kind \in {"local", "banked"} /\ t[c].parent \in OfKind(t, {"vote"})
            \/ t[c].kind = "branch"              /\ t[c].parent \in OfKind(t, {"rcg"})
         /\ t[c].table # {} <=> t[c].kind \in {"local", "banked", "rcg"}
         /\ t[c].table \subseteq (Nat \ {0}) \X OfKind(t, {"fixed", "pll", "gpll"})

VARIABLES
  tree, count,
  cur,        \* current_freq of clocks with rates
  flag,       \* the older clocks' own flag
  selects,    \* what the source register of such a clock says, per bank
  bank,       \* the bank in use
  on          \* the clocks whose hardware is switched on
clockVars == <<tree, count, cur, flag, selects, bank, on>>

Clks     == DOMAIN tree
Kind(c)  == tree[c].kind
Rated    == {c \in Clks : tree[c].table # {}}
IsOlder(c) == Kind(c) \in {"local", "banked"}

ClocksInit ==
  /\ tree \in Trees
  /\ count   = [c \in Clks |-> 0]
  /\ cur     = [c \in Rated |-> NoRate]
  /\ flag    = [c \in Clks |-> FALSE]
  /\ selects = [c \in Rated |-> [b \in {0, 1} |-> NoRate]]
  /\ bank    = [c \in Clks |-> 0]
  /\ on      = {c \in Clks : Kind(c) = "fixed"}

-----------------------------------------------------------------------------
(* clk_get_parent: the newer clocks have no such operation.                *)
Parent(c) == IF IsOlder(c) THEN cur[c][2]
             ELSE IF Kind(c) \in {"rcg", "branch", "vote", "gpll"} THEN NoClock ELSE tree[c].parent

(* clk_enable and clk_disable go up the tree while a clock is the first or *)
(* the last to be used.  What an older clock depends on is only enabled. *)
Above(x, n) ==
  IF count[x] # n THEN {}
  ELSE ({Parent(x)} \cup (IF n = 0 /\ IsOlder(x) THEN {tree[x].parent} ELSE {})) \ {NoClock}
Upwards(n) ==
  LET up[x \in Clks] == {x} \cup UNION {up[y] : y \in Above(x, n)} IN up
Up(c, n) == IF c = NoClock THEN {} ELSE Upwards(n)[c]
Counted(S, d) == [x \in Clks |-> IF x \in S THEN count[x] + d ELSE count[x]]

(* Of those, the ones whose own operation runs; an older clock's source    *)
(* register gets its rate then.                                            *)
FirstOf(S) == {x \in S : count[x] = 0}
LastOf(S)  == {x \in S : count[x] = 1}
SwitchedOn(S) ==
  /\ on'      = on \cup FirstOf(S)
  /\ flag' = [x \in Clks |-> flag[x] \/ (x \in FirstOf(S) /\ IsOlder(x))]
Staged(S) == [x \in Rated |-> IF x \in FirstOf(S) /\ IsOlder(x)
                              THEN [selects[x] EXCEPT ![bank[x]] = cur[x]] ELSE selects[x]]

ClkEnable(c) ==
  LET S == Up(c, 0)
  IN  /\ count' = Counted(S, 1) /\ SwitchedOn(S) /\ selects' = Staged(S)
      /\ UNCHANGED <<tree, cur, bank>>

(* Only the newer clocks and the sources really go off.                    *)
LastUsers(c) == {x \in Up(c, 1) : count[x] > 0}
ClkDisable(c) ==
  LET S == LastUsers(c)
  IN  /\ count' = Counted(S, -1)
      /\ on' = on \ {x \in LastOf(S) : Kind(x) \notin {"fixed", "local", "banked", "rcg"}}
      /\ UNCHANGED <<tree, cur, flag, selects, bank>>

-----------------------------------------------------------------------------
(* clk_set_rate: a branch hands on to its parent unless it has a sibling   *)
(* there.                                                                  *)
Rates(c) == IF Kind(c) = "branch" /\ ~tree[c].sibling THEN tree[c].parent ELSE c
Row(c, rate) == CHOOSE f \in tree[c].table : f[1] = rate
CanSet(c, rate) == c \in Rated /\ \E f \in tree[c].table : f[1] = rate

(* set_rate_mnd_banked: a running clock's other bank is set up, then used. *)
Switched(c) == IF Kind(c) = "banked" /\ flag[c] THEN 1 - bank[c] ELSE bank[c]

(* local_clk_set_rate and clock_lib2_rcg_set_rate.  The new source runs     *)
(* before the clock is switched to it; an older clock that is off waits.   *)
SourceFirstBug(c) == ~IsOlder(c)

SourceFirst(c) == ~IsOlder(c) \/ flag[c]
SetRate(c, rate) ==
  LET nf == Row(c, rate)
      S  == IF SourceFirst(c) THEN Up(nf[2], 0) ELSE {}
  IN  IF nf = cur[c] THEN UNCHANGED clockVars
      ELSE /\ count' = Counted(S, 1) /\ SwitchedOn(S)
           /\ cur'   = [cur EXCEPT ![c] = nf]
           /\ bank'  = [bank EXCEPT ![c] = Switched(c)]
           /\ selects' = IF IsOlder(c) /\ ~flag[c] THEN selects
                         ELSE [selects EXCEPT ![c] =
                                 IF Kind(c) = "banked" THEN [b \in {0, 1} |-> IF b = Switched(c) THEN nf ELSE NoRate]
                                 ELSE [@ EXCEPT ![bank[c]] = nf]]
           /\ UNCHANGED tree

(* What drivers call: clk_get_set_enable for a rate, then clk_enable, each  *)
(* by itself; a rate that cannot be set ends the call.  They name neither   *)
(* sources nor what other clocks depend on.                                *)
Asked == {c \in Clks : /\ Kind(c) \notin {"fixed", "pll", "gpll"}
                       /\ ~\E x \in Clks : IsOlder(x) /\ tree[x].parent = c}
VotesLeft == \A x \in Clks : count[x] < MaxVotes
GetSetRate == /\ VotesLeft
              /\ \E c \in Asked, rate \in {f[1] : f \in UNION {tree[x].table : x \in Clks}} :
                   CanSet(Rates(c), rate) /\ SetRate(Rates(c), rate)
GetEnable  == VotesLeft /\ \E c \in Asked : count[c] < MaxCount /\ ClkEnable(c)
Release    == \E c \in Asked : count[c] > 0 /\ ClkDisable(c)
ClocksNext == GetSetRate \/ GetEnable \/ Release

ClocksSpec == ClocksInit /\ [][ClocksNext]_clockVars

-----------------------------------------------------------------------------
(* However drivers that share sources set rates, enable and disable, a      *)
(* clock somebody uses runs at the rate that was set last: its register,    *)
(* in the bank that is in use, selects the source of that rate, and that    *)
(* source and all it comes from are on.                                     *)
Used(c) == IF Kind(c) = "rcg" THEN \E b \in Clks : Kind(b) = "branch" /\ tree[b].parent = c /\ count[b] > 0
           ELSE count[c] > 0
Feeding == LET fed[x \in Clks] == x \in on /\ (tree[x].parent = NoClock \/ fed[tree[x].parent])
           IN  fed
Fed(c) == c = NoClock \/ Feeding[c]
UsedClocksRun ==
  \A c \in Rated : Used(c) => /\ selects[c][bank[c]] = cur[c]
                              /\ Fed(cur[c][2]) /\ Fed(tree[c].parent)
=============================================================================
