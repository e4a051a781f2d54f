------------------------------- MODULE Installer -------------------------------
(***************************************************************************)
(* customize.sh: the kernel gate, the three volume-key menus and the files  *)
(* they leave in the module's directory.  The keys are read by counting the *)
(* lines of a file that getevent fills in the background, so a key press    *)
(* may fall between any two greps.                                          *)
(***************************************************************************)
EXTENDS Integers, FiniteSets

CONSTANTS
  PickTimeout,    \* PICK_TIMEOUT: polls until the current item is taken
  MaxPresses      \* bound on the key presses of one installation

ASSUME TimeoutAssumption == PickTimeout \in Nat \ {0}
ASSUME PressesAssumption == MaxPresses \in Nat

VARIABLES
  step,       \* "gate", the menu that is up, "finish", "done", "aborted"
  pick,       \* step of pick_option, "off" between two menus
  keysOk,     \* PICK_KEYS_OK: getevent exists
  matches,    \* kc_check
  ups, downs, \* key presses in the capture file
  up, dn,     \* the counts pick_option has dealt with
  cur,        \* the current item
  t,          \* the poll
  picked,     \* PICKED, 0 before the choice
  files,      \* enable_piano, enable_zram and system_ext, as far as they exist
  algo,       \* content of zram_algo, "none" before it is written
  confAlgo,   \* comp_algo in system_ext/etc/perfinit.conf
  presses,    \* key presses so far
  aimed,      \* history: the item on the screen at the first DOWN of the menu
  raced,      \* history: an UP was unread at that DOWN or came after it
  base        \* history: the UPs that key_begin's first count found

menuVars == <<ups, downs, up, dn, cur, t, aimed, raced, base>>
fileVars == <<files, algo, confAlgo>>
vars == <<step, pick, keysOk, matches, menuVars, picked, fileVars, presses>>

Menus == {"piano", "driver", "algo"}
Options(menu) == IF menu = "algo" THEN 3 ELSE 2

-----------------------------------------------------------------------------
(* The user. *)

\* volume up or down, while getevent captures; nothing else of the installer
\* moves.
PressUp ==
  /\ pick # "off" /\ presses < MaxPresses
  /\ ups' = ups + 1 /\ presses' = presses + 1
  /\ raced' = (raced \/ aimed # 0)
  /\ UNCHANGED <<step, pick, keysOk, matches, downs, up, dn, cur, t, aimed,
                 base, picked, fileVars>>

PressDown ==
  /\ pick # "off" /\ presses < MaxPresses
  /\ downs' = downs + 1 /\ presses' = presses + 1
  /\ IF aimed = 0 /\ pick # "base_up" /\ pick # "base_dn"
       THEN aimed' = cur /\ raced' = (ups > up)
       ELSE UNCHANGED <<aimed, raced>>
  /\ UNCHANGED <<step, pick, keysOk, matches, ups, up, dn, cur, t, base,
                 picked, fileVars>>

-----------------------------------------------------------------------------
(* kernel_gate *)

Gate ==
  /\ step = "gate"
  /\ step' = IF matches THEN "piano" ELSE "aborted"
  /\ UNCHANGED <<pick, keysOk, matches, menuVars, picked, fileVars, presses>>

-----------------------------------------------------------------------------
(* pick_option *)

\* Without getevent the first item is taken; else the menu is shown and
\* key_begin starts a new capture file.
PickBegin ==
  /\ step \in Menus /\ pick = "off" /\ picked = 0
  /\ IF keysOk
       THEN /\ pick' = "base_up" /\ ups' = 0 /\ downs' = 0
            /\ UNCHANGED picked
       ELSE picked' = 1 /\ UNCHANGED <<pick, ups, downs>>
  /\ cur' = 1 /\ t' = 1 /\ aimed' = 0 /\ raced' = FALSE
  /\ UNCHANGED <<step, keysOk, matches, up, dn, base, fileVars, presses>>

\* up=$(key_count UP); dn=$(key_count DOWN): presses so far do not count.
PickBaseUp ==
  /\ pick = "base_up" /\ up' = ups /\ base' = ups /\ pick' = "base_dn"
  /\ UNCHANGED <<step, keysOk, matches, ups, downs, dn, cur, t, aimed, raced,
                 picked, fileVars, presses>>

PickBaseDown ==
  /\ pick = "base_dn" /\ dn' = downs /\ pick' = "up"
  /\ UNCHANGED <<step, keysOk, matches, ups, downs, up, cur, t, aimed, raced,
                 base, picked, fileVars, presses>>

\* The count has grown to "now": the mark moves on, round the menu, by the
\* number of new presses.
MarkTo(now) ==
  /\ pick = "up" /\ pick' = "down"
  /\ up' = now
  /\ cur' = ((cur - 1 + (now - up)) % Options(step)) + 1
  /\ UNCHANGED <<step, keysOk, matches, ups, downs, dn, t, aimed, raced, base,
                 picked, fileVars, presses>>

\* Broken on purpose: several presses of UP in one poll count as one.
PickUpOnce ==
  \/ ups <= up + 1 /\ MarkTo(ups)
  \/ /\ ups > up + 1 /\ pick = "up" /\ pick' = "down"
     /\ up' = ups
     /\ cur' = (cur % Options(step)) + 1
     /\ UNCHANGED <<step, keysOk, matches, ups, downs, dn, t, aimed, raced, base,
                    picked, fileVars, presses>>

\* Broken on purpose: the pattern of UP matches every key press.
PickUpAnyKey == MarkTo(ups + downs)

\* Broken on purpose: items counted from 0.
PickUpFromZero ==
  /\ pick = "up" /\ pick' = "down"
  /\ up' = ups
  /\ cur' = (cur + (ups - up)) % Options(step)
  /\ UNCHANGED <<step, keysOk, matches, ups, downs, dn, t, aimed, raced, base,
                 picked, fileVars, presses>>

PickUp == MarkTo(ups)

\* Broken on purpose: the last poll does not end the loop.
PickDownForever ==
  /\ pick = "down"
  /\ IF downs > dn
       THEN dn' = downs /\ picked' = cur /\ pick' = "off" /\ UNCHANGED t
       ELSE t' = (t % PickTimeout) + 1 /\ pick' = "up" /\ UNCHANGED <<dn, picked>>
  /\ UNCHANGED <<step, keysOk, matches, ups, downs, up, cur, aimed, raced, base,
                 fileVars, presses>>

\* DOWN takes the current item; the last poll takes it as well.
PickDown ==
  /\ pick = "down"
  /\ IF downs > dn
       THEN dn' = downs /\ picked' = cur /\ pick' = "off" /\ UNCHANGED t
       ELSE /\ t' = t + 1 /\ UNCHANGED dn
            /\ IF t < PickTimeout THEN pick' = "up" /\ UNCHANGED picked
                                  ELSE pick' = "off" /\ picked' = cur
  /\ UNCHANGED <<step, keysOk, matches, ups, downs, up, cur, aimed, raced, base,
                 fileVars, presses>>

-----------------------------------------------------------------------------
(* on_install: what the choices leave behind *)

With(condition, file) == IF condition THEN files \cup {file} ELSE files

ChosePiano ==
  /\ step = "piano" /\ picked # 0
  /\ files' = With(picked = 1, "enable_piano")
  /\ step' = "driver" /\ picked' = 0
  /\ UNCHANGED <<pick, keysOk, matches, menuVars, algo, confAlgo, presses>>

\* Skipping the driver skips the third menu.
ChoseDriver ==
  /\ step = "driver" /\ picked # 0
  /\ picked' = 0
  /\ IF picked = 1
       THEN files' = files \cup {"enable_zram"} /\ step' = "algo" /\ UNCHANGED algo
       ELSE /\ algo' = "default" /\ step' = "finish"
            /\ files' = files \ {"system_ext"}
  /\ UNCHANGED <<pick, keysOk, matches, menuVars, confAlgo, presses>>

\* Broken on purpose: "default" leaves the module's perfinit.conf behind.
ChoseAlgoKeeping ==
  /\ step = "algo" /\ picked # 0
  /\ algo' = CASE picked = 1 -> "lz4" [] picked = 2 -> "zstd" [] OTHER -> "default"
  /\ IF picked \in {1, 2} THEN confAlgo' = algo' ELSE UNCHANGED confAlgo
  /\ step' = "finish" /\ picked' = 0
  /\ UNCHANGED <<pick, keysOk, matches, menuVars, files, presses>>

\* zram_algo and perfinit.conf get the same algorithm, or "default" and none.
ChoseAlgo ==
  /\ step = "algo" /\ picked # 0
  /\ algo' = CASE picked = 1 -> "lz4" [] picked = 2 -> "zstd" [] OTHER -> "default"
  /\ IF picked \in {1, 2}
       THEN confAlgo' = algo' /\ UNCHANGED files
       ELSE files' = files \ {"system_ext"} /\ UNCHANGED confAlgo
  /\ step' = "finish" /\ picked' = 0
  /\ UNCHANGED <<pick, keysOk, matches, menuVars, presses>>

\* The end of customize.sh.
Finish ==
  /\ step = "finish"
  /\ step' = "done"
  /\ files' = IF "enable_zram" \in files THEN files ELSE files \ {"system_ext"}
  /\ UNCHANGED <<pick, keysOk, matches, menuVars, picked, algo, confAlgo, presses>>

Ended == step \in {"done", "aborted"} /\ UNCHANGED vars

PickStep == PickBegin \/ PickBaseUp \/ PickBaseDown \/ PickUp \/ PickDown
Script == Gate \/ PickStep \/ ChosePiano \/ ChoseDriver \/ ChoseAlgo \/ Finish
Next == Script \/ PressUp \/ PressDown \/ Ended

Init ==
  /\ step = "gate" /\ pick = "off"
  /\ keysOk \in BOOLEAN /\ matches \in BOOLEAN
  /\ ups = 0 /\ downs = 0 /\ up = 0 /\ dn = 0
  /\ cur = 1 /\ t = 1 /\ picked = 0
  /\ files = {"system_ext"} /\ algo = "none" /\ confAlgo = "lz4"
  /\ presses = 0 /\ aimed = 0 /\ raced = FALSE /\ base = 0

\* The installer runs; nobody is obliged to press a key.
Spec == Init /\ [][Next]_vars /\ WF_vars(Script)

-----------------------------------------------------------------------------
(* Properties. *)

\* Every variable keeps to its type; in particular the mark stays in the menu.
TypeOK ==
  /\ step \in Menus \cup {"gate", "finish", "done", "aborted"}
  /\ pick \in {"off", "base_up", "base_dn", "up", "down"}
  /\ keysOk \in BOOLEAN /\ matches \in BOOLEAN /\ raced \in BOOLEAN
  /\ {ups, downs, up, dn, base, presses} \subseteq 0..MaxPresses
  /\ step \in Menus => {cur, picked, aimed} \subseteq 0..Options(step) /\ cur # 0
  /\ t \in 1..(PickTimeout + 1)
  /\ files \subseteq {"enable_piano", "enable_zram", "system_ext"}
  /\ algo \in {"none", "lz4", "zstd", "default"}
  /\ confAlgo \in {"lz4", "zstd"}

Chooses == picked = 0 /\ picked' # 0

\* customize.sh:19, "down confirms": whenever a DOWN was pressed in a menu, the
\* choice is the item that was marked when it was pressed, unless an UP came
\* with it that the loop had not read yet; pressed between two polls or on
\* the last one, it makes no difference.
ConfirmsAimed ==
  [][Chooses /\ aimed # 0 /\ ~raced => picked' = aimed]_vars

\* The mark has moved once for every UP since the menu's first count, however
\* the presses fall into the polls and however often they go round the menu.
EveryUpCounts ==
  pick \in {"up", "down"} => cur = ((up - base) % Options(step)) + 1

\* A finished installation is of one piece: system_ext is there exactly when
\* zram_algo names an algorithm, the drivers are enabled then, and
\* perfinit.conf names the same algorithm.
InstallConsistent ==
  step = "done" =>
    /\ "system_ext" \in files <=> algo \in {"lz4", "zstd"}
    /\ algo \in {"lz4", "zstd"} => "enable_zram" \in files /\ confAlgo = algo

\* Whatever keys are pressed, or none, the installation comes to its end.
InstallEnds == <>(step \in {"done", "aborted"})
=============================================================================
