---------------------------- MODULE InstallerProofs ----------------------------
(***************************************************************************)
(* Proofs about the installer, for every timeout and any number of presses. *)
(***************************************************************************)
EXTENDS Installer, TLAPS

-----------------------------------------------------------------------------
(* The inductive invariant. *)

Counting == pick \in {"up", "down"}

\* A menu is open only while nothing is picked, and a choice waits in its menu.
MenuInv ==
  /\ step \in Menus \cup {"gate", "finish", "done", "aborted"}
  /\ pick \in {"off", "base_up", "base_dn", "up", "down"}
  /\ keysOk \in BOOLEAN /\ matches \in BOOLEAN /\ raced \in BOOLEAN
  /\ pick # "off" => step \in Menus /\ picked = 0 /\ keysOk
  /\ step \in {"gate", "piano", "driver"} =>
       cur \in 1..2 /\ picked \in 0..2 /\ aimed \in 0..2
  /\ step = "algo" => cur \in 1..3 /\ picked \in 0..3 /\ aimed \in 0..3
  /\ t \in 1..(PickTimeout + 1)
  /\ pick # "off" => t <= PickTimeout

\* The counts that the loop has dealt with never pass those of the capture file.
CountInv ==
  /\ ups \in Nat /\ downs \in Nat /\ up \in Nat /\ dn \in Nat /\ base \in Nat
  /\ presses \in 0..MaxPresses /\ ups <= presses /\ downs <= presses
  /\ up <= presses /\ dn <= presses /\ base <= presses
  /\ pick \in {"base_dn", "up", "down"} => base <= up /\ up <= ups
  /\ pick \in {"base_up", "base_dn"} => cur = 1 /\ aimed = 0
  /\ pick = "base_dn" => up = base
  /\ Counting => cur = ((up - base) % Options(step)) + 1

\* Until an UP comes in between, the mark stays where the DOWN found it.
AimInv ==
  /\ ~keysOk => aimed = 0
  /\ Counting /\ aimed # 0 /\ ~raced => cur = aimed /\ ups = up

\* What each menu leaves behind for the next.
FilesInv ==
  /\ files \subseteq {"enable_piano", "enable_zram", "system_ext"}
  /\ algo \in {"none", "lz4", "zstd", "default"}
  /\ confAlgo \in {"lz4", "zstd"}
  /\ step \in {"gate", "piano", "driver", "algo"} => "system_ext" \in files
  /\ step = "algo" => "enable_zram" \in files
  /\ step \in {"finish", "done"} =>
       \/ {"enable_zram", "system_ext"} \subseteq files
          /\ algo \in {"lz4", "zstd"} /\ confAlgo = algo
       \/ "system_ext" \notin files /\ algo = "default"

InstallerInv == MenuInv /\ CountInv /\ AimInv /\ FilesInv

-----------------------------------------------------------------------------
(* The mark. *)

\* Moving on by d from where n presses have led is where n + d presses lead.
LEMMA MarkMoves ==
  ASSUME NEW m, NEW n \in Nat, NEW d \in Nat, NEW c, c = (n % Options(m)) + 1
  PROVE  /\ ((c - 1 + d) % Options(m)) + 1 = ((n + d) % Options(m)) + 1
         /\ ((n + d) % Options(m)) + 1 \in 1..Options(m)
<1>1. CASE m = "algo"
  BY <1>1 DEF Options
<1>2. CASE m # "algo"
  BY <1>2 DEF Options
<1>3. QED
  BY <1>1, <1>2

\* No press, no move.
LEMMA MarkStays ==
  ASSUME NEW m, NEW c \in 1..Options(m)
  PROVE  ((c - 1 + 0) % Options(m)) + 1 = c
<1>1. CASE m = "algo"
  BY <1>1 DEF Options
<1>2. CASE m # "algo"
  BY <1>2 DEF Options
<1>3. QED
  BY <1>1, <1>2

-----------------------------------------------------------------------------
(* Every step keeps the invariant. *)

\* A key press between any two steps of the script keeps the invariant.
LEMMA PressInv == InstallerInv /\ (PressUp \/ PressDown) => InstallerInv'
<1> SUFFICES ASSUME InstallerInv, PressUp \/ PressDown PROVE InstallerInv'
  OBVIOUS
<1> USE DEF InstallerInv, Counting
<1>1. MenuInv'
  <2>1. raced' \in BOOLEAN
    <3>1. CASE PressUp
      BY <3>1, Zenon DEF PressUp
    <3>2. CASE PressDown
      <4>1. raced' = raced \/ raced' = (ups > up)
        BY <3>2 DEF PressDown
      <4>2. (ups > up) = TRUE \/ (ups > up) = FALSE
        BY DEF CountInv
      <4>3. raced \in BOOLEAN
        BY DEF MenuInv
      <4>4. QED
        BY <4>1, <4>2, <4>3
    <3>3. QED
      BY <3>1, <3>2
  <2>2. UNCHANGED <<step, pick, keysOk, matches, cur, picked, t>>
    BY DEF PressUp, PressDown
  <2>3. aimed' = aimed \/ aimed' = cur
    BY DEF PressUp, PressDown
  <2>4. QED
    BY <2>1, <2>2, <2>3 DEF MenuInv
<1>2. CountInv'
  <2>1. /\ ups' \in Nat /\ downs' \in Nat /\ presses' \in 0..MaxPresses
        /\ presses' >= presses /\ ups' >= ups /\ ups' <= presses' /\ downs' <= presses'
    BY PressesAssumption DEF PressUp, PressDown, CountInv
  <2>2. UNCHANGED <<step, pick, cur, up, dn, base>>
    BY DEF PressUp, PressDown
  <2>3. pick \in {"base_up", "base_dn"} => aimed' = 0
    BY DEF PressUp, PressDown, CountInv
  <2>4. pick \in {"base_dn", "up", "down"} => base <= up /\ up <= ups'
    BY <2>1 DEF CountInv
  <2>5. up <= presses' /\ dn <= presses' /\ base <= presses'
    BY <2>1 DEF CountInv
  <2>6. QED
    BY <2>1, <2>2, <2>3, <2>4, <2>5 DEF CountInv
<1>3. AimInv'
  BY DEF PressUp, PressDown, MenuInv, CountInv, AimInv
<1>4. FilesInv'
  BY DEF PressUp, PressDown, FilesInv, fileVars
<1>5. QED
  BY <1>1, <1>2, <1>3, <1>4

\* Every step of pick_option keeps the invariant.
LEMMA PickInv == InstallerInv /\ PickStep => InstallerInv'
<1> SUFFICES ASSUME InstallerInv, PickStep PROVE InstallerInv'
  OBVIOUS
<1> USE DEF InstallerInv, Counting, MenuInv, CountInv, AimInv, FilesInv
<1>1. CASE PickBegin
  <2>1. MenuInv'
    <3>1. keysOk' \in BOOLEAN /\ matches' \in BOOLEAN /\ raced' \in BOOLEAN
      BY <1>1 DEF PickBegin
    <3>2. t' \in 1..(PickTimeout + 1) /\ t' <= PickTimeout
      BY <1>1, TimeoutAssumption DEF PickBegin
    <3>3. /\ step' = step /\ step \in Menus /\ cur' = 1 /\ aimed' = 0
          /\ \/ pick' = "base_up" /\ keysOk' /\ picked' = 0
             \/ pick' = "off" /\ picked' = 1
      BY <1>1, Zenon DEF PickBegin
    <3>4. QED
      BY <3>1, <3>2, <3>3 DEF Menus
  <2>2. CountInv'
    BY <1>1 DEF PickBegin, Menus
  <2>3. AimInv' /\ FilesInv'
    BY <1>1 DEF PickBegin, fileVars, Menus
  <2>4. QED
    BY <2>1, <2>2, <2>3
<1>2. CASE PickBaseUp
  <2>1. MenuInv'
    BY <1>2 DEF PickBaseUp, Menus
  <2>2. CountInv' /\ AimInv' /\ FilesInv'
    BY <1>2 DEF PickBaseUp, fileVars
  <2>3. QED
    BY <2>1, <2>2
<1>6. CASE PickBaseDown
  <2>1. ((up - base) % Options(step)) + 1 = 1
    BY <1>6 DEF PickBaseDown, Options
  <2>2. MenuInv'
    BY <1>6 DEF PickBaseDown, Menus
  <2>3. CountInv' /\ AimInv' /\ FilesInv'
    BY <1>6, <2>1 DEF PickBaseDown, fileVars
  <2>4. QED
    BY <2>2, <2>3
<1>3. CASE PickUp
  <2>1. /\ up \in Nat /\ ups \in Nat /\ base \in Nat /\ base <= up /\ up <= ups
        /\ cur = ((up - base) % Options(step)) + 1
        /\ step \in Menus /\ step' = step /\ cur \in 1..Options(step)
    BY <1>3 DEF PickUp, MarkTo, Menus, Options
  <2>2. cur' = ((ups - base) % Options(step)) + 1 /\ cur' \in 1..Options(step)
    <3>1. up - base \in Nat /\ ups - up \in Nat /\ up - base + (ups - up) = ups - base
      BY <2>1
    <3>2. cur' = ((cur - 1 + (ups - up)) % Options(step)) + 1
      BY <1>3 DEF PickUp, MarkTo
    <3>3. QED
      BY <2>1, <3>1, <3>2, MarkMoves
  <2>3. ups = up => cur' = cur
    BY <1>3, <2>1, MarkStays DEF PickUp, MarkTo
  <2>4. QED
    BY <1>3, <2>1, <2>2, <2>3 DEF PickUp, MarkTo, fileVars, Menus, Options
<1>4. CASE PickDown
  BY <1>4, TimeoutAssumption DEF PickDown, fileVars, Menus, Options
<1>5. QED
  BY <1>1, <1>2, <1>3, <1>4, <1>6 DEF PickStep

\* Every step between two menus keeps the invariant.
LEMMA ChoiceInv ==
  InstallerInv /\ (Gate \/ ChosePiano \/ ChoseDriver \/ ChoseAlgo \/ Finish) => InstallerInv'
<1> SUFFICES ASSUME InstallerInv, Gate \/ ChosePiano \/ ChoseDriver \/ ChoseAlgo \/ Finish
             PROVE  InstallerInv'
  OBVIOUS
<1> USE DEF InstallerInv, Counting, MenuInv, CountInv, AimInv, FilesInv, menuVars, fileVars
<1>1. CASE Gate
  BY <1>1 DEF Gate, Menus
<1>2. CASE ChosePiano
  BY <1>2 DEF ChosePiano, With, Menus
<1>3. CASE ChoseDriver
  <2>1. MenuInv' /\ CountInv' /\ AimInv'
    BY <1>3 DEF ChoseDriver, Menus
  <2>2. FilesInv'
    BY <1>3 DEF ChoseDriver
  <2>3. QED
    BY <2>1, <2>2
<1>4. CASE ChoseAlgo
  BY <1>4 DEF ChoseAlgo, Menus
<1>5. CASE Finish
  BY <1>5 DEF Finish, Menus
<1>6. QED
  BY <1>1, <1>2, <1>3, <1>4, <1>5

-----------------------------------------------------------------------------
(* The theorems. *)

\* The invariant holds however the presses fall between the polls.
THEOREM InstallerInvariant == Spec => []InstallerInv
<1>1. Init => InstallerInv
  <2> SUFFICES ASSUME Init PROVE InstallerInv
    OBVIOUS
  <2>1. MenuInv
    <3>1. keysOk \in BOOLEAN /\ matches \in BOOLEAN /\ raced \in BOOLEAN
      BY DEF Init
    <3>2. t \in 1..(PickTimeout + 1)
      BY TimeoutAssumption DEF Init
    <3>3. step = "gate" /\ pick = "off" /\ cur = 1 /\ aimed = 0 /\ picked = 0
      BY DEF Init
    <3>4. QED
      BY <3>1, <3>2, <3>3 DEF MenuInv, Menus
  <2>2. CountInv
    BY PressesAssumption DEF Init, CountInv, Counting
  <2>3. AimInv /\ FilesInv
    BY DEF Init, AimInv, FilesInv, Counting
  <2>4. QED
    BY <2>1, <2>2, <2>3 DEF InstallerInv
<1>2. InstallerInv /\ [Next]_vars => InstallerInv'
  <2>1. InstallerInv /\ UNCHANGED vars => InstallerInv'
    BY DEF vars, menuVars, fileVars, InstallerInv, Counting, MenuInv, CountInv, AimInv, FilesInv
  <2>2. QED
    BY <2>1, PressInv, PickInv, ChoiceInv DEF Next, Script, Ended
<1>3. QED
  BY <1>1, <1>2, PTL DEF Spec

\* Every variable keeps to its type; the mark stays in the menu.
THEOREM InstallerTypeCorrect == Spec => []TypeOK
<1>1. InstallerInv => TypeOK
  BY PressesAssumption DEF InstallerInv, MenuInv, CountInv, FilesInv, TypeOK, Menus, Options
<1>2. QED
  BY <1>1, InstallerInvariant, PTL

\* The mark moves once for every UP since the menu's first count.
THEOREM EveryUpIsCounted == Spec => []EveryUpCounts
<1>1. InstallerInv => EveryUpCounts
  BY DEF InstallerInv, CountInv, Counting, EveryUpCounts
<1>2. QED
  BY <1>1, InstallerInvariant, PTL

\* A finished installation is of one piece.
THEOREM InstallIsConsistent == Spec => []InstallConsistent
<1>1. InstallerInv => InstallConsistent
  BY DEF InstallerInv, FilesInv, InstallConsistent
<1>2. QED
  BY <1>1, InstallerInvariant, PTL

\* DOWN confirms the item that was marked when it was pressed.
THEOREM DownConfirmsAimed == Spec => ConfirmsAimed
<1> DEFINE Aimed == Chooses /\ aimed # 0 /\ ~raced => picked' = aimed
<1>1. InstallerInv /\ [Next]_vars => [Aimed]_vars
  <2> SUFFICES ASSUME InstallerInv, Next, Chooses, aimed # 0, ~raced
               PROVE  picked' = aimed
    BY DEF vars
  <2>1. CASE PickStep
    BY <2>1 DEF PickStep, PickBegin, PickBaseUp, PickBaseDown, PickUp, MarkTo, PickDown,
         Chooses, InstallerInv, AimInv, Counting
  <2>2. CASE ~PickStep
    BY <2>2 DEF Next, Script, Gate, ChosePiano, ChoseDriver, ChoseAlgo, Finish, PressUp,
         PressDown, Ended, vars, Chooses
  <2>3. QED
    BY <2>1, <2>2
<1>2. QED
  BY <1>1, InstallerInvariant, PTL DEF Spec, ConfirmsAimed
=============================================================================
