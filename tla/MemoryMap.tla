----------------------------- MODULE MemoryMap -----------------------------
(***************************************************************************)
(* The memory map of the TI-83 Plus SE and TI-84 Plus: the pages in the    *)
(* four banks, the second set of banks of the boot map, which the map      *)
(* pointer `banks` may select instead, what code may be fetched from, and  *)
(* the ports by which a program changes all this.  The user may reset the  *)
(* calculator, save its state and load it again.                           *)
(*                                                                         *)
(* A place in memory is a bank and one of its 256 chunks of 64 bytes.  An  *)
(* instruction is a Fetch and then either an output to a port or a Jump,   *)
(* which stands for all that does not touch the map.                       *)
(***************************************************************************)
EXTENDS Integers

CONSTANTS FlashPages, RamPages, FlashVersion,
          Model84,       \* model >= TI_84P
          FlashLower,    \* the limits at power-on
          FlashUpper,
          Places,        \* where the program may be
          Selects,       \* the bytes it sends to ports 5, 6 and 7
          Bounds,        \* ... to ports 22, 23, 25 and 26
          Chunks,        \* ... to ports 27 and 28
          MaxOutputs     \* bound on the outputs

Bank == 0 .. 3

Place == Bank \X (0 .. 255)

Page == [page : Nat, ram : BOOLEAN]

ASSUME MapAssumption ==
  /\ FlashPages \in 2 .. 128 /\ RamPages \in 1 .. 8 /\ FlashVersion \in 0 .. 3
  /\ Model84 \in BOOLEAN
  /\ FlashLower \in 0 .. 255 /\ FlashUpper \in 0 .. 255
  /\ Places \subseteq Place /\ <<0, 0>> \in Places
  /\ Selects \subseteq 0 .. 255 /\ Bounds \subseteq 0 .. 255 /\ Chunks \subseteq 0 .. 255
  /\ MaxOutputs \in Nat

VARIABLES normal,     \* normal_banks
          boot,       \* bootmap_banks
          bootMapped, \* boot_mapped, and with it where banks points
          changed0,   \* hasChangedPage0
          locked,     \* flash_locked
          prot,       \* what may be executed
          remap,      \* the chunks remapped by ports 27 and 28
          pc,
          op,         \* where the instruction under way came from, if any is
          saved,      \* the saved states
          outputs

vars == <<normal, boot, bootMapped, changed0, locked, prot, remap, pc, op, saved, outputs>>

machine == <<normal, boot, bootMapped, changed0, locked, prot, remap>>

-----------------------------------------------------------------------------
Flash(p) == [page |-> p, ram |-> FALSE]

Ram(p) == [page |-> p, ram |-> TRUE]

BootPage == FlashPages - 1

PowerOnBanks ==
  [b \in Bank |-> IF b = 0 THEN Flash(BootPage) ELSE IF b = 3 THEN Ram(0) ELSE Flash(0)]

(* update_bootmap_pages: bank 1 is the even page of port 6's pair, bank 2  *)
(* port 6's page, bank 3 port 7's page.                                    *)
BootMap(n) ==
  LET odd == IF FlashVersion = 0 /\ n[1].page % 2 = 0 THEN 1 ELSE 0
  IN  [b \in Bank |->
         IF b = 0 THEN n[0]
         ELSE IF b = 1 THEN [n[1] EXCEPT !.page = @ - (@ % 2)]
         ELSE IF b = 2 THEN [n[1] EXCEPT !.page = @ + odd]
         ELSE n[2]]

(* What the processor sees. *)
Map == IF bootMapped THEN boot ELSE normal

Privileged(m) ==
  /\ ~m.ram
  /\ \/ m.page >= FlashPages - 4 /\ m.page # FlashPages - 2
     \/ Model84 /\ m.page = FlashPages - 17

(* The RAM page and the chunk behind a place, remapped chunks included.    *)
(* Chunks from 238 on are those that begin at 0xFB64 or above.             *)
Behind(m, p) ==
  LET b == p[1]
      c == p[2]
  IN  CASE ~bootMapped /\ b = 3 /\ c >= 256 - remap[27] /\ c >= 238 -> 0
        [] ~bootMapped /\ b = 2 /\ c < remap[28]                    -> 1
        [] OTHER                                                    -> m.page

(* is_allowed_exec for a bank that holds m; limits in units of 1K *)
Allowed(m, p) ==
  IF ~m.ram
    THEN \/ m.page <= prot.flashLower
         \/ prot.enabled
         \/ ~prot.disabled /\ m.page > prot.flashUpper
         \/ Privileged(m)
    ELSE \/ 2 \div (2^(prot.mode + 1)) = 1 /\ m.page % 2 = 1
         \/ 16 * Behind(m, p) + p[2] \div 16 \in prot.ramLower .. prot.ramUpper

PowerOnProt ==
  [flashLower |-> FlashLower, flashUpper |-> FlashUpper, ramLower |-> 0, ramUpper |-> 0,
   enabled |-> FALSE, disabled |-> FALSE, mode |-> 0]

NoRemap == [p \in {27, 28} |-> 0]

Init ==
  /\ normal = PowerOnBanks
  /\ boot = BootMap(PowerOnBanks)
  /\ bootMapped = FALSE /\ changed0 = FALSE
  /\ locked = TRUE
  /\ prot = PowerOnProt
  /\ remap = NoRemap
  /\ pc = <<0, 0>> /\ op = {}
  /\ saved = {}
  /\ outputs = 0

-----------------------------------------------------------------------------
(* The boot map is left as it was. *)
StaleChange(b, m) == normal' = [normal EXCEPT ![b] = m] /\ boot' = boot

change_page(b, m) ==
  /\ normal' = [normal EXCEPT ![b] = m]
  /\ boot' = BootMap(normal')

(* Only the banks and the map pointer are put back, not the pc. *)
WrongReset ==
  /\ normal' = PowerOnBanks
  /\ bootMapped' = FALSE /\ changed0' = FALSE
  /\ prot' = [prot EXCEPT !.ramLower = 0, !.ramUpper = 0]
  /\ remap' = NoRemap
  /\ UNCHANGED <<pc, locked>>

(* The flag is not cleared. *)
FlagKeptReset ==
  /\ normal' = PowerOnBanks
  /\ bootMapped' = FALSE /\ changed0' = changed0
  /\ prot' = [prot EXCEPT !.ramLower = 0, !.ramUpper = 0]
  /\ remap' = NoRemap
  /\ pc' = <<0, 0>>
  /\ UNCHANGED locked

(* CPU_reset does not lock the flash, lift the limits of port 24 or look   *)
(* at the boot map.                                                        *)
CPU_reset ==
  /\ normal' = PowerOnBanks
  /\ bootMapped' = FALSE /\ changed0' = FALSE
  /\ prot' = [prot EXCEPT !.ramLower = 0, !.ramUpper = 0]
  /\ remap' = NoRemap
  /\ pc' = <<0, 0>>
  /\ UNCHANGED locked

(* The program counter stays in the chunk or goes on to the next. *)
Onward(p) == {p, IF p[2] = 255 THEN <<(p[1] + 1) % 4, 0>> ELSE <<p[1], p[2] + 1>>}

(***************************************************************************)
(* CPU_opcode_fetch.  The first opcode fetched from port 6's page puts     *)
(* page 0 in the place of the boot page.  One fetched from a place that    *)
(* may not be executed resets the processor, and what is at 0 then is      *)
(* fetched instead.                                                        *)
(***************************************************************************)
Fetch ==
  /\ op = {}
  /\ LET b       == pc[1]
         m       == Map[b]
         touches == ~changed0 /\ ~m.ram /\ b \in (IF bootMapped THEN {1, 2} ELSE {1})
         n       == IF touches THEN [normal EXCEPT ![0] = Flash(0)] ELSE normal
     IN  /\ boot' = IF touches THEN BootMap(n) ELSE boot
         /\ IF Allowed(m, pc)
              THEN /\ normal' = n
                   /\ changed0' = (changed0 \/ touches)
                   /\ op' = {pc}
                   /\ pc' \in Onward(pc) \cap Places
                   /\ UNCHANGED <<bootMapped, locked, prot, remap>>
              ELSE CPU_reset /\ op' = {pc'}
  /\ UNCHANGED <<saved, outputs>>

(* Any other instruction goes on somewhere. *)
Jump ==
  /\ op # {} /\ op' = {}
  /\ pc' \in Places
  /\ UNCHANGED <<machine, saved, outputs>>

(* device_output: an output goes to the port's handler. *)
Output ==
  /\ op # {} /\ op' = {}
  /\ outputs < MaxOutputs /\ outputs' = outputs + 1
  /\ UNCHANGED <<pc, saved>>

(* A protected port's handler is not called while the flash is locked. *)
Protected == Output /\ ~locked

port4(set) ==
  /\ Output
  /\ bootMapped' = set
  /\ boot' = IF set THEN BootMap(normal) ELSE boot
  /\ UNCHANGED <<normal, changed0, locked, prot, remap>>

port5(d) ==
  /\ Output
  /\ change_page(3, Ram((d % 128) % RamPages))
  /\ UNCHANGED <<bootMapped, changed0, locked, prot, remap>>

(* Bit 7 chooses RAM; the page is not brought into range. *)
WrongSelected(d) == IF d >= 128 THEN Ram(d % 128) ELSE Flash(d)

Selected(d) == IF d >= 128 THEN Ram((d % 128) % RamPages) ELSE Flash(d % FlashPages)

port6(d) ==
  /\ Output
  /\ change_page(1, Selected(d))
  /\ UNCHANGED <<bootMapped, changed0, locked, prot, remap>>

port7(d) ==
  /\ Output
  /\ change_page(2, Selected(d))
  /\ UNCHANGED <<bootMapped, changed0, locked, prot, remap>>

(* Heeded only from a privileged page: the one pc is in by now. *)
port14(unlock) ==
  /\ Output
  /\ locked' = IF Privileged(Map[pc[1]]) THEN ~unlock ELSE locked
  /\ UNCHANGED <<normal, boot, bootMapped, changed0, prot, remap>>

Protect(p) ==
  /\ Protected
  /\ prot' = p
  /\ UNCHANGED <<normal, boot, bootMapped, changed0, locked, remap>>

port21(m) == Protect([prot EXCEPT !.mode = m])

port22(d) == Protect([prot EXCEPT !.flashLower = d])

port23(d) == Protect([prot EXCEPT !.flashUpper = d])

port24(e, d) == Protect([prot EXCEPT !.enabled = e, !.disabled = d])

(* The limits in bytes are 16 bits wide: 64K is 0. *)
port25(d) == Protect([prot EXCEPT !.ramLower = d % 64])

port26(d) == Protect([prot EXCEPT !.ramUpper = d % 64])

port_chunk_remap(p, d) ==
  /\ Output
  /\ remap' = [remap EXCEPT ![p] = d]
  /\ UNCHANGED <<normal, boot, bootMapped, changed0, locked, prot>>

(* Between two instructions the user resets, saves or loads. *)
calc_reset ==
  /\ op = {} /\ CPU_reset
  /\ UNCHANGED <<boot, op, saved, outputs>>

(* What SaveSlot saves, and (seen) the map the program saw. *)
SaveSlot ==
  /\ op = {} /\ saved = {}
  /\ saved' = {[normal |-> normal, bootMapped |-> bootMapped, locked |-> locked,
                prot |-> prot, remap |-> remap, pc |-> pc, seen |-> Map]}
  /\ UNCHANGED <<machine, pc, op, outputs>>

(* The boot map is not made again. *)
WrongLoad(s, b) ==
  /\ normal' = s.normal
  /\ bootMapped' = s.bootMapped
  /\ boot' = b
  /\ locked' = s.locked /\ remap' = s.remap /\ pc' = s.pc

Load(s, b) ==
  /\ normal' = s.normal
  /\ bootMapped' = s.bootMapped
  /\ boot' = IF s.bootMapped THEN BootMap(s.normal) ELSE b
  /\ locked' = s.locked /\ remap' = s.remap /\ pc' = s.pc

(* The modes of ports 21 and 24 are not in a saved state. *)
Restored(p, s) ==
  [p EXCEPT !.flashLower = s.prot.flashLower, !.flashUpper = s.prot.flashUpper,
            !.ramLower = s.prot.ramLower, !.ramUpper = s.prot.ramUpper]

(* LoadSlot into the calculator as it is (restore_backup, which only a   *)
(* build with WITH_BACKUPS has)                                          *)
Restore(s) ==
  /\ op = {} /\ Load(s, boot)
  /\ prot' = Restored(prot, s)
  /\ UNCHANGED <<changed0, op, saved, outputs>>

(* LoadSlot into one that rom_load has just made *)
Open(s) ==
  /\ op = {} /\ Load(s, BootMap(PowerOnBanks))
  /\ prot' = Restored(PowerOnProt, s)
  /\ changed0' = FALSE
  /\ UNCHANGED <<op, saved, outputs>>

Next ==
  \/ Fetch \/ Jump
  \/ \E x \in BOOLEAN : port4(x) \/ port14(x)
  \/ \E d \in Selects : port5(d) \/ port6(d) \/ port7(d)
  \/ \E m \in 0 .. 3 : port21(m)
  \/ \E d \in Bounds : port22(d) \/ port23(d) \/ port25(d) \/ port26(d)
  \/ \E e, d \in BOOLEAN : port24(e, d)
  \/ \E p \in {27, 28}, d \in Chunks : port_chunk_remap(p, d)
  \/ calc_reset
  \/ SaveSlot
  \/ \E s \in saved : Restore(s) \/ Open(s)

Spec == Init /\ [][Next]_vars

-----------------------------------------------------------------------------
Banks == [Bank -> [page : 0 .. 127, ram : BOOLEAN]]

InRange(n) == \A b \in Bank : n[b].page < IF n[b].ram THEN RamPages ELSE FlashPages

Prot == [flashLower : 0 .. 255, flashUpper : 0 .. 255, ramLower : 0 .. 63,
         ramUpper : 0 .. 63, enabled : BOOLEAN, disabled : BOOLEAN, mode : 0 .. 3]

TypeOK ==
  /\ normal \in Banks /\ InRange(normal)
  /\ boot \in Banks
  /\ bootMapped \in BOOLEAN /\ changed0 \in BOOLEAN /\ locked \in BOOLEAN
  /\ prot \in Prot
  /\ remap \in [{27, 28} -> 0 .. 255]
  /\ pc \in Places /\ op \in SUBSET Places
  /\ \A s \in saved : s.normal \in Banks /\ InRange(s.normal)
  /\ outputs \in 0 .. MaxOutputs

(***************************************************************************)
(* While the processor sees the boot map it sees the pages the ports       *)
(* select: bootmap_banks is a copy that every change of normal_banks, and  *)
(* every way into the boot map, must make again.                           *)
(***************************************************************************)
MapsAgree == bootMapped => boot = BootMap(normal)

(***************************************************************************)
(* No opcode comes from where none may be executed: not after the fetch    *)
(* changed bank 0 itself, and not after it reset the processor, when it    *)
(* goes on to fetch at 0 without another look.                             *)
(***************************************************************************)
NoForbiddenCode == \A p \in op : Allowed(Map[p[1]], p)

(***************************************************************************)
(* A program finds the memory it saw when its state was saved, whatever    *)
(* was mapped in between and into whichever slot it is loaded.             *)
(***************************************************************************)
SavedMapReturns ==
  [][\A s \in saved : Restore(s) \/ Open(s) => Map' = s.seen]_vars

(* The flag tells whether the boot code is still mapped at 0. *)
BootcodeFlag == changed0 <=> normal[0] # Flash(BootPage)

(***************************************************************************)
(* hasChangedPage0 and page 0 itself part company only when a state is     *)
(* loaded, which neither holds the flag nor leaves page 0 alone: no        *)
(* sequence of fetches, page switches, maps and resets does it.            *)
(***************************************************************************)
FlagFollowsPage0 ==
  [][BootcodeFlag => BootcodeFlag' \/ \E s \in saved : Restore(s) \/ Open(s)]_vars

=============================================================================
