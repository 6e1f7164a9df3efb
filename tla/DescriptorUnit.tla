--------------------------- MODULE DescriptorUnit ---------------------------
(***************************************************************************)
(* The control registers and the descriptor file of Device_top.            *)
(*                                                                         *)
(* The host programs the device through ordinary memory traffic.  Writes   *)
(* to AIM_WORK_SIG and HPC_CLR_SIG switch it on or off and clear it.       *)
(* While it is on, a read of the next descriptor of the chain loads the    *)
(* descriptor into a slot, a write to the status word of a descriptor      *)
(* clears the oldest slot, and the address of every command on the bus is  *)
(* compared with the operand of every slot.  A descriptor may give its     *)
(* source address relative to one of three argument registers (indirect    *)
(* addressing).                                                            *)
(*                                                                         *)
(* Clock is one rising edge.  The module has no next-state relation of its *)
(* own: DeviceTop composes it with the request path that feeds it.         *)
(***************************************************************************)
EXTENDS Integers, Sequences

CONSTANTS SLOTS,        \* slots of the descriptor file: 8
          ADDR_SPACE    \* addresses are taken modulo this: 2^32

AIM_WORK_SIG      == 16384      \* 32'h0000_4000
HPC_CLR_SIG       == 20480      \* 32'h0000_5000
MM_INDIRECT_ARGS  == 4096       \* 32'h0000_1000
RSV_DESC_MEM_BASE == 8388608    \* 32'h0080_0000
RSV_DESC_MEM_SIZE == 8388608    \* 32'h0080_0000
DESC_STRIDE       == 64         \* 32'h0000_0040
STATUS_WORD       == 28         \* 6'b011100

Addr == 0..(ADDR_SPACE - 1)

\* PIM_INFO: bit 0 selects the operand address, bits 3:1 are the operand
\* types, the rest configures the banks.
NoInfo == [dst |-> FALSE, type |-> {}, config |-> 0]

\* A 256-bit word from memory, read as a descriptor.
ZeroWord == [indirect |-> FALSE, immediate |-> FALSE, register |-> FALSE,
             src |-> 0, dst |-> 0, size |-> 0, info |-> NoInfo]

EmptySlot == [src |-> 0, dst |-> 0, size |-> 0, info |-> NoInfo]

VARIABLES
  HPC_clear_sig,            \* the clear requested in the last cycle
  AIM_working,              \* the device is on
  next_desc_addr,           \* where the next descriptor is expected
  args_reg,                 \* args_reg_A, args_reg_B, args_reg_C
  indirect_r, indirect_rr,  \* [valid, addr]: is_indirect and
                            \*   indirect_addr_out, one and two cycles ago
  slot,                     \* PIM_{SRC_ADDR,DST_ADDR,SIZE,INFO}_from_desc_reg
  wr_ptr, clr_ptr           \* PIM_addr_match_wr_ptr, PIM_addr_match_clr_ptr

vars == <<HPC_clear_sig, AIM_working, next_desc_addr, args_reg,
          indirect_r, indirect_rr, slot, wr_ptr, clr_ptr>>

NoArgs == [A |-> 0, B |-> 0, C |-> 0]
NotIndirect == [valid |-> FALSE, addr |-> 0]

Init ==
  /\ HPC_clear_sig = FALSE
  /\ AIM_working = FALSE
  /\ next_desc_addr = 0
  /\ args_reg = NoArgs
  /\ indirect_r = NotIndirect /\ indirect_rr = NotIndirect
  /\ slot = [i \in 0..(SLOTS - 1) |-> EmptySlot]
  /\ wr_ptr = 0 /\ clr_ptr = 0

-----------------------------------------------------------------------------
(***************************************************************************)
(* What the command on the bus means, bus = [rd, wr, addr, args].          *)
(***************************************************************************)

\* The two sign bits diff_desc_addr0[32] and diff_desc_addr1[32].
InDescRange(a) ==
  /\ RSV_DESC_MEM_BASE <= a
  /\ a <= RSV_DESC_MEM_BASE + RSV_DESC_MEM_SIZE - 1

desc_incr_enable(a) == a = RSV_DESC_MEM_BASE \/ a = next_desc_addr

is_desc_range_incr(bus) ==
  /\ desc_incr_enable(bus.addr)
  /\ bus.addr % DESC_STRIDE = 0
  /\ AIM_working
  /\ InDescRange(bus.addr)
  /\ bus.rd

\* A defective variant: the status word is looked for four bytes too low.
is_desc_clr_WrongWord(bus) ==
  /\ bus.addr % DESC_STRIDE = STATUS_WORD - 4
  /\ AIM_working
  /\ InDescRange(bus.addr)
  /\ bus.wr

is_desc_clr(bus) ==
  /\ bus.addr % DESC_STRIDE = STATUS_WORD
  /\ AIM_working
  /\ InDescRange(bus.addr)
  /\ bus.wr

\* A defective variant: the end of the operand belongs to it.
InOperand_Inclusive(i, a) ==
  LET base_addr == IF slot[i].info.dst THEN slot[i].dst ELSE slot[i].src
  IN  base_addr <= a /\ a <= (base_addr + slot[i].size) % ADDR_SPACE

\* The address lies in the operand of slot i.  The end of the operand is
\* computed in 32 bits, as the code does.
InOperand(i, a) ==
  LET base_addr == IF slot[i].info.dst THEN slot[i].dst ELSE slot[i].src
      range == (base_addr + slot[i].size) % ADDR_SPACE
  IN  base_addr <= a /\ a <= range - 1

Matches(type, a) ==
  \E i \in 0..(SLOTS - 1) : type \in slot[i].info.type /\ InOperand(i, a)

srcA_pass(bus) == Matches("A", bus.addr) /\ bus.rd
srcB_pass(bus) == Matches("B", bus.addr) /\ bus.rd
dstC_pass(bus) == Matches("C", bus.addr) /\ bus.wr

\* What is queued with the command.
Tags(bus) == [addr |-> bus.addr,
              incr |-> is_desc_range_incr(bus), clr |-> is_desc_clr(bus),
              A |-> srcA_pass(bus), B |-> srcB_pass(bus)]

-----------------------------------------------------------------------------
(***************************************************************************)
(* Indirect addressing.  is_read_descr says that the command at the head   *)
(* of the queue reads a descriptor; w is the word on the memory's data     *)
(* bus in this cycle, valid or not.                                        *)
(***************************************************************************)
indirect_addr(is_read_descr, w) ==
  LET on == is_read_descr /\ AIM_working
      is_offset_immediate == on /\ w.immediate
      is_offset_register == on /\ w.register
      is_desc_A == w.info.dst               \* current_pim_opcode[0]
      is_desc_B == "A" \in w.info.type      \* current_pim_opcode[1]
      is_desc_C == "B" \in w.info.type      \* current_pim_opcode[2]
      base_in == IF is_offset_immediate /\ is_desc_A THEN args_reg.A
                 ELSE IF (is_offset_immediate \/ is_offset_register)
                         /\ is_desc_B THEN args_reg.B
                 ELSE IF is_offset_immediate /\ is_desc_C THEN args_reg.C
                 ELSE 0
      offset_in == IF is_offset_immediate \/ is_offset_register
                   THEN w.src ELSE 0
  IN  [valid |-> on /\ w.indirect, addr |-> (base_in + offset_in) % ADDR_SPACE]

\* A defective variant: the address of the cycle before the descriptor's.
Loaded_OneCycleLate(w) ==
  [src |-> IF indirect_r.valid THEN indirect_r.addr ELSE w.src,
   dst |-> w.dst, size |-> w.size, info |-> w.info]

\* What a slot holds after the descriptor w was loaded into it.
Loaded(w) ==
  [src |-> IF indirect_rr.valid THEN indirect_rr.addr ELSE w.src,
   dst |-> w.dst, size |-> w.size, info |-> w.info]

-----------------------------------------------------------------------------
(***************************************************************************)
(* A rising clock edge: the command on the bus, the request presented by   *)
(* the request path (<<>> or <<[rd, tag, data]>>), and the inputs of the   *)
(* indirect addressing logic.                                              *)
(***************************************************************************)
\* A defective variant: the status write clears the slot loaded next.
NextSlot_ClearsNewest(i, load, clear, w) ==
  IF HPC_clear_sig \/ (clear /\ wr_ptr = i) THEN EmptySlot
  ELSE IF load /\ wr_ptr = i THEN Loaded(w)
  ELSE slot[i]

NextSlot(i, load, clear, w) ==
  IF HPC_clear_sig \/ (clear /\ clr_ptr = i) THEN EmptySlot
  ELSE IF load /\ wr_ptr = i THEN Loaded(w)
  ELSE slot[i]

\* PIM_addr_match_wr_ptr and PIM_addr_match_clr_ptr.
NextPtr(ptr, step) ==
  IF HPC_clear_sig THEN 0 ELSE IF step THEN (ptr + 1) % SLOTS ELSE ptr

Clock(bus, req, is_read_descr, w) ==
  LET Written(a) == req # <<>> /\ ~req[1].rd /\ req[1].tag.addr = a
      load  == req # <<>> /\ req[1].tag.incr
      clear == req # <<>> /\ req[1].tag.clr
  IN
  /\ HPC_clear_sig' = Written(HPC_CLR_SIG)
  /\ AIM_working' = IF Written(AIM_WORK_SIG) THEN ~AIM_working ELSE AIM_working
  /\ next_desc_addr' =
       IF Written(AIM_WORK_SIG) THEN 0
       ELSE IF HPC_clear_sig THEN RSV_DESC_MEM_BASE + DESC_STRIDE
       ELSE IF bus.addr = next_desc_addr
            THEN (bus.addr + DESC_STRIDE) % ADDR_SPACE
       ELSE next_desc_addr
  /\ args_reg' = IF Written(HPC_CLR_SIG) THEN NoArgs
                 ELSE IF bus.wr /\ bus.addr = MM_INDIRECT_ARGS THEN bus.args
                 ELSE args_reg
  /\ indirect_r' = indirect_addr(is_read_descr, w)
  /\ indirect_rr' = indirect_r
  /\ slot' = [i \in 0..(SLOTS - 1) |->
                NextSlot(i, load, clear, IF load THEN req[1].data ELSE ZeroWord)]
  /\ wr_ptr' = NextPtr(wr_ptr, load)
  /\ clr_ptr' = NextPtr(clr_ptr, clear)

\* rst_x.
Reset ==
  /\ HPC_clear_sig' = FALSE
  /\ AIM_working' = FALSE
  /\ next_desc_addr' = 0
  /\ args_reg' = NoArgs
  /\ indirect_r' = NotIndirect /\ indirect_rr' = NotIndirect
  /\ slot' = [i \in 0..(SLOTS - 1) |-> EmptySlot]
  /\ wr_ptr' = 0 /\ clr_ptr' = 0

TypeOK ==
  /\ HPC_clear_sig \in BOOLEAN /\ AIM_working \in BOOLEAN
  /\ next_desc_addr \in Addr
  /\ args_reg \in [A: Addr, B: Addr, C: Addr]
  /\ indirect_r \in [valid: BOOLEAN, addr: Addr]
  /\ indirect_rr \in [valid: BOOLEAN, addr: Addr]
  /\ DOMAIN slot = 0..(SLOTS - 1)
  /\ wr_ptr \in 0..(SLOTS - 1) /\ clr_ptr \in 0..(SLOTS - 1)
=============================================================================
