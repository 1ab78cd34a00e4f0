-------------------------------- MODULE Btx --------------------------------
(***************************************************************************)
(* BTX (pc32/btx/btx/btx.S): the client runs in protected mode and asks    *)
(* for BIOS services in real mode; hardware interrupts reach the BIOS from *)
(* either mode.                                                            *)
(*                                                                         *)
(* Stacks are functions on the offsets the comments in btx.S give, in      *)
(* words: kst[k] is at -4k of the frame in the kernel, rst[k] at -4k of    *)
(* MEM_BTX_ESPR.                                                           *)
(***************************************************************************)
EXTENDS Integers, Sequences, FiniteSets

CONSTANTS
  BtxIrqs,     \* hardware interrupts that may happen
  BtxCalls     \* control words of the calls made: subsets of V86F_*

Gp == <<"eax", "ecx", "edx", "ebx", "esp", "ebp", "esi", "edi">>
Seg == <<"gs", "fs", "ds", "es">>
UDATA == [s \in {Seg[i] : i \in 1 .. 4} |-> <<"udata", s>>]
GpOf(who) == [r \in {Gp[i] : i \in 1 .. 8} |-> <<who, r>>]
SegOf(who) == [r \in {Seg[i] : i \in 1 .. 4} |-> <<who, r>>]

VARIABLES
  user,    \* the client: [gp, seg, fl, v86 |-> [ctl, addr, seg]]
  mode,    \* "user", "real", "irq" (in real mode, in a handler), "halt", "reboot"
  kst,     \* the frame on the kernel stack
  rst,     \* the fixed part of the real mode stack
  real,    \* the routine running in real mode: [gp, seg, fl, at, by]; by is
           \* history: "call" of the client or "irq"
  held,    \* the routine an interrupt in real mode put aside
  got,     \* history: what the client should get back
  irq      \* history: the last interrupt and the vector that served it

btxVars == <<user, mode, kst, rst, real, held, got, irq>>

\* flags: I, T, AC and what a routine reports (C)
Unsafe == {"T", "NT"}

------------------------------------------------------------------------------
(* init.1: gates from the control string; a bit of the mask for each         *)
(* interrupt, the handlers four bytes apart.                                 *)

ExcMask == {0, 1, 3, 4, 5, 6, 7, 8, 10, 11, 12, 13, 14}   \* 0x7dfb
\* the numbers the handlers from intx00 on push
intx00 == <<0, 1, 3, 4, 5, 6, 7, 8, 10, 11, 12, 13, 14>>
Gate(n) == Cardinality({m \in ExcMask : m < n}) + 1
Pushed(n) == intx00[Gate(n)]

\* the vectors the handlers from intx20 (protected mode) and intr20 (real
\* mode) on push
intx20 == <<8, 9, 10, 11, 12, 13, 14, 15, 112, 113, 114, 115, 116, 117, 118, 119>>
intr20 == <<8, 9, 10, 11, 12, 13, 14, 15, 112, 113, 114, 115, 116, 117, 118, 119>>

\* int_hw: registers are saved as pusha and pushes leave them
KFrame(intno) ==
  [k \in 0 .. 17 |->
     CASE k = 2 -> <<"fl", user.fl>>
       [] k = 5 -> <<"int", intno>>
       [] k \in 6 .. 13 -> user.gp[Gp[k - 5]]
       [] k \in 14 .. 17 -> user.seg[Seg[k - 13]]
       [] OTHER -> "pc"]
\* popping them again
GpAt(st, top) == [r \in DOMAIN GpOf("") |-> st[top + (CHOOSE i \in 1 .. 8 : Gp[i] = r) - 1]]
SegAt(st, top) == [r \in DOMAIN SegOf("") |-> st[top + (CHOOSE i \in 1 .. 4 : Seg[i] = r) - 1]]

NULL == "null"
V86Ptr == "v86"

------------------------------------------------------------------------------
\* intx31 to intusr.8 for a call: the routine gets the client's registers and
\* the segments of btx_v86; an interrupt handler runs with interrupts, tracing
\* and alignment checks off.  An address without CALLF is refused.  (The client
\* has put values of its own in the registers.)
V86Int(ctl, addr) ==
  /\ mode = "user" /\ user.gp = GpOf("user")
  /\ user' = [user EXCEPT !.v86 = [ctl |-> ctl, addr |-> addr, seg |-> SegOf("v86")]]
  /\ LET k == KFrame(-1)
         with == [k EXCEPT ![14] = SegOf("v86")["gs"], ![15] = SegOf("v86")["fs"],
                           ![16] = SegOf("v86")["ds"], ![17] = SegOf("v86")["es"]]
     IN  IF "addr" \in ctl /\ "callf" \notin ctl
         THEN mode' = "halt" /\ UNCHANGED <<kst, rst, real>>
         ELSE /\ mode' = "real"
              /\ kst' = with
              /\ rst' = [rst EXCEPT ![2] = V86Ptr]
              /\ real' = [gp |-> GpAt(with, 6), seg |-> SegAt(with, 14),
                          fl |-> IF "addr" \in ctl THEN user.fl ELSE user.fl \ {"I", "T", "AC"},
                          at |-> IF "addr" \in ctl THEN <<"far", addr>> ELSE <<"vector", addr>>, by |-> "call"]
  /\ UNCHANGED <<held, got, irq>>

\* Mutant: the stack is used as it is
SlotNot(st) == st
\* intx20 and intusr.1 for a hardware interrupt in the client
Slot(st) == [st EXCEPT ![2] = NULL]
IrqUser(n) ==
  /\ mode = "user" /\ "I" \in user.fl
  /\ mode' = "real"
  /\ kst' = KFrame(intx20[n + 1])
  /\ rst' = Slot(rst)
  /\ real' = [gp |-> GpOf("zero"), seg |-> SegOf("zero"), fl |-> {}, at |-> <<"vector", intx20[n + 1]>>, by |-> "irq"]
  /\ irq' = [kind |-> "irq", n |-> n, vector |-> intx20[n + 1]]
  /\ got' = user
  /\ UNCHANGED <<user, held>>

\* intr20 and int_hwr: an interrupt while a routine runs with interrupts on is
\* passed to the handler of the BIOS with all registers as they were
IrqReal(n) ==
  /\ mode = "real" /\ "I" \in real.fl
  /\ mode' = "irq"
  /\ held' = real
  /\ real' = [real EXCEPT !.at = <<"vector", intr20[n + 1]>>, !.fl = @ \ {"I"}]
  /\ irq' = [kind |-> "irq", n |-> n, vector |-> intr20[n + 1]]
  /\ UNCHANGED <<user, kst, rst, got>>
IrqReturn ==
  /\ mode = "irq"
  /\ mode' = "real"
  /\ real' = held
  /\ UNCHANGED <<user, kst, rst, held, got, irq>>

\* the routine goes on: it may let interrupts in
BiosSti ==
  /\ mode = "real" /\ rst[2] = V86Ptr /\ real.gp # GpOf("bios")
  /\ real' = [real EXCEPT !.fl = @ \cup {"I"}]
  /\ UNCHANGED <<user, mode, kst, rst, held, got, irq>>
\* and has its result: registers, segments, the carry
BiosResult ==
  /\ mode = "real" /\ real.gp # GpOf("bios")
  /\ \E fl \in {{}, {"C"}, {"C", "T", "NT"}} :
       real' = [real EXCEPT !.gp = GpOf("bios"), !.seg = SegOf("bios"), !.fl = (@ \cap {"I"}) \cup fl]
  /\ UNCHANGED <<user, mode, kst, rst, held, got, irq>>

\* rret_tramp: what the routine left is pushed below the pointer; for a call
\* it is copied over the frame, downwards, and the segments to btx_v86
Returned16 == [k \in 1 .. 15 |->
  CASE k \in 3 .. 10 -> real.gp[Gp[k - 2]] [] k \in 11 .. 14 -> real.seg[Seg[k - 10]]
    [] k = 15 -> <<"fl", real.fl>> [] OTHER -> rst[k]]
RealReturn ==
  /\ mode = "real" /\ real.gp = GpOf("bios")
  /\ mode' = "user"
  /\ rst' = Returned16
  /\ LET st == Returned16
         fl == IF "flags" \in user.v86.ctl THEN real.fl \ Unsafe ELSE user.fl
     IN
     /\ IF rst[2] = NULL
         THEN /\ user' = [user EXCEPT !.gp = GpAt(kst, 6), !.seg = SegAt(kst, 14)]
              /\ UNCHANGED kst
         ELSE /\ kst' = [k \in 0 .. 17 |-> IF k \in 6 .. 13 THEN st[k - 3] ELSE IF k \in 14 .. 17 THEN <<"udata", Seg[k - 13]>> ELSE kst[k]]
              /\ user' = [gp |-> GpAt(kst', 6), seg |-> SegAt(kst', 14), fl |-> fl,
                          v86 |-> [user.v86 EXCEPT !.seg = SegAt(st, 11)]]
     /\ got' = IF real.by = "irq" THEN got
               ELSE [gp |-> GpOf("bios"), seg |-> UDATA, fl |-> fl, v86 |-> [user.v86 EXCEPT !.seg = SegOf("bios")]]
  /\ UNCHANGED <<real, held, irq>>

\* the client goes on with registers of its own
Client ==
  /\ mode = "user" /\ user.gp # GpOf("user")
  /\ user' = [user EXCEPT !.gp = GpOf("user"), !.fl = {"I"}]
  /\ got' = user'
  /\ UNCHANGED <<mode, kst, rst, real, held, irq>>

\* except: a breakpoint, or a single step, is shown and the client goes on;
\* any other exception ends BTX
Exception(n) ==
  /\ mode = "user"
  /\ mode' = IF Pushed(n) = 3 \/ (Pushed(n) = 1 /\ "T" \in user.fl) THEN "user" ELSE "halt"
  /\ irq' = [kind |-> "exc", n |-> n, vector |-> Pushed(n)]
  /\ UNCHANGED <<user, kst, rst, real, held, got>>

\* intx30: a program started with exec may come back, which reboots like exit
Syscall ==
  /\ mode = "user"
  /\ mode' = "reboot"
  /\ UNCHANGED <<user, kst, rst, real, held, got, irq>>

------------------------------------------------------------------------------
\* any client may have been left with a frame and slots of earlier use
BtxInit ==
  /\ user = [gp |-> GpOf("user"), seg |-> UDATA, fl |-> {"I"}, v86 |-> [ctl |-> {}, addr |-> 0, seg |-> SegOf("v86")]]
  /\ mode = "user"
  /\ kst = [k \in 0 .. 17 |-> "pc"] /\ rst = [k \in 1 .. 15 |-> V86Ptr]
  /\ real = [gp |-> GpOf("zero"), seg |-> SegOf("zero"), fl |-> {}, at |-> <<"vector", 0>>, by |-> "irq"]
  /\ held = real
  /\ got = user
  /\ irq = [kind |-> "exc", n |-> 0, vector |-> 0]

BtxNext ==
  \/ \E c \in BtxCalls : V86Int(c, 19)
  \/ \E n \in BtxIrqs : IrqUser(n) \/ IrqReal(n)
  \/ IrqReturn \/ BiosSti \/ BiosResult \/ RealReturn \/ Client \/ Syscall
  \/ \E n \in ExcMask : Exception(n)

\* BtxRight: whenever the client runs it has what it should: after an
\* interrupt its own registers and flags, after a call those of the routine,
\* the segments in btx_v86, and flags only if it asked for them and without
\* the unsafe ones.  An interrupt or exception reaches the handler of its
\* number from either mode.
BtxRight ==
  /\ mode = "user" => user = got
  /\ irq.vector = IF irq.kind = "exc" THEN irq.n ELSE IF irq.n < 8 THEN 8 + irq.n ELSE 112 + irq.n - 8
=============================================================================
