# A TLA+ verification of the CV32A6 core, its data cache and its system software

The repository is a fork of the CVA6 (Ariane) RISC-V core in its 32-bit
configuration for the Zybo Z7-20 board, with a control-flow monitor added by
the team (`src/src/CFI.sv`; the team's edits elsewhere are marked `//CNR`).
The core's own RTL is in `src/src/*.sv`, `src/src/frontend`,
`src/src/cache_subsystem`, and its parameters in `src/include/ariane_pkg.sv`;
the board support package is in `src/sw/bsp`, the FPGA boot ROM in
`src/fpga/src/bootrom`, the serial device in `src/fpga/src/apb_uart`.

*Hardware.* A module of RTL is a set of registers and combinational functions
of them. In the TLA+ modules the registers are the VARIABLES (the source's name
without `_q`), outputs are operators with the source's name, and **one step is
one clock edge**: all inputs of the cycle are chosen by `\E`, and all registers
take their `_d`/`_n` values at once. Where the source lets a later blocking
assignment overwrite an earlier one, the operator states which one wins.

*Software.* In `UartDriver`, `BootLoader` and `SmpBarrier` one step is one
access to memory or to a device register that somebody else may touch between
two of them (an interrupt, the device, another hart, the card), together with
the purely local code up to the next one.

## 1. Inventory

| Component | State | Operations | Correct means |
| --- | --- | --- | --- |
| Store buffer (`store_buffer.sv`) | two rings (speculative, committed): slots with valid flags, read/write pointers, counters | push, commit (copy oldest speculative slot to committed ring), grant (evict head), flush, page-offset check for loads | two FIFO queues; interlock sees exactly the queued stores; committed stores drain |
| Scoreboard (`scoreboard.sv`) | ring of slots (issued, complete, exception, instruction), counter, issue pointer, two commit pointers | issue, write-back by slot number, dual commit, flush | in-order retirement of complete instructions, once each |
| Commit stage (`commit_stage.sv`) | none | acknowledge ports 0 and 1, pop store/CSR/AMO, select the exception | retires what the other units agree is retirable |
| Store unit + AMO buffer (`store_unit.sv`, `amo_buffer.sv`) | 4-state machine, request registers, one-entry AMO FIFO | take a request, post it, answer the scoreboard, hand the AMO to the cache | every store is posted once, in order |
| LSU bypass (`load_store_unit.sv`) | two-entry FIFO, pointers, 2-bit counter | push with pass-through, pop, flush | no request lost, doubled or overtaken |
| CSR buffer (`csr_buffer.sv`) | one entry | write, commit, flush | a CSR instruction finds its own address |
| CSR file (`csr_regfile.sv`) | all CSRs; debug mode, single step, wfi | access, exception entry, xRET, debug entry, wfi | traps, returns and debug entry never collide |
| Controller (`controller.sv`) | `fence_active` (constant 0 with the write-through cache) | turns events into flushes and halts | flushes reach every unit that holds younger state |
| Control-flow monitor (`CFI.sv`) | 3-state machine, output register | watch the two commit ports | alarm for return-then-marker and for nothing else |
| Issue / execute (`issue_stage.sv`, `issue_read_operands.sv`, `ex_stage.sv`) | execute register, operand registers | structural and data stalls, forwarding, issue | no instruction reads a stale operand |
| Load unit (`load_unit.sv`) | state machine, load data register | request, kill, wait, retire | a load returns the youngest older store; flushed loads never write back |
| Data cache (`wt_dcache*.sv`) | write buffer, miss register, tag/data arrays, per-port controllers | merge a store, check tags, transmit, refill, invalidate, AMO, flush | one copy of each word; loads see the latest store; drains |
| Instruction cache, adapters (`wt_icache.sv`, `wt_axi_adapter.sv`, `axi_shim.sv`) | state machines, queues | fetch, kill, refill; arbitration to AXI | each answer reaches its request |
| Frontend (`frontend/*.sv`, `instr_realign.sv`) | instruction FIFOs, address FIFO, RAS, BHT, BTB, unaligned half | fetch, predict, realign, queue, replay | the instruction stream has no gap or repetition |
| Divider (`serdiv.sv`) | operand registers, counter, 3 states | load, iterate, output, flush | RISC-V quotient/remainder incl. corner cases |
| UART driver (`sw/bsp/drivers/uart/uart.c`, `_write` of `syscalls.c`) | `uart_instance_t`: buffer, size, index, handlers, sticky status; `g_stdio_uart_init_done` | `UART_init`, `UART_irq_tx`, `UART_polled_tx`, `UART_fill_tx_fifo`, `UART_tx_complete`, `UART_get_rx`, `UART_get_rx_status`, `UART_set_rx_handler`, `UART_enable_irq`, `uart_isr`, `default_tx_handler` | every byte goes out once and in order; calls and transmits end; received bytes and errors reach the application |
| UART device (`apb_uart.vhd`, `uart_interrupt.vhd`) | FIFOs, shift register, IER, FCR, pending THRE, timeout, overrun | register accesses, transmit, receive, timeout | as the 16550 the driver expects |
| Boot loader (`main.c`, `gpt.c`, `sd.c`) | loop counters, buffers, destination memory | initialise the card, copy header, table and image, jump | starts only intact, consecutive blocks; stops the multi-block read on every way out; gives up instead of hanging |
| Multi-hart boot (`startup.S`, `smp.h`) with the CLINT's MSIP (`clint.sv`) | program counter and loop index of each hart, interrupt bits | pause, main, wake, wait, clear, scan | nobody leaves while somebody sleeps without an interrupt or hart 0 has not taken its own; everybody leaves |
| CLINT timer, PLIC, debug module | timers, pending/active bits, abstract command state | interrupts, claim/complete, halt/resume | no lost interrupt or command |
| MMU, PMP | TLBs, walker | translate | not elaborated: `MMU_PRESENT` is 0 |

**How they interact.** The decoder hands one instruction a cycle to the
scoreboard and the issue logic; its slot number is its transaction id. The
issue logic puts it in the execute register; fixed-latency units (ALU, branch,
CSR buffer) write back at once, memory instructions go through the LSU bypass
to the store (or load) unit, which posts stores to the store buffer. The
commit stage looks at the two oldest slots, and drives the store buffer
(`commit_lsu_o`), the CSR buffer (`commit_csr_o`), the CSR file (`csr_op_o`)
and the AMO buffer (`amo_valid_commit_o`) *without naming an instruction*: it
relies on the heads of those queues being the instruction it retires. The CSR
file answers with exceptions, returns and debug entry; the controller turns
all of these into flushes, in the same cycle. The monitor watches the
acknowledges and, through `cfi_interupt_i`, makes the CSR file raise an
exception.

The load unit asks the store buffer whether a queued store has the page offset
of its load and then the read port of the data cache; the store buffer feeds
the cache's write buffer; both share the cache's arrays and its miss unit, and
memory answers them out of order. Outside the core, the driver and the service
routine share the driver's instance and the device's registers, the boot
loader talks to an SD card it cannot trust, and harts meet at the interrupt
registers of the CLINT.

**What is hard.** In the core the concurrency is that every unit moves at every
edge and that commit, flush, push, grant and write-back may coincide. Hazards
are: several updates of one structure in one cycle; queues that must agree
although nothing links their entries; readiness that is computed one cycle
before it is used; late answers after a flush or a kill; look-ups that are
stale when they are used; units that wait on one another. In the software:
interrupts between two accesses of a read-modify-write; the order of two reads
whose values are combined; retries and error codes across several callers; a
card that is silent or sends damaged data; harts that look at registers while
another is still writing them. Nothing is persisted, so there is no recovery
after a crash. `PROJECT.json` lists the hazards at their lines.

## 2. Modules

| Module | Models | Notes |
| --- | --- | --- |
| `StoreQueue` | abstract specification of the store buffer | two FIFO queues |
| `StoreBuffer` | `store_buffer.sv` | `core_if`, `store_if` as in the source; the four assertions of the source are its environment contract |
| `ReorderQueue` | abstract specification of the scoreboard | in-order retirement queue |
| `Scoreboard` | `scoreboard.sv`: ring, commit ports, write-back | `Contract` is the assertions of the source |
| `IssueRead` | `rd_clobber` and forwarding of `scoreboard.sv`, issue decision of `issue_read_operands.sv` | extends `Scoreboard`: no state of its own, `issue_ack_i` is computed |
| `InOrderCore` | abstract specification of the whole back end | one window in program order, one queue of retired stores |
| `Cfi` | `CFI.sv` | history variables `last`, `before`, `suspicious` state what retired |
| `CommitStage`, `Controller` | `commit_stage.sv`, `controller.sv` | operators only: both are combinational here |
| `CsrControl` | pipeline control of `csr_regfile.sv` | CSR addresses and values abstracted |
| `CsrBuffer`, `LsuBypass`, `StoreUnit`, `LoadUnit` | `csr_buffer.sv`, `lsu_bypass`, `store_unit.sv` + `amo_buffer.sv`, `load_unit.sv` | one `...Cycle` operator each |
| `CommitPath` | the wiring in `ariane.sv`, `issue_stage.sv`, `ex_stage.sv`, `load_store_unit.sv` | composes all of the above by INSTANCE; `Signals` are the combinational signals of a cycle, one `Cycle` is one edge of the whole back end |
| `CacheMem`, `ReadCtrl`, `WriteBuffer`, `MissUnit` | `wt_dcache_mem.sv`, `wt_dcache_ctrl.sv`, `wt_dcache_wbuffer.sv`, `wt_dcache_missunit.sv` | one `...Cycle` operator each |
| `DataCache` | `wt_dcache.sv` between a core and a memory | composes the four; core and memory are external |
| `ApbUart` | `apb_uart.vhd`, `uart_interrupt.vhd` | operators on a device record |
| `UartDriver` | `uart.c`, `_write`, the vector table | application, service routine and device interleaved |
| `BootLoader` | `main.c`, `gpt.c`, `sd.c` | with an external card that may be faulty |
| `SdCrc` | `crc16`, `crc7` of `sd.c` | against polynomial division |
| `SmpBarrier` | `startup.S`, `smp.h`, MSIP of `clint.sv` | any number of harts |
| `MC*` | small instances for TLC | |
| `*Proofs` | theorems, checked by TLAPS | |

`StoreBuffer` and `Scoreboard` are checked twice: alone, under the most
general environment that keeps the contract the source asserts, and inside
`CommitPath`, where the contract becomes a property (`AssertionsHold`).
Properties proved of the component thus hold in the composition wherever the
assertions do, and section 6 says where they do not.

**`CommitPath`.** A store and a CSR address are represented by the transaction
id of their instruction, which is what the agreement properties are about.
Inputs of the surroundings are nondeterministic: what is decoded, grants and
answers of the cache, whether its write buffer still holds a store to a device
(`wb_ni`), branch outcomes, whether a CSR access faults or has a side effect
that flushes, `dcsr.ebreak*`, wake-up from WFI. `dtlb_hit` is TRUE and the
translation exception FALSE, because without the MMU `load_store_unit.sv` ties
them so. (The same lines show that misaligned accesses, detected in
`data_misaligned_detection`, reach the units only through the MMU; in this
build the exception is computed and not used.) The states `ABORT_TRANSACTION`
and the exception paths of the load and the store unit are therefore not
reachable. Memory has two page offsets: that of all stores and of the loads
from memory, and that of device loads. The read port of the cache is `ld_port`:
idle, owing an answer, or finishing a killed miss; it answers a killed request
at once, as `wt_dcache_ctrl.sv` does. Multiplications and the FPU are not in
the composition.

**`InOrderCore`.** What the back end promises the program, in two variables:
the instructions in flight, oldest first, with their identity, whether they are
stores, complete or trapping; and the stores that have retired and that memory
has not taken. A step completes any of them, retires up to two from the head
and hands a store over in the very step in which it retires, or discards the
whole window. `CommitPath` maps its ring to the window (`Window`) and the
committed ring of the store buffer to the queue; store unit, bypass,
speculative ring, AMO buffer and all the rest are hidden.

**`IssueRead`.** The value of an operand is represented by where it comes from:
the slot that is forwarded, or none, the register file. Which of several
write-back ports wins is left open, because `Scoreboard` keeps no port numbers.
Only general registers exist (`FP_PRESENT` is 0). The environment is what the
other units do: `Commits` (acknowledge, write enable and flush of the commit
stage), `WriteBackOwned` (a unit writes back what it is executing; late results
come before anything is issued again), `Decodes` (only what traps needs no
unit). `CommitPath` keeps the second and third and the flush part of the first
(`IssueEnvironment`, section 5); registers are not part of `CommitPath`, where
a data dependency shows as a cycle in which nothing is offered for issue.

**`DataCache`.** Data is abstracted to *freshness*: a copy of a byte, in
memory, in the array, in a refill under way or in a store in flight, is fresh
iff it holds the value of the latest store. A store makes every other copy of
its bytes stale; an atomic makes memory fresh and all other copies stale. So
"a load returns the latest store" is one Boolean, and values need no domain.
The cache has one index and one way, so that all lines compete for one place;
words are <<line, bank>>. The second read port (page-table walker) is idle
without an MMU. The core is constrained to what the load interlock and in-order
commit guarantee (`CoreMay`), which is what `LoadsSeeStores` and
`StoreAgreement` establish for `CommitPath`; loads that overlap an atomic are
younger than it and flushed, so their data is not looked at. Memory
acknowledges stores in any order, a read sees memory as of its acceptance and a
store takes effect when it is acknowledged: the least favourable moments. Which
of the two round-robin arbiters' candidates is next is nondeterministic, as is
the return.

**`UartDriver`.** The application calls any of the functions of its program in
any order; the service routine preempts it between any two accesses and runs
to its end; transmitter and receiver move in between. A byte is
<<buffer, index>>, so loss, repetition and reordering are visible. Two
constants state what the callers and the platform must provide, because the
driver needs it (section 6): `Patient`, the application waits for
`UART_tx_complete` before it sends again and enables only interrupts that have
a handler; `Dispatch`, the vector table leads to `uart_isr`. The sticky status
is its overrun bit. Left out: modem status, user transmit handlers, break and
baud rate.

**`BootLoader`.** A block is its number on the card or `Junk`, contents whose
checksum fails. That `crc16` separates the two is not taken for granted:
`BlockChecked` compares it with polynomial division. A faulty card may be
silent, refuse, and damage any block; whether it is faulty is chosen at Init.
It may also miss CMD12, the one command whose reply the code does not look at
(`sd.c:205`). Then it is still sending when the next copy begins, and that copy
may read the running stream instead of the blocks it asked for (`Begins`);
`gpt_image` finds in a block that is not the table any number in the place of
`first_lba` (`StrayLbas`). Two waits without a limit are not states of their
own: a card that has accepted CMD18 sends its data tokens (`sd.c:174`), and one
that was told to start leaves its idle state. The checksum byte of CMD18 is left
out: `crc7` makes it 1 for every address, and in SPI mode the card ignores it.

**`SmpBarrier`.** The interrupt registers are modelled with what the bus makes
of them. A write honours the half of the 64-bit word its address selects, but a
read puts the bit in the low half always (`clint.sv:138`) and the load unit
shifts the word by the address (`load_unit.sv:312`), so a register with an odd
number reads 0 (`ReadMsip`). How `main` ends is the constant `MainEnds`: it
jumps to the image or spins, as `main.c` does, or comes back, as `startup.S` is
written for.

## 3. Runs and bounds

| Run | States | Shows |
| --- | --- | --- |
| `store_buffer` | 25,600 | at the real depths (4 and 4), with two payloads: the rings agree with their counters and flags, implement `StoreQueue`, the interlock is exact (a third page offset belongs to no store), committed stores drain |
| `scoreboard` | 4,865 | the ring with the issue decision (`ISpec`), one register besides x0 that a load, a CSR access and an SFENCE.VMA write and a store and the last two read: the ring is consistent and refines `ReorderQueue`, one writer in flight, operands from the youngest; write-backs of flushed ids arrive while the ring is empty |
| `cfi_monitor` | 213 | no false alarm and no missed pair, with instructions that miss the pattern in one field |
| `commit_system` | 60,555 | four instruction mixes: stores, AMOs, ALU, fences and CSR writes; debug request, ebreak, MRET and DRET among stores and CSR writes; loads from memory and devices, stores and traps; loads, stores, AMOs and traps. All units agree on what is in flight, no load overtakes a store, no assertion fails, and the whole refines `InOrderCore` |
| `commit_memory` | 38,947 | three mixes (stores, AMOs, traps; stores, fences, WFI; loads from memory and devices, stores): every issued instruction leaves the scoreboard |
| `dcache_lines` | 105,927 | a load returns the latest store, what left the write buffer is up to date, a line is never read and written in memory at once, atomics find every earlier store |
| `dcache_served` | 12,247 | stores of one and both bytes of a word in flight, atomics, misses: the byte flags and transactions agree, atomics are performed, the read port is freed |
| `uart` | 286,125 | four applications (sending by interrupt and by polling, printing, receiving by interrupt, receiving by polling with block sends) |
| `boot` | 7,381 | a working card, and a faulty one that may miss, refuse or damage anything; the checksum |
| `smp_boot` | 6,702 | four harts on four selects, `MAX_HARTS` above both; a `main` that returns, jumps or spins |
| `alarm_flush`, `uart_complete` | violation | section 6 |

*Choosing at Init.* `CommitPath` (`Programs`), `DataCache` (`Workloads`) and
`UartDriver` (`Programs`) take a set of small programs; a behaviour picks one
at Init and may use its members in any order and any number. Each program
holds the kinds that interact for one question, and one run covers them all.

*Bounds.* No counter grows in the RTL modules, so every run explores its whole
state space. `store_buffer` uses the depths of the source. `Scoreboard` and
`CommitPath` use 4 slots (source: 8): the smallest power of two at which dual
commit, a full ring (3 instructions) and wrap-around all happen; `CommitPath`
uses store queues of depth 2 (source: 4), so that "full", "one slot kept for the
store on its way" and "stall of the commit stage" are all reached within 3
instructions in flight. One write-back a cycle suffices in `scoreboard` because
write-backs of different slots touch disjoint slots, and only one of them can be
for the register that is read (`OneWriter`); SFENCE.VMA stands there for every
instruction that writes a register and flushes what follows it, atomics
included. In `CommitPath` all three ports are used. `DataCache` uses 2 write
buffer entries and 2 transactions (source: 8 and 8): enough for a word that is written while another is in flight
and for acknowledges out of order; `dcache_served` has 1 entry, 2 bytes and 2
transactions, so that a word is partly sent and written again, and a store waits
for the entry. `MaxLoadsBehindAmo` bounds the loads behind a waiting atomic (the
core issues only what fits in its scoreboard). The mix of `dcache_lines` loads
one or two of the lines that are stored to; with loads of, and stores to, both
lines the same properties hold on 118300 states. The UART's FIFOs hold 2 bytes
(16), buffers of 3, 1 and 2 bytes need two fills, less than one, and exactly
one; 3 bytes arrive, one more than the FIFO holds. `boot`: 4 attempts for
10000, an image of 40 blocks for 32768, two values for
`StrayLbas` outside the boot partition; `BlockLen` is 3 bytes, so that a byte
precedes and one follows a burst. `smp_boot`: 4 harts, a power of two, so that
the register after the last aliases hart 0, and `MAX_HARTS` 6, above the harts.
The theorems remove these bounds for eight modules (section 5).

*Views.* The runs over `CommitPath` that need it use the VIEW `LiveRegisters`,
which drops the contents of registers marked invalid (free scoreboard slots,
empty queue slots, the address in an empty CSR buffer, the id of a load nobody
waits for). Of the stores in the committed ring it keeps which are equal, and
not which they are: no action compares them with anything. So states with the
same view are bisimilar; a wrong step of `RetiresInOrder` could hide only behind
a store with the same id in the same place, and `CoreInOrder` proves the
property without the view. `LiveClockedRegisters` keeps the clock, and all
fairness conditions are functions of what is kept, so the liveness check is
sound too. `scoreboard` drops the instruction that free slots last held
(`InFlight`): a write-back under such an id can only occur while nothing is in
flight, and then nothing is forwarded. The other modules reset such registers
where the source leaves them, for the same reason, and say so.

*Deadlock* is checked in every run: a clock edge is always possible, and the
software ends in an explicit last state.

*Fairness.*
- `StoreBuffer`: weak fairness of the step in which the cache grants the
  pending request.
- `CommitPath`: the clock runs; the cache grants a store or a load that keeps
  being requested, answers loads and AMOs, finishes killed misses, and drains
  its write buffer while a fence or a device load waits. All are promises of the
  cache; `AmoServed` and `PortFreed` of `DataCache` are two of them. No wake-up
  from WFI is assumed: `InFlightLeaves` allows the core to sleep.
- `DataCache`: the clock runs, memory accepts a request that stays and answers
  each one, and the round-robin arbiter of the tag look-ups (`i_clean_rr`)
  reaches every entry that asks. Nothing is assumed of the core.
- `UartDriver`: the hart executes instructions and takes pending interrupts, the
  baud clock moves transmitter and timeout counter.
- `BootLoader`: the loader's own steps; a card eventually leaves its idle state
  (the code waits for that without a limit).
- `SmpBarrier`: each hart executes.

## 4. Properties

Store buffer, scoreboard, monitor:
- `RingInv` (both rings): counters, pointers and flags, which are kept by
  separate assignments, describe one queue.
- `ImplementsQueue`: refinement of the abstract queue (both components). For
  the scoreboard it includes that no instruction retires twice, although after
  a flush both commit ports look at slot 0.
- `InterlockExact`: the slot-by-slot scan equals membership in the queues.
- `CommittedDrains`: no slot of the committed queue starves.
- `OneWriter`: at most one instruction in flight that can retire writes a
  register. An instruction is issued over a claimed register if the commit stage
  writes it in the same cycle, so the claim has to end in that very cycle, and
  the write enable is also high for stores and fences that wait.
- `OperandsFresh`: an instruction that is not held back reads the youngest
  writer in flight, whose result is there. Clobber list and forwarding choose by
  slot number, and write-back ports forward without looking at the slot's state.
- `NoFalseAlarm`, `PairDetected`: the monitor against history.
  `PairDetected` excludes a return that directly follows a return: in state 2
  a lone return leads back to state 1 (condition c3 of `CFI.sv`), so a marker
  after the second one is not noticed. Two returns with nothing between them
  retire only if the first returns to a return.

The back end:
- `StoreAgreement`: the speculative queue holds exactly the completed stores in
  flight in program order, the AMO buffer the completed AMO: what
  `commit_lsu_o` pops is what retires.
- `StoresTracked`, `LoadsTracked`: an uncompleted store or load is in exactly
  one place, in order; answers of killed and flushed loads complete nothing,
  although the load unit's output register is not cleared by a flush.
- `LoadsSeeStores`: a load reads memory only after every older store has left
  the core, although the interlock is asked once and not again while the load
  waits for its grant.
- `CsrOwnAddress`: a CSR access at commit finds its own address although a
  waiting fence keeps freeing the buffer.
- `AssertionsHold`: none of the assertions of `store_buffer.sv`,
  `csr_regfile.sv` (eret/exception) and `scoreboard.sv` (one id written back
  twice) fails. `failed` is a history variable holding those that failed at
  the last edge.
- `RetiresInOrder`: the whole back end implements `InOrderCore`. It ties the
  two commit ports, the speculative ring and the committed ring together: a
  store leaves for memory in the step in which it retires, once and in order, a
  flush takes none back, whatever else happens in the cycle.
- `InFlightLeaves`: every issued instruction retires or is flushed, unless the
  core sleeps.

The data cache:
- `LoadFresh`: a load that is not flushed returns the latest store to every
  byte, whether it is assembled from array, refill or buffer.
- `Coherent`: a byte that left the write buffer is up to date in memory and, if
  its line is cached, in the cache. This is where stale tag look-ups show.
- `NoReadWriteOverlap`: no line is read from and written to memory at once.
- `AmoOrdered`: an atomic finds every earlier store in memory.
- `Bookkeeping`: transactions, returned ids and byte flags agree.
- `AmoServed`, `PortFreed`: atomics and reads are not starved.

The software:
- `WireOrder`: bytes go out once, in the order of the calls.
- `CompleteMeansCopied`: a buffer may be reused when `UART_tx_complete` says so.
- `ErrorsKept`: an overrun is not lost although every read of the line status
  clears it (receiving by polling; the polled transmits drop it).
- `Transmits`, `Receives`, `CallsReturn`: transmits end, bytes below the trigger
  level are delivered, the service routine never starves the application.
- `JumpOnlyLoaded`: the image that is started is consecutive, intact blocks of
  the card, found through an intact header; unless the card missed a CMD12 it is
  the boot partition, found through an intact table. `CopyInv` is the loop
  invariant behind it.
- `StreamClosed`: every way out of `sd_copy` ends the multi-block read, unless
  the card misses the command.
- `Ends`, `Boots`, `BlockChecked`: the loader gives up or starts the image, a
  working card is booted from, the checksum is the polynomial remainder.
- `Barrier`: a hart leaves the boot ROM only when hart 0 has raised every
  interrupt and every hart whose register can be read back has cleared its own.
  `AllReleased`: once `main` comes back, everybody leaves. `FullBarrier` is what
  the loop is meant to give; it does not hold (section 6).

`TypeOK` is stated in every module with state of its own; it is a theorem for
the eight modules with proofs and also checked by a run for
`UartDriver`. Each property of a run has a mutant of the code's definition
(operators commented "Mutant") under which TLC finds it violated.

## 5. Proofs

TLAPS proves for every value of the constants that satisfies the named
assumptions (depths at least 2; at least 4 slots; a reset instruction that is
neither return nor marker; at least one hart, selects and `MAX_HARTS` that cover
the harts; a non-empty image and budget, and at least one number a stray block may hold; at least one write buffer entry and one
transaction; words and bytes named by numbers; buffers that are not empty).
`UartDriver` has one assumption more, `ApplicationAssumption`. An application
receives by polling or by a handler, not both: `uart.h:792` offers
`UART_get_rx` for either, and a handler would drain the FIFO between the status
read and the read of the byte of a polling caller. A patient application
sends by one group of functions: `UART_fill_tx_fifo` belongs to a transmit
handler of the caller's own, and the first `_write` initialises the UART, which
clears what was pushed before; it leaves the transmit interrupt to
`UART_irq_tx`.

- `StoreBufferProofs`: `TypeCorrect`, `RingCorrect`, `InterlockCorrect`,
  `Refinement`. `TypeOK` alone is not inductive: that a counter stays within
  its depth needs the contract, and that the pointers stay consistent needs
  the flags. The invariant is `Inv == TypeOK /\ RingInv`. The two rings are
  treated by `CoreIfStep` and `StoreIfStep`; the refinement by `SpecSeqStep`
  and `CommitSeqStep`, which show what one edge does to the sequences the
  rings represent, element by element.
- `ScoreboardProofs`: `TypeCorrect`, `RingCorrect`, `PortsCorrect`,
  `Refinement` (of `ReorderQueue`) with
  `Inv == TypeOK /\ RingInv /\ PortsApart`. `PortsInOrder` is not inductive:
  what makes it true is that the ports can coincide only on an empty ring
  (`PortsApart`). `AcksInFlight` shows that acknowledged instructions are in
  flight, `RingArith` the modular arithmetic. `WritersUnique` and
  `OperandsAreFresh` are about `IssueRead`, for every instruction set.
  `IssueInv == Inv /\ NoneTraps /\ OneWriter` is inductive (`IssueStep`), for
  this reason: if nothing in flight will flush, then every instruction in flight
  counts, the claim on a register is that of its only writer (`Unique`), and
  what passes the check over it by the bypass does so because that writer is
  acknowledged in this cycle; if something will flush, the new instruction is
  behind it and never retires. `Fresh` derives `OperandsFresh` from `IssueInv`.
  `IssueIsStep` makes the earlier invariants available: the run checks the ring
  with the issue decision (`ISpec`), the first four theorems hold for `Spec`,
  whose environment issues at will.
- `CfiProofs`: `TypeCorrect`, `MemoryCorrect`, `NoFalseAlarmCorrect`,
  `PairDetectedCorrect`, `AlarmStickyCorrect`. The strengthening is `Memory`,
  which says what states 1 and 2 remember of the last two instructions.
  `AlarmSticky` (an alarm holds until reset) follows from it.
- `BootLoaderProofs`: `TypeCorrect`, `CopyCorrect`, `JumpCorrect`,
  `StreamCorrect` with `Inv == TypeOK /\ CopyInv /\ StreamClosed`.
  `JumpOnlyLoaded` speaks of the end only; `CopyInv` carries, through the three
  copies and every error path, that what was copied so far is consecutive on the
  card and that an error is recorded. Where a copy began (`Start`) is what was
  asked for, or, once a CMD12 was missed, what its first block says; that a read
  begins elsewhere only then is `StreamClosed`. There is one lemma for each
  command (`InvRead`, `InvBlock`, `InvStop`).
- `SmpBarrierProofs`: `TypeCorrect`, `BarrierInvCorrect`, `BarrierCorrect`, for
  every number of harts and every `main`. Why it is true is in `BarrierInv`: a
  woken hart has its bit set until it clears it, for good; the bit of hart 0 is
  set first and cleared by hart 0 after it has raised all the others, and its
  register can be read, so it holds every scan at register 0 until then. A hart
  past register g in its scan knows that g has cleared its bit only if g is even.

- `DataCacheProofs`: `Inductive`, `TypeCorrect`, `BooksAgree`,
  `CacheCoherent`, `LoadsAreFresh`, `ReadsAndWritesApart`,
  `AtomicsAreOrdered`, for every set of words and bytes, depth of the write
  buffer, number of transactions and workload. None of the five properties is
  inductive. The core of `IInv` is that a byte that is out of date in memory, in
  the cached line, in the read in flight or in the read register is still in the
  write buffer (`Memory`, `Cached`). A byte leaves the buffer when its
  transaction is released; so the invariant has to say where every transaction
  is, once (`Places`), that it covers exactly the blocked bytes of its entry
  (`Transactions`), that no line is read while one of its words is in flight, in
  every state of the miss unit and of the read port (`Machines`), that an atomic
  runs alone (`Atomics`), and that an entry marked as checked knows whether its
  line is cached *now*, although look-ups take two cycles and lines come and go
  meanwhile (`LookUps`). The signals of one cycle are named once, each part of
  the invariant has its preservation lemma from them.
- `UartDriverProofs`: `Inductive`, `TypeCorrect`, `OverrunsKept` for every
  application; `BytesInOrder` and `CompleteIsCopied` for `Patient` ones (section
  6 says why not for others). `IInv` is `Typed` (with: a byte about to be read is
  in the receive FIFO), `Kept` (where an overrun is while a call is under way)
  and, for patient applications, `Sending`: `Interrupts` (the transmit interrupt
  is latched only with an empty FIFO and enabled only during a transfer),
  `Transfers` (the descriptor is that of the application's last call), `Room`
  and `Order`, the loop invariant of all five ways to send: what was handed over
  is what is on the line, in the shift register and in the FIFO, followed by
  what is left of the transfer. The lemmas on sequences (`Cat...`) are the
  algebra of concatenation this needs.

- `CommitPathProofs`: `Inductive`, `TypeCorrect`, `AssertionsNeverFail`,
  `StoresAgree`, `StoresInOrder`, `LoadsInOrder`, `LoadsAfterStores`,
  `CsrAddressIsOwn`, `CoreInOrder`, `WriteBacksOwned`, for every number of
  scoreboard slots (at least 4), every
  depth of the store queues (at least 2), every set of programs and every
  behaviour of the caches. Two assumptions are about constants:
  `SizesAssumption`, and `DecoderAssumption`, that the decoder gives an AMO the
  store unit and a fence the CSR unit. The theorems also assume `Quiet`: no
  program holds the monitor's marker or writes `dcsr.step`. That is needed, not
  a convenience: the alarm and a single step both make a store retire in the
  cycle of a flush (section 6), after which the speculative ring is off by one.
  The composition is proved from its parts: the invariants of `ScoreboardProofs`
  and `StoreBufferProofs` are instantiated, and `ContractKept` and
  `BufferContract` show that the core is an environment that keeps their
  contracts. For that `IInv` has to follow every instruction through the core.
  `Requests`: what is in the execute register, the bypass and the store unit
  names an uncompleted instruction, in program order. `Found`: every uncompleted
  one is in some such place, with the cache or in the output register of the
  load unit. `Posted`: the store buffer and the AMO buffer hold the completed
  stores, and there is room for the one on its way. `LoadUnit`: per state, which
  load it holds; a load that was once not held back by the interlock (`Clear`)
  stays so. `CsrUnit`: unless a fence waits at commit, at most one CSR
  instruction is in flight and a completed one owns the buffer; a waiting fence
  ends in a flush, so what it lets in behind it never commits. Everything is
  stated over ages (`Age`, the distance from the commit pointer), so that one
  lemma, `RingStep`, carries the arithmetic of a cycle: dual commit subtracts
  the number retired from every age. `FlushNext` is the case of a flush, the
  `...Next` lemmas are the parts of the other one. `CoreInOrder` is the
  refinement of `InOrderCore` from `IInv`: `WindowShifts` shows what an edge
  without flush does to the window, place by place; `OutgoingStep` that the
  committed ring loses its head on a grant and gains what `commit_lsu_o` pops;
  `StoredIs`, from `StoreAgreement`, that this is the id of the retiring store.
  In a cycle with a flush no store retires (this is where `Quiet` is needed), so
  it maps to a step that retires nothing and empties the window.
  `WriteBacksOwned` and the lemma `IssueEnvironment` show that the core is an
  environment as `IssueRead` assumes it.

The proofs also corrected the models: `port_d` of `LoadUnit` and `IIR` of
`ApbUart` were CASE expressions whose guards overlap, which leaves the choice
open where the code has a priority; both are now IF chains in the code's order.

Only model-checked:
- liveness (`CommittedDrains`, `InFlightLeaves`, `AmoServed`, `PortFreed`,
  `Transmits`, `Receives`, `CallsReturn`, `Ends`, `Boots`, `AllReleased`):
  fairness is outside the prover's reach;
- the checksum (`BlockChecked`): recursion over data.

## 6. Findings

With runs:

1. `alarm_flush`: the alarm's exception is raised on whatever is in the commit
   stage; a store there is committed while the pipeline is flushed
   (`store_buffer.sv:258`, `commit_stage.sv:129`).
2. `uart_complete`: `UART_tx_complete` reads the line status before the size;
   with the service routine in between it reports bytes that are still in the
   FIFO as sent (`uart.h:752`). That the buffer may be reused then still holds
   (`CompleteMeansCopied`).

Further disagreements met while modelling; each can be reproduced by the
instance named:

- Single-stepping a store: `csr_regfile.sv:795` enters debug mode in the cycle
  in which the store retires, so the store buffer sees commit and flush
  together, and its speculative ring is off by one afterwards. (`CommitPath`
  with the program {Sw, Dcsr, DebugRequest, Dret} and `NoCommitWhileFlushing`.)
- An MRET in the commit stage when the alarm is raised asserts `eret_o` and
  takes the exception in one cycle (`csr_regfile.sv:1191`). ({Mret, Return,
  Marker} and `NoEretWithException`.)
- `UART_set_rx_handler` computes the new FCR from a read of the address, which
  returns IIR: it may switch the FIFOs off or clear them (`uart.c:393`).
  (`TriggerLevelOnly`.)
- `UART_enable_irq` with a transmit interrupt, or an `UART_irq_tx` while one is
  enabled, runs the handler on a half-written instance and leaves the interrupt
  enabled (`Patient = FALSE`: `ThreDisabledWhenDone`, `WireOrder`). In the first
  case the application has read IER before the service routine clears a bit in
  it, and writes the bit back (`uart.c:279`, `:366`).
- An interrupt without a handler is not acknowledged and is taken again at once
  (`uart.c:686`): with `Masks = {{"LS"}}`, for which no handler can be installed,
  or with an enabled receive interrupt before `UART_set_rx_handler`
  (`Patient = FALSE`), `CallsReturn` fails.
- `UART_get_rx_status` writes back a sticky status it read before the receive
  handler added to it, or clears it after (`uart.c:517`): with the program
  {`set_rx_handler`, `get_rx_status`} an overrun is lost. `ErrorsKept` is
  therefore stated for the time before the interrupt is enabled.
- Nothing in the shipped sources calls `uart_isr`: external interrupts (vector
  11 of `vectors.S`) end in `__no_irq_handler`. `Dispatch = TRUE` is what the
  driver needs from the platform; with FALSE `Transmits` fails.
- `scoreboard.sv:225` and `:392` say that only one instruction in flight writes
  a register. Instructions that trap are issued without the check, and behind a
  waiting SFENCE.VMA with a destination (an encoding whose check
  `decoder.sv:158` overwrites) the bypass lets a second writer pass. Neither is
  visible: what is involved never retires. `OneWriter` is stated for the others.
- The comment at `issue_read_operands.sv:166` excludes CSR results from
  forwarding; for SFENCE.VMA the code forwards them. Without an MMU its operands
  have no effect.
- `crc7` combines its arguments by `&` where its comment names a polynomial
  (`Crc7IsPolynomial` fails). `sd_copy` uses it for the checksum byte of CMD18
  (`sd.c:153`), which is 1 for every address; a card in SPI mode does not look.
- The reply to CMD12 is ignored (`sd.c:205`). A card that misses the command goes
  on sending, one of its data bytes may pass for the reply to the next CMD18, and
  the blocks copied then have right checksums but are not the ones asked for:
  without `card.missed` in `JumpOnlyLoaded` TLC finds a jump into them.
- The CLINT reads back 0 for the software interrupts of harts with an odd number
  (`clint.sv:138`; the write at `:100` and the timer registers honour the half of
  the bus word). The barrier of `smp.h` does not wait for those harts:
  `FullBarrier` fails on the instance of `smp_boot`, with hart 0 in the image
  while harts 1 and 3 have not taken their interrupt.
- `startup.S` calls `main` and then releases the other harts, but `main` never
  returns: with `MainEnds = {"jump", "spin"}` the others stay parked for ever. On
  this single-core board nobody waits.

The passing runs therefore leave single step and the monitor's pattern out of
their programs, keep to `Patient` applications that enable only interrupts with
a handler, and to a dispatching platform.

## 7. Not modelled, and plan

Most of the lines of C in the repository are generated or vendored
(`ps7_init*.c`, benchmark data sets, `encoding.h`, `bootrom.h`, the Zephyr
workspace, example applications): register tables, data and test programs
without a state machine of their own. They are not modelled, and the share of
C lines that the modules stand for stays small for that reason: the program's
own logic is the RTL, the driver and the boot ROM.

Next, in this order:
1. Frontend: instruction queue with replay (`instr_queue.sv:199`), realigner,
   return-address stack; then the instruction cache.
2. The trap stack of the CSR file (delegation, nesting, debug), the serial
   divider as a pure algorithm, CLINT timer, PLIC, the AXI adapters.
3. Theorems: an atomic memory as the abstract specification of `DataCache`;
   registers in `CommitPath`, so that `IssueRead` is composed with it and not
   only its environment shown to be kept.

Not planned: MMU and PMP (not elaborated in this build), the write-back cache
(not built), the decoder tables, the ALU and the FPU (pure functions of
full-width words), `spi.c` (byte transfers over a Xilinx block), the OpenPiton
boot ROM, the debug module and other vendored libraries, FPGA scripts and
benchmarks.
