# A TLA+ verification of framework-XC32

framework-XC32 is an Arduino core for the PIC32MZ EF microcontrollers: the
Arduino API, the drivers of one board, a WiFi driver glue and vendored
middleware (FreeRTOS, lwIP, TinyUSB, FatFs, LVGL). This directory models the
parts of it that have behaviour over time of their own, checks them with TLC on
small instances, and proves the most important results with TLAPS for every
value of the constants.

Paths below are relative to the repository.

## 1. Inventory

Code runs in three kinds of context: the main loop (`forever()` in
`arduino.cpp`, a FreeRTOS task when FreeRTOS is used), other FreeRTOS tasks, and
interrupt handlers, which preempt the first two. There is one processor, so an
interrupt handler is never itself interrupted by the code it interrupts.

| Component | State it keeps | Operations | Interacts with | What is hard | What makes it correct |
|---|---|---|---|---|---|
| Software timers, `src/SYS_Timers/swTimers.c` | delta list `sTimers`, `timeout` of each node, static `oldTime` | `swTimerStart`, `swTimerStop`, `swTimerStarted`, `swTimerTaskHandler` | called from the main loop; reads `millis()` moved by the core timer interrupt; calls callbacks that call it back | deltas rewritten by every operation; callbacks change the list inside its loop; two reads of a moving clock | each timer expires at its deadline, in order, without drift; every millisecond is accounted for; the handler returns |
| UART, `cores/EFM/SerialUart.h` + `api/RingBuffer.h` | ring of received bytes, interrupt enable and flag | `begin`, `end`, `available`, `peek`, `read`, `write`, `flush`, `isr_callback` | receive interrupt stores, sketch reads | interrupt between any two accesses; unprotected `available()`; full/empty at the limit; a receiver that stops at an overrun | a bounded FIFO queue; `available()` never overstates; no byte stays behind |
| Process list, `cores/EFM/interface.c`, main loop `arduino.cpp` | linked list of callbacks, cursor of the pass | `addProcess`, `delProcess`, `exeProcess`, `forever` | other tasks add while the loop walks; processes add and delete | list walked outside the critical section while it changes | list is exact, no pointer dangles, every process runs |
| I2C master, `libraries/EFM/Wire` | two ring buffers, slave address, timeout, hardware status | `begin`, `end`, `beginTransmission`, `write`, `endTransmission`, `requestFrom`, `read`, `flush`, `setTimeOut` | bus with slaves that refuse or delay bytes | failure at every byte; status left over from an earlier transfer; late bytes | return values tell the truth about the bus and the buffers |
| Circular buffer, `api/cbuf.cpp` | storage, `_begin`, `_end`, `_size` | single and bulk read, peek, write, remove, resize | none | wrap-around copies in two parts; exact fits | a FIFO queue in which resizing loses nothing |
| Core timer, `cores/EFM/wiring.c` | `gMillis`, `gOldCoreTime`, `Timeout` | `millis`, `micros`, `delay*`, `CoreTimerHandler` | interrupt against every reader | a late interrupt counts several milliseconds at once and loses the remainder; wrap | `millis()` never runs ahead and falls behind by the latency only; delays end in a window that the latency stretches |
| Digital I/O and pin interrupts, `cores/EFM/wiring_digital.c` | `cn_counter`, callbacks, CN registers, INTCON | `attachInterrupt`, `detachInterrupt`, `c_handler`, `i_handler` | the pins of a port share one interrupt; an INTx line has its own, for one edge | 8-bit counter that attach and detach both move; edges while a pin is attached or the handler runs | attached pins are served, by their own callback and for the edges asked for |
| Software serial, `cores/EFM/SoftwareSerial.h`, `variants/.../variant.cpp` | receive buffer, table of receivers | construction, `begin`, `end`, `read`, `peek`, `available`, `write`, `flush`, `rxRead` in the pin's interrupt | change notice of the receive pin; core timer | positions without protection; objects that share slots; samples timed by polling | bytes arrive as sent, in a queue, at the object they are meant for |
| SPI, `libraries/EFM/SPI` | remembered settings, port registers | transactions, widths, dividers, transfers | none | remembered settings against registers that other methods change | settings and bit order on the wire are those asked for |
| PWM, `cores/EFM/wiring_analog.c` | timer and output compare registers | `PWM_Begin`, `PWM_writeDuty`, `PWM_writeValule`, `analogWrite` | channels share timers | a channel retimes the others; 16-bit periods | duty and frequency are those asked for |
| Analog input, `cores/EFM/wiring_analog.c` | none of its own | `ADC_init`, `ADC_Read` | hardware | | |
| `Stream`, `api/Stream.cpp` | timeout | `find*`, `read*`, `parseInt`, `parseFloat` | the device behind it, characters that come late | a timeout between any two characters; targets that repeat their own beginning | exactly the first match or number, nothing lost or read twice |
| `String`, `api/WString.cpp` | buffer, capacity, length | assignment, move, `concat`, `replace`, `remove`, `trim`, `reserve` | `malloc` that may fail | reuse of buffers, failure at any allocation | text, length and capacity agree |
| `pulseIn`, `api/wiring_pulse.c` | locals | one function | `micros()`, a pin | wrap of the clock, polling | the pulse's length, or 0 after the timeout |
| `Print`, `IPAddress`, `WMath`, `wiring_shift` | none over time | formatting, conversions | none | | |
| USB serial, `libraries/EFM/SerialUSB` | none of its own | wrapper of TinyUSB | registers a process | | |
| WiFi glue, `libraries/mrf24wn/arduino/v1` | waiting task, interface state | `WIFI_Init`, `wifi_set_state`, status callback, HAL, OSAL | binary driver, lwIP, FreeRTOS | notification before the waiter is known; link lost during the wait, in three steps | init reports success only after an address, and no address outlives its link |
| lwIP port, `libraries/lwip/port/sys_arch.c` | none of its own | one FreeRTOS call each | lwIP and application tasks | | |
| Board support, traps | registers | one-shot writes | none | | |
| Vendored libraries | | | | not this project's code | |

`PROJECT.json` has the same list with the status of each part, and under
"hazards" the lines at which this code is hard to test.

## 2. Modules

| Module | What it is |
|---|---|
| `TimerService` | abstract specification: timers armed with a due time, a clock that never passes a due time, expiry exactly when due |
| `SwTimers` | the delta list of `swTimers.c`; `MCSwTimers` gives intervals and modes |
| `RingTheorems` | lemmas for the modules of proofs: least numbers, joined sequences, remainders, windows of a ring |
| `SwTimersProofs` | theorems about `SwTimers` and `SwTimersRealTime` |
| `SwTimersRealTime` | `SwTimers` with the main loop's calls of the handler, and real time beside the time handed out |
| `ByteQueue` | abstract specification: a bounded queue that may refuse a byte only when full |
| `SerialUart` | the UART driver, its ring buffer and the receive interrupt |
| `SerialUartProofs` | theorems about `SerialUart` |
| `ProcessList` | process list, main loop and other tasks |
| `Wire` | the I2C master and the bus |
| `WireProofs` | theorems about `Wire` |
| `Cbuf` | the circular buffer |
| `CoreTimer` | the millisecond interrupt, `millis()`, `micros()` and the delays |
| `ChangeNotice` | change notification: `attachInterrupt`, `detachInterrupt` and `c_handler` of one port |
| `ExternalInt` | one INTx line and `i_handler` |
| `SoftSerialSlots` | the table of receivers that `SoftwareSerial` objects share |
| `SoftSerialFrame` | the bits on the wire between `write()` and `rxRead()` |
| `SoftSerialRing` | the receive buffer against the receive interrupt; implements `ByteQueue` |
| `SpiMaster` | settings, registers and bit order of `SPIClass` |
| `Pwm` | PWM channels and the timers they share |
| `PulseIn` | `pulseIn()` |
| `WifiLink` | `WIFI_Init()` against the link's events |
| `StreamText` | the searching and reading methods of `Stream` |
| `StreamParse` | `parseInt()` and `parseFloat()` |
| `WString` | `String`; `MCWString` gives literals |
| `InterruptsProofs` | theorems about `ProcessList`, `ChangeNotice`, `ExternalInt` and `MCInterrupts` |
| `PeripheralsProofs` | theorems about `WifiLink`, `Pwm`, `SpiMaster`, `CoreTimer`, `PulseIn` and `MCPeripherals` |
| `TextProofs` | theorems about `StreamText`, `StreamParse` and `WString` |
| `BuffersProofs` | theorems about `Cbuf`, the three `SoftSerial` modules and `MCBuffers` |
| `MCMainLoop` | `SwTimersRealTime` and `SerialUart` side by side for TLC |
| `MCInterrupts` | `ProcessList`, `ChangeNotice` and `ExternalInt` side by side for TLC |
| `MCPeripherals` | `Wire`, `SpiMaster`, `WifiLink`, `CoreTimer`, `PulseIn` and `Pwm` side by side for TLC |
| `MCBuffers` | `Cbuf`, `StreamText`, `StreamParse`, `WString` and the three `SoftSerial` modules side by side for TLC |

The last four put components together that share no state: the variable
`active`, chosen at the start, names the one that a behaviour exercises, and the
others stay in their initial state. The state space is the sum of the parts', and
each property is about its own part. So that they can be extended together, the
modules' definitions and variables have different names: `SpiInit`, `uartVars`, and
where two classes have a method of one name, `SPI_begin`, `SoftwareSerial_read`,
`String_remove`.

Definitions keep the names of the C functions and variables they model. Beside
some definitions stands a variant named for a slip (`StoppedTimeoutsForgets`,
`IRQ_DisableSkipped`, ...): the definition as a plausible bug would leave it.
Nothing uses the variants except "mutants" in `PROJECT.json`, each of which
names the property that finds it.

### SwTimers

The C list is the sequence `sTimers`, head first; `timeout[t]` is the field
`timeout`. `pc` says whether the main loop is in the sketch (`main`), in the
handler (`sync` between the two reads of `millis()`, `while` in the expiry
loop), in a callback, or in the search loop of `placeTimer` (`place`, with the
cursor `ppos` and the rest of the interval `prem`). `Tick` is the interrupt; it
is enabled in every state. Interrupts matter only where `millis()` is read, so
everything between two reads, or between two turns of a loop, is one step. An
interrupt that counts several milliseconds at once, as one that was late does, is
so many `Tick` steps with nothing between them.
History variables record the time handed out (`vt`), the deadline of each timer
on that scale, and the milliseconds lost. `swTimerStarted` reads only and is
the guard of `swTimerStart`. `swTimer()`, which fills in the fields of a timer
before it is used, is left out: `Interval` and `Mode` are constants.

Arithmetic is modulo `WORD` where the code subtracts times. The additions on
`timeout` are left without a modulus: `WaitBounded` and `TypeOK` show that they
cannot leave the range.

Assumed of the client: all calls come from the main loop, as the C code has no
protection; for termination, intervals are at least 1 ms.

### SwTimersRealTime

`SwTimers` says when a timer expires on the scale of the time handed out. This
module adds what a sketch sees: the main loop calls the handler once in every
pass (`addProcess(swTimerTaskHandler)` in `arduino.cpp`), and a pass takes at most
`LoopTime`, the one thing assumed of the rest of the loop. The handler's early
return, which `SwTimers` leaves out as it changes nothing there, is
`HandlerIdle`. `charged` is what had not been handed out when a timer was started:
`oldTime` is written only while some timer runs, so a timer started after an idle
period is charged all of it.

### SerialUart

Each access to a shared index or control register is a step of the sketch; the
interrupt (`IsrEnter`, `IsrStore`, `IsrReturn`) may come before each of them when
it is enabled, and the sketch does not move while it runs. `available()` reads
`_iHead` and `_iTail` in either order, as C leaves the order open. The hardware
(`Arrive`, `Overrun`, `Transmit`) is modelled from how the driver uses it: FIFOs of
`HwDepth` and a flag that cannot be cleared while bytes wait. A byte that finds the
receiver's FIFO full is lost and sets `oerr`, U1STA.OERR; with it set the receiver
takes nothing more. The driver never clears the bit: only `end()` does, which
zeroes U1STA. Bytes are numbered in the order of arrival.

The refinement maps the queue to the bytes between `_iTail` and `_iHead`; it is
empty as soon as the first of the two assignments of `clear()` is done.

### ProcessList

Nodes are numbers with fields `cb` and `next`; `live` is what `malloc` has given
out and `free` not taken back. A critical section is one step, every access
outside one is a step of its own. Each task has its own `pc`; the loop is the
task `LOOP`. `AddNoMemory` is `createProcess()` returning NULL.

Assumed of the client, as constants that say so: other tasks add only after
`forever()` has made the list (`EarlyTasks`), and a process does not delete
itself (`SelfDelete`). Both are listed as hazards: the code does not enforce
them. The allocation of the list itself is taken to succeed.

### Wire

A transfer is one step per bus condition or byte. Every byte sent has a fate:
acknowledged, refused, or late, when `_send()` gives up and `HwFinish` finishes
it at some later moment. `bus` is the history of the current transfer. Busy-wait
loops on hardware bits are the guards of the steps: a module that is switched
off never completes `_start()`, and the sketch hangs there, which is why this
run does not check deadlock. Writing 0 to the status register may or may not
clear `ACKSTAT`, which belongs to the hardware; both are tried. `requestFrom()` returns a
`uint8_t`: `StopCondition` reduces the number of bytes modulo `UINT8`, and
`ReceivedExactly` promises no more than that.

### Cbuf

Pointers are offsets; each method is one step. Copies of blocks are made in the
two parts the code makes. A write outside the storage is undefined in C; the
model drops it and a read outside gives 0, which only happens in the run
`cbuf_exact_fit`. `ExactFit` says whether callers may resize to exactly one less
than what is available.

### CoreTimer

`ticks` counts the ticks of the core timer since reset, `ReadCoreTimer()` is its
remainder modulo `WORD32`. `Count` is the hardware: it sets the flag when the
counter meets the compare register. `CoreTimerHandler` may run up to
`MaxLatency` ticks after that; other handlers and critical sections are what
delays it. This may be more than a millisecond, `SoftwareSerial::write()` masks the
interrupts for the ten bits of a frame, 1.04 ms at 9600 baud: the handler then
counts two milliseconds or more at once (`Increment`). All that is assumed of the
latency is that a late interrupt is not mistaken for a turn of the 32-bit counter
(`CoreTimerAssumption`). The loops of `delay()`, `delayMicroseconds()` and
`while (Timeout)` poll; a loop whose condition has failed is left within a
millisecond and a latency (`Overdue`). The history variables `ms`, `oldTicks` and
`began` keep what the code keeps modulo 2^32.

The milliseconds that a late handler counts at once include those before the call
of a delay: the delay ends that many milliseconds early, which `DelayWindow` says
with `MillisLate`.

`micros()` masks the interrupt while it reads, so it is one step. `delay()` is
the busy loop used without FreeRTOS or before the scheduler starts.

### ChangeNotice and ExternalInt

Each register or variable that `attachInterrupt()`, `detachInterrupt()` and
`c_handler()` write is a step; the handler may come between any two steps of the
sketch, and the sketch waits while it runs. `how`, `unanswered`, `owed` and `drops`
are history. External: the port's request, which the hardware raises as long as an
enabled pin has an event whatever `IRQ_Clear()` does, and one bit per pin for events,
so that two edges before the callback are one event. The bit is in CNF while the
port is in edge detection and in CNSTAT while it is not; `attachInterrupt()` selects
one of the two for all pins of the port and clears the pin's bit in CNF only, while
`c_handler()` reads and clears both. An event left in CNSTAT therefore survives
`attachInterrupt()`. `cn_counter` counts modulo `COUNT`,
256 in the code. In `ExternalInt` attaching is one step, because the line's
interrupt is disabled until the last write.

### SoftSerialSlots, SoftSerialFrame, SoftSerialRing

Three views of one class. `SoftSerialSlots` keeps, for each object, the slot its
constructor was given and the slot its pin's interrupt calls; `SendOnly` says
whether there are objects that do not receive. `SoftSerialFrame` counts core timer
ticks: `WaitBitTime` polls, so every wait may overshoot, and the interrupt comes
with a latency. `FrameAssumption` has the two inequalities that the timing
needs: the late samples must still be inside their bit, and the last sample,
which the code takes a ninth of a bit before and after the nominal place, must be
past the last data bit. `SoftSerialRing` has a step for each access to the
positions, since nothing masks the interrupt; refusing a byte sets `m_overflow`.

### SpiMaster

One step per method. `brg_hz`, `bit_order` and `bit_size` are what the class
remembers, `brg`, `width` and `spi_on` the registers; `divided` and `ended` record
where the code writes a register past what it remembers: `RemembersRegisters` and
`ClockNearAsked` hold outside these histories, which is all the code provides. `setDataMode()` writes
nothing (section 6). Frequencies are scaled down. Transfers are modelled for a
port 8 bits wide, and 16 bits in `fillColor` and `drawImage`, which set the width
themselves.

### Pwm and PulseIn

A period register of `Period` values stands for 16 bits. `retimed` is the set of
channels whose timer another channel has set to a different frequency since; the
code keeps nothing of the kind. The duty is multiplied out in floating point and
truncated: where the product is a whole number, rounding may leave the register
one count below it (`Compares`), and `DutyHolds` allows that count. In `PulseIn` each reading of the clock and of the
pin is a step, with at most `MaxGap` microseconds between two of them, and
levels last longer than two gaps; the clock wraps at `Word`.

### WifiLink

`WIFI_Init()` takes four steps, between which the tasks of the driver and of lwIP
run. `ip` is the number of the link the address was leased on. A lost link is three
steps of `wifi_set_state()` (`Disconnected`, `DhcpStopped`, `AddressGone`), between
which `WIFI_Init()` may be notified and DHCP may still bind an address; `closing`
says which comes next. `had` is history: has there been an address since
`waiting_task` was assigned? External: the driver reports each change of the link
once; `netif_set_up()` and `netif_set_down()` call the status callback, and so does
a lease; a notification stays until it is taken.

### StreamText, StreamParse, WString

A timeout may happen wherever nothing waits to be read: in `StreamText` whenever
`waiting` is empty, in `StreamParse` at a `Pause` in the input. `readString()` and
`readStringUntil()` do not look whether `ret += c` found memory: `LoseChar` is a
character that was taken from the stream and not placed. The parsing loops test for
the ignored character before they look for a sign, a point or a digit (`ReadAs`), so
that the ignored character may be any of these. Two digits stand for ten. Left out
of `StreamParse` is the overflow of the `long`: its numbers are unbounded. A float is kept as its
digits and the number of them after the point. `WString` has one step per method,
with `mem` telling whether an allocation succeeds; `GrowAny` says whether a
find of several characters may be replaced by something longer. The memory
behind a text is its `capacity`; a text longer than it is what `Fits` rules out.
When `move()` keeps the receiving buffer, its source is left with its text and the
length 0; `moved` names such Strings. Every operation on them is modelled but two:
copying or moving one before it gets a new text, which hands on a text and a length
that disagree (a hazard of `PROJECT.json`).
The two loops of `replace()` are functions of the number of turns (`Forward`,
`Backward`): a turn reads a character at least, so there are no more turns than
characters. `AllReplaced`, the text the caller expects, is a scan from the left that
knows neither loop.

## 3. Runs

| Run | Bounds | Shows |
|---|---|---|
| `timers` | 3 timers (one periodic of 2 ms, two one-shot of 1 and 3 ms), 6 ms, counter modulo 4 | list exact, no drift, time accounted, refinement of `TimerService`; the handler leaves its loop |
| `main_loop` | a periodic timer of 3 ms and a one-shot one of 2 ms, passes up to 2 ms, 7 ms; UART: ring of 3, FIFO of 2, 5 bytes | how early and how late an expiry can be; order, kept promises of `available()`, refinement of `ByteQueue`; FIFO drained, `write()` returns |
| `interrupts` | process list: 3 callbacks, 3 nodes, one other task, 2 further calls of `addProcess`; change notice: 2 pins, one with an INTx line, counter modulo 3, 4 calls; INTx: 4 calls | list exact, no dangling pointer, every registered process runs; which edges are served and when the port's interrupt goes off; what a single-edge line tells |
| `peripherals` | Wire: 1 address, 2 byte values, buffers of 3, timeouts 0 to 3, answers modulo 3; SPI: 5 frequencies, divider of 4 bits, 3 words; WiFi: 3 links; core timer: 4 ticks per ms, 2 per us, words modulo 11, latency up to 5 ticks, delays up to 2, 52 ticks; `pulseIn`: clock modulo 32, 4 starts, 3 timeouts; PWM: 3 channels on 2 timers, period of 4 bits, frequencies down to a prescaler of 64 | what results, settings and delays promise |
| `buffers` | `cbuf`: storage up to 4, 2 byte values; `Stream`: 7 characters, 5 targets; parsing: every input of up to 4 characters and pauses, none or one of `x`, `-`, `.`, `1` ignored; `String`: 2 strings of up to 4 characters, 5 literals; software serial: 3 objects on 2 slots, 2 frames of 3 bits at 18 ticks a bit, buffer of 3, 6 bytes | FIFOs whatever wraps; first matches and numbers against plain definitions; text, length and capacity agree; bytes arrive as sent |
| `wire_ack`, `wire_timeout`, `cbuf_exact_fit`, `softserial_send_only`, `wifi_timeout`, `wstring_replace`, `parse_minus` | smaller instances | seven disagreements, section 6 |

A component's promises are stated one by one in its module and checked together
under one name:

| run | property | its parts |
|---|---|---|
| `timers` | `ListInv` | `TypeOK`, `NoDuplicates`, `DeltasExact`, `SearchExact`, `Sorted`, `DueWindow` |
| `interrupts` | `ListSound` | `ListExact`, `NoDangling` |
| | `PortInterruptSound` | `OffOnlyOnWrap`, `UnclaimedOnlyWhileAttaching` |
| | `EdgesAsAsked` | `EdgeAsked`, `TellsTheLevel` |
| `peripherals` | `TransfersExact` | `SentExactly`, `NothingVanishes`, `ReceivedExactly` |
| | `BusDiscipline` | `BusReleased`, `SendsOnlyWhenAcked` |
| | `PortAsAsked` | `RemembersRegisters`, `ClockNearAsked`, `WireOrder` |
| | `AddressRight` | `AddressFresh`, `OkHadAddress` |
| | `TimeKept` | `MillisLag`, `NextTickComes`, `MicrosNotAhead`, `MicrosStepsBack` |
| | `DelaysHold` | `DelayWindow`, `MicroDelayHolds` |
| | `PulseRight` | `Measured`, `GivesUpOnTime` |
| | `OutputRight` | `DutyHolds`, `FrequencyNear` |
| `buffers` | `CbufExact` | `NothingLost`, `RoomAgrees`, `OldestFirst` |
| | `TextExact` | `LongestMatch`, `FirstMatch`, `ReadsExactly` |
| | `StringRight` | `TextRight`, `Fits` |
| | `SlotsRight` | `Routed`, `NoSlotLeaks` |
| | `RingRight` | `ImplementsQueue`, `PromiseKept` of `SoftSerialRing` |
| the last three | `TypesOK` | the type invariants of the run's components |

Why the bounds are enough. Three timers give a list with a first, a middle and a
last node, so that every operation meets a node with and without neighbours; 6 ms
with a counter modulo 4 let the counter wrap and several intervals pass in one
run of the handler. In real time 7 ms hold an idle period, a start, a late pass and
two expiries of the periodic timer. A ring of 3 holds two bytes: empty, full and
between, with indices that wrap over 5 bytes, and a FIFO of 2 can overflow and stop
the receiver.
Three nodes let a deleted node be the head, in the middle or last, and be
allocated again during the pass; running out of them is the failure of `malloc`.
Two pins of a port are enough for one to disturb the other, and 4 calls are those that
bring a counter modulo 3 to 0 under an attached pin. For Wire three bytes give a first, a middle and a
last one; timeouts 0 and 1 are the edges of the poll counter, and an answer of 3 bytes does not
fit a `uint8_t` of 3 values. SPI frequencies lie on
both sides of half the bus clock. Three links let an address be leased, lost
and leased again during one wait. A latency of 5 ticks with 4 to the millisecond makes
the handler count one or two milliseconds; 52 ticks are 13 ms, so the tick counter, the
milliseconds and the microseconds all wrap modulo 11. The starts of `pulseIn`
lie before, at and after the point from which its deadline wraps. Two channels
share a timer and a third has its own. A storage of 4 lets a two-part copy have
more than one byte in a part. The targets of the searches repeat their own
beginning and contain each other; the longest has 5 characters of 7. The literals
of `String` overlap themselves, and 4 characters hold two matches of a find of two.
The two Strings are alike, so their permutations are a symmetry; no property of that
run is about liveness. Two frames
back to back are what the handler's clearing of the flag could disturb; 3 bits
let the overshoots of the waits add up, and the tick counts make the two
inequalities of `FrameAssumption` nearly tight.

`CHECK_DEADLOCK FALSE` stands where the model really may stop: the timers at the
last millisecond, the core timer at the last tick, the UART with everything
received and `write()` waiting on a UART that is off, Wire on a module that is
off, a call of `pulseIn()` or `parseInt()` that has returned, pins whose calls are
used up, frames all sent.

### Fairness

- `SwTimers`: the processor executes the handler (weak fairness of its steps);
  a callback returns after finitely many calls (strong fairness of its return,
  since between two calls it may return and during a call it may not).
- `SerialUart`: code that runs goes on; a pending interrupt is taken as soon as
  it is enabled, even when the sketch masks it again soon (strong fairness of
  `IsrEnter`: the processor takes it before the next instruction of the sketch);
  the transmitter drains while it is on. Nothing obliges the sketch to call.
- `ProcessList`: the scheduler runs the loop's task, and a process returns. The
  number of registrations is bounded by `MaxAdds`; this is needed and not only a
  bound of the state space: processes that delete and re-register each other
  for ever can keep a pass from ending.
- `ChangeNotice`: the handler's steps, and those of the sketch while no enabled
  interrupt is requested: requested handlers go first. Edges are free to come;
  `CallReturns` is about behaviours in which they pause (`EdgesPause`), because
  edges that never pause leave the sketch no time on any processor.

For the last two the fairness stands in `MCInterrupts`, for the component that
is active; that of `SerialUart` is `UartFairness`, which `MCMainLoop` adds to its
specification.

## 4. What is proved

For every set of timers, every interval and mode, every word size and every
bound on time (`WordAssumption`, `TimersAssumption`, `BoundAssumption`),
`SwTimersProofs` proves:

- `ListCorrect`: `ListInv` always holds, so that the list holds no timer twice,
  each delta is the distance of two deadlines, and the search of `placeTimer` is
  exact;
- `WaitsStayBounded`: no wait exceeds its timer's interval;
- `PeriodicTimersDoNotDrift`: a periodic timer is placed again exactly when due;
- `TimeIsAccountedFor`: time handed out, in hand and lost add up;
- `Refinement`: `SwTimers` implements `TimerService`;
- `EarlyByTheChargeOnly`, `LateByTwoPassesOnly`: the two bounds of
  `SwTimersRealTime`, for every bound `LoopTime` on a pass.

The inductive invariant is `ListInv`. `DeltasExact` alone is not inductive: the
search loop of `placeTimer` is in the middle of its work when callbacks and
insertions are considered, hence `SearchExact`; removing a node needs to know
that it occurs once, hence `NoDuplicates`; subtractions must not go below zero
and the successor's addition not beyond its interval, hence `Sorted` and
`DueWindow`. The refinement maps the clock to `vt`, the armed timers to the
elements of the list and due times to `deadline`.

In real time, `EarlyInv` says that a deadline is, with the milliseconds lost added, at
least an interval after the start less the charge; together with the account of time
that gives the first bound. `LateInv` gives the second: outside the handler, an armed
timer was started since the handler's last call, or that call handed out all there
was, or it found the counter where it had been; inside it, the deadline or the start
is at most a pass before the call. That the handler's early return mistakes a whole
turn of the counter for no time at all is the third case, and costs no pass of its own.

For every ring size and FIFO depth (`SizeAssumption`), `SerialUartProofs` proves:

- `UartTypes`: the indices stay in the buffer;
- `PromisesAreKept`: `available()` never overstates, although unprotected;
- `RoomsAgree`: `available`, `availableForStore` and `isFull` agree;
- `QueueRefinement`: the driver implements `ByteQueue`;
- `BytesAreInOrder`: bytes come out in the order of arrival, whatever the ring
  loses and the receiver misses while an overrun has stopped it.

Its invariant `UartInv` adds to the types that the interrupt is masked and not
running while `read()`, `peek()`, `flush()` and `end()` touch the ring, and what
the half-read index of `available()` says about the indices. `OrderInv` says of
the ring's bytes and the FIFO's that both increase, that every byte of the ring is
older than every one of the FIFO, and that none is older than the last answer. A
step of the interrupt only moves bytes from the FIFO to the end of the ring or
drops them, and a step of the sketch only takes from its front (`InterruptMoves`,
`SketchTakes`), so order is preserved without looking at the steps again.

`InterruptsProofs` proves `ListIsSound`, for any nodes, callbacks and tasks: the
list is what the registrations asked for, and no pointer that the loop or a task
will follow dangles. It assumes `~EarlyTasks` and `~SelfDelete`, the two
conditions of the client that the code does not enforce (section 2). That a chain
of `next` fields is finite and has no cycle is not a first-order formula over the
fields; the invariant `ListInv` therefore says that there is a sequence without
repetitions that the chain spells (`Linked`), and that the walks of `exeProcess()`
and `delProcess()` stand at a position of it (`WalkAt`). The sequence must be the
value of the recursive function `ChainOf` by which `ListExact` reads the list:
that a function with its equations exists is shown by building it along the
sequence.

`WireProofs` proves, for all addresses, byte values, buffer sizes and timeouts,
`WireTyped`, `TransfersAreExact` (`SentExactly`, `NothingVanishes`,
`ReceivedExactly`) and `BusIsDisciplined`. `WireInv` gives for every point of a
transfer the shape of what is on the bus (start, address, the bytes so far), what
is left in the ring buffers, and that past the address the module is neither
busy nor refused: without the last part a byte could follow one whose answer is
still to come.

Also in `InterruptsProofs`, for every set of pins and every width of the counter:
`CnTypes`, `PortInterruptIsSound`, `CallsHaveEdges`, `IntTypes` and
`EdgesAreAsAsked`. `CallsHaveEdges` says that no edge brings two callbacks, and that
the callback of an attached pin runs for an edge seen since it was attached or for an
event that was left in CNSTAT. `CnInv` has four parts that do not hold without each other: where
the sketch stands in `attachInterrupt()` or `detachInterrupt()` (`SketchInv`), that
the calls that lowered `cn_counter` and its value add up to a multiple of its range
(`CountInv`), that an enabled pin has a callback or is about to get one
(`EnabledInv`), and whose events may be pending (`EventInv`).

`PeripheralsProofs` proves:

- `WifiAddressIsRight`: an address belongs to the present link or the one being taken
  down, and success is reported to a waiting task only if there was one during its
  wait;
- `OutputIsRight`, for any channels and timers: duty, within one count of the compare
  register, and frequency of PWM;
- `PortIsAsAsked`, for any words of 16 bits, frequencies and dividers: the SPI
  registers against what the class remembers, and the order of the bits of a word;
- `TimeIsKept`, for any tick rate, word sizes and any latency that the counter can
  hold, milliseconds included: the lag of `millis()`, the
  next interrupt being always due, and how far `micros()` may step back;
- `DelaysAreKept`, under the same latency: the window in which `delay()` and `Timeout`
  end, and that `delayMicroseconds()` is short only if `micros()` has stepped back;
- `PulseIsRight`, for any polling gap and clock width: what `pulseIn()` measures.

The clock properties are about a counter that wraps, so their invariants (`TimeInv`,
`WaitInv`, `PulseInv`) say by which multiple of the word a remainder differs from the
time that went by, and that nobody waits long enough for two of them.

`BuffersProofs` proves:

- `CbufIsExact`, for every size of storage and byte values: nothing is lost, invented
  or reordered by any sequence of methods. `CbufInv` says that the ith byte kept is in
  the ith cell from `_begin`; the copies in two parts and in one are shown to read and
  write these cells (`CopiedIs`, `WriteNKeepsCbufInv`);
- `SlotsAreRight`, for any objects and slots: each receiver owns the slot it remembers,
  which is what makes its interrupt reach it;
- `RingIsRight`, for every buffer size: the unprotected receive buffer implements
  `ByteQueue`, and `available()` keeps its promise;
- `FramesAreReceived`, for every bit time, number of bits, latency and overshoot within
  the two inequalities of `FrameAssumption`: every frame that `write()` sends is
  received once, in order. Neither side knows the other's clock; `FrameInv` bounds how
  long after the end of the present level the next sample is due (`InTime`), and
  `LevelLasts` derives from the two inequalities that the level sampled is the one
  meant.

`TextProofs` proves:

- `TextIsExact`, for any targets, texts and reading lengths: `findMulti()` stops at
  the first complete target and misses none, and a reading method consumes what it
  places, what it found no memory for, and at most the terminator. `FindInv` says that `index[t]` is the length of
  the longest beginning of the target with which the text consumed ends
  (`IsLongest`), and that no target was complete before. One more character may end
  that match; the loop then tries ever shorter beginnings until one can go on, and
  the proof shows that what it skips cannot be the end of the text either: a
  beginning that ends the text also ends the longer one just given up.
- `NumbersAreParsed`, for any input, pauses, lookahead and ignored character, a sign,
  a point or a digit included: `parseInt()` and `parseFloat()` return what starts like
  a number first, sign and fraction included, 0 if no digit follows, and leave the
  stream behind it, for numbers that fit a `long`. `ParsedExactly` reads the number
  off the whole input; `ParseInv` says where the reader stands in it, that what it
  passed is to be skipped or belongs to a number, and that `number` is the value of
  the digits so far (`ReadSoFar`).
- `StringIsRight`, for any strings, literals and failures of memory: a String holds
  the text its operations ask for, its length is right, and the text fits its memory;
  one that was moved from has the length 0.
  Most of the work is `replace()`: `ForwardIs` and `BackwardIs` show that both loops
  compute `AllReplaced`, and that the matches the first one counts (`Times`) are those
  by which the text grows, so that the size computed is the size written. `ReplacedIs`
  puts them together; there, the backward loop needs a find of one character,
  since only then does it see the same matches as the scan from the left.

The type invariant of every component is a theorem too (`TextTypes`, `ParseTypesOK`,
`StringTypes`, `ListTypes`, `CnTypes`, `IntTypes`, `CbufTypes`, `SlotsTypes`, `RingTypes`,
`FrameTypes`, `SpiTypes`, `WifiTypes`, `CoreTypes`, `PulseTypesOK`, `PwmTypes`,
`UartTypes`, `WireTyped`). That a behaviour of one of the three compositions is a
behaviour of each of its components is proved as well (`InterruptsAreComponents`,
`PeripheralsAreComponents`, `BuffersAreComponents`): what is proved of a component
therefore holds in the run that checks it. From both follow `InterruptsTypesOK`,
`PeripheralsTypesOK` and `BuffersTypesOK`.

Some theorems exclude a case, as a hypothesis that is a constant or a formula
over constants, and each excluded case is one that the code gets wrong or that
its hardware cannot express:

| Theorem | Hypothesis | What it excludes |
|---|---|---|
| `CbufIsExact`, `CbufTypes` | `~ExactFit` | disagreement 3 of section 6 |
| `SlotsAreRight` | `~SendOnly` | disagreement 4 of section 6 |
| `StringIsRight`, `StringTypes` | `~GrowAny` | disagreement 6 of section 6 |
| `ListIsSound`, `ListTypes`, `InterruptsTypesOK` | `~EarlyTasks`, `~SelfDelete` | two uses of the process list, listed as hazards |
| `BuffersTypesOK` | `~ExactFit`, `~GrowAny` | disagreements 3 and 6 |
| `OutputIsRight` | `NoneNeedsTheLast` | frequencies that need the prescaler 1:256, which the code takes for 1:128 |
| `PortIsAsAsked` | `DividersFit` | frequencies whose divider is wider than the baud rate register |
| `DelaysAreKept` | `DelaysFit` | delays whose milliseconds, counted once for the delay and once or more for the latency, do not fit the counter: with a handler less than a millisecond late those of half its range and more, 24 days for `delay()` |

The instances that TLC checks satisfy all of them. The assumptions on constants are
those of the modules themselves (`CoreTimerAssumption`, `PulseAssumption` and so on), which
TLC evaluates in every run.

Where a proof needs induction over numbers, it takes the least number for which the
claim fails (`LeastNat` of `RingTheorems`), because the library's induction theorems
take an operator as parameter. For the same reason a function defined by recursion
(`ChainOf`, `Magnitude`, the turns of `replace()`) is shown to exist by taking the least
length for which it would not.

Every safety property that a passing run checks, invariant or action property, and
every refinement is the subject of a theorem. Only model-checked are the liveness
properties, since fairness and ENABLED are out of the prover's reach:
`EveryProcessRuns`, `EdgeServed`, `CallReturns`, `Drained`, `WriteReturns` and
`HandlerReturns`; and, by their nature, the seven disagreements of section 6.

## 5. What is not modelled, and why

- Core timer: the callback of `msSetup`, the interrupt enable bit (its effect is
  the handler's latency) and the FreeRTOS branches of `delay()` and `yield()`.
  `Elapsed()` in `interface.c` has no caller.
- `swTimer()`, which initialises a timer.
- UART: baud rate arithmetic, pins, priorities and the redirection of `printf`.
- `interface.c`: `pinMux`, `strdup`, `my_assert` and the FreeRTOS hooks keep no
  state that another part reads, or abort.
- Wire: `setClock` writes one register. How long a busy-wait lasts is abstracted
  to whether `_send()` gives up.
- Pin interrupts: `pinMode`, `digitalRead`, `digitalWrite` and `digitalToggle`, which
  are single register accesses; which edges CNCON and CNNE select; priorities.
- Software serial: inverted logic and the transmit-enable pin.
- SPI: pin routing, `MosiEnable`, `MosiDisable`, and the received half of a
  transfer, which mirrors the one sent.
- `String`: comparisons, searches, conversions and case changes, which touch
  neither length nor capacity; appending a String to itself, where `strcpy`
  copies overlapping memory and C promises nothing; copying a String that was moved
  from. `Stream`: the overflow of the `long` in `parseInt()` and `parseFloat()`.
- The WiFi driver is a binary library: what it does with the interrupt hand-off
  and the SPI transfers of `wdrv_mrf24wn_hal.c` is not in the repository.
- `sys_arch.c`, the port of lwIP, and the driver's operating system layer: each
  function is one call of FreeRTOS and keeps no state; a model would be one of
  FreeRTOS.
- USB serial passes everything to TinyUSB; `ADC_init` and `ADC_Read` wait for
  hardware bits; `Print`, `IPAddress`, `map()` and the shift functions compute and
  keep nothing.
- The process list before `forever()` has made it: `addProcess()` allocates the
  list outside its critical section and another task may use the head before it
  is set. An uninitialised pointer leaves nothing to state.
- Vendored libraries, board start-up, exception traps.

## 6. Disagreements met while modelling

1. `wire_ack`: `requestFrom()` acknowledges the last byte and refuses the
   others; the comments in `Wire.cpp` ("nack the last one", "ack all other") say
   the reverse. `_ack(ack)` adds its argument to `REG_CLR`, so 0 clears ACKDT,
   which acknowledges.
2. `wire_timeout`: `_idle()` reports a timeout when the last allowed poll found
   the module idle, and none when the polls are used up, because the counter is
   decremented once after the comparison.
3. `cbuf_exact_fit`: `resize()` accepts one byte less storage than the data
   needs; its comment says that it does not lose data.
4. `softserial_send_only`: the header offers objects with one direction only; the
   destructor of one that only sends clears the slot number it was shown, which
   by then may be a receiver's, and the receiver's interrupt calls through NULL.
5. `wifi_timeout`: `waiting_task` is set after the driver was started; a link that
   is up by then notifies nobody, and `WIFI_Init()` reports a timeout.
6. `wstring_replace`: `replace()` with a longer text computes its size from the
   matches found from the left and replaces from the right, where it also finds
   matches that end in what it has just written.
7. `parse_minus`: `parseInt()` "returns the first valid (long) integer value"; its
   lookahead stops at any `-`, and one that is not followed by a digit ends the call
   with 0 although a number comes after it.

More were met and follow from reading the lines alone; no run is spent on
them:

- `setDataMode()` in `SPI.h` compares its parameter with itself, so that no mode
  other than 0 ever reaches the port.
- `PWM_timer_init()` divides by `1 << 7` where TCKPS = 7 selects 1:256
  (`include/plib/peripheral_mz/timer.h`): such a frequency comes out halved. The
  frequencies of the run need at most a field of 6.
- `attachInterrupt()` clears the pin's bit in CNF under the comment "clear CN IRQ
  flag" (`wiring_digital.c:160`); a pin in mode CHANGE has its event in CNSTAT, where
  it stays and brings the new callback a call for an edge before it was attached.
- An overrun sets OERR, which the UART driver never clears: after one interrupt that
  came too late nothing is received any more until `end()`.
- A handler that is late by more than a millisecond, which `SoftwareSerial::write()`
  causes at 9600 baud, lets `delay()` end up to that many milliseconds early.
- `move()` leaves its source with the old text and the length 0; a copy of it has
  that text too.
- `netif_set_down()` calls the status callback while the interface still has its
  address, and the callback takes that for success: `WIFI_Init()` may return 0
  because the link was lost during the wait. `OkHadAddress` says only that there
  was an address at some moment of it.

## 7. What is left

The plan was to model the components in the order of section 2, to check them, and
then to turn what the runs check into theorems. What remains of it:

1. Liveness, which only TLC checks, on the bounds of section 3.
2. The parts that section 5 leaves out and that have behaviour of their own: the
   FreeRTOS branches of `delay()` and `yield()`, and the process list before
   `forever()` has made it. Both need a model of the scheduler first.
3. `replace()` with a find of several characters and a longer text: once the code
   is mended (disagreement 6), `~GrowAny` can be dropped from `StringIsRight`.
