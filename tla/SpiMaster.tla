------------------------------ MODULE SpiMaster ------------------------------
(***************************************************************************)
(* SPIClass (libraries/EFM/SPI/SPI.h): the registers of one SPI port and   *)
(* the settings the class remembers so as not to write them again.  A byte *)
(* is a function from the number of a bit to 0 or 1; the hardware shifts   *)
(* the highest bit out first.  Pin routing and MOSI switching are left     *)
(* out.                                                                    *)
(***************************************************************************)
EXTENDS Integers, Sequences, SequencesExt

CONSTANTS Hz,         \* frequencies the sketch asks for
          BeginHz,    \* the one begin() asks for, 1 MHz in the code
          SPICLK,     \* SYS_CLK_BUS_PERIPHERAL_1, scaled down
          BRGS,       \* the range of the baud rate register
          Words       \* the 16-bit words the sketch transfers

ASSUME SpiAssumption ==
    /\ Hz \subseteq Nat \ {0} /\ BeginHz \in Hz /\ SPICLK \in Nat \ {0} /\ BRGS \in Nat \ {0}
    /\ Words \subseteq 0..(2^16 - 1)

Orders == {"LSBFIRST", "MSBFIRST"}
Unset == 0    \* -1 in the code, no frequency either

VARIABLES spi_on, width,    \* SPIxCON: ON and the data width
          brg,        \* SPIxBRG
          brg_hz, bit_order, bit_size,
          wire,       \* the bits of the last transfer in the order sent
          \* history
          divided,    \* was the divider set past the remembered frequency?
          ended       \* did end() reset the width since it was last set?

con == <<spi_on, width>>
caches == <<brg_hz, bit_order, bit_size>>
spiVars == <<con, brg, caches, wire, divided, ended>>

SpiInit ==
    /\ spi_on = FALSE /\ width = 8 /\ brg = 0
    /\ brg_hz = Unset /\ bit_order = "none" /\ bit_size = 8
    /\ wire = <<>> /\ divided = FALSE /\ ended = FALSE

-----------------------------------------------------------------------------
Divisor(h) == (((SPICLK \div h) \div 2) - 1) % BRGS

settingFrequency(h) ==
    IF brg_hz # h
    THEN brg_hz' = h /\ brg' = Divisor(h) /\ divided' = FALSE
    ELSE UNCHANGED <<brg_hz, brg, divided>>

settingBitOrder(o) == bit_order' = o

(* setDataMode(mode) does nothing: its parameter hides the member, so that *)
(* it is compared with itself and neither the member nor SPIxCON written.  *)
beginTransaction(h, o) ==
    /\ settingFrequency(h) /\ settingBitOrder(o)
    /\ UNCHANGED <<spi_on, width, bit_size, wire, ended>>

(* begin(): end(), setPins(), beginTransaction() with the defaults, and    *)
(* the port is switched on.  end() clears SPIxCON and not what the class   *)
(* remembers.                                                              *)
SPI_begin ==
    /\ spi_on' = TRUE /\ width' = 8
    /\ settingFrequency(BeginHz) /\ settingBitOrder("MSBFIRST")
    /\ ended' = TRUE
    /\ UNCHANGED <<bit_size, wire>>

SPI_end ==
    /\ spi_on' = FALSE /\ width' = 8
    /\ ended' = TRUE
    /\ UNCHANGED <<brg, caches, wire, divided>>

setClockDivider(d) ==
    /\ brg' = d /\ divided' = TRUE
    /\ UNCHANGED <<con, caches, wire, ended>>

(* The two width bits are cleared, then set: 8 is 0, 16 is 1, 32 is 2. *)
WidthOred(size) == IF width = 8 THEN size ELSE IF size = 8 THEN width ELSE 32

WidthSet(size) == size

setBitSize(size) ==
    /\ bit_size # size
    /\ bit_size' = size /\ width' = WidthSet(size) /\ ended' = FALSE
    /\ UNCHANGED <<spi_on, brg, brg_hz, bit_order, wire, divided>>

-----------------------------------------------------------------------------
Bits(n) == [i \in 0..7 |-> (n \div 2^i) % 2]

(* reverseByte: halves, quarters and neighbours change places. *)
Swap(b, k) == [i \in 0..7 |-> b[IF (i \div k) % 2 = 0 THEN i + k ELSE i - k]]

reverseByte(b) == Swap(Swap(Swap(b, 4), 2), 1)

Shifted(b) == [i \in 1..8 |-> b[8 - i]]

transferred(n) == Shifted(IF bit_order = "LSBFIRST" THEN reverseByte(Bits(n)) ELSE Bits(n))

(* transfer(uint16_t): two bytes, the low one first if LSBFIRST.  The      *)
(* 8-bit transfer() is one half of it.  With a port 8 bits wide.           *)
transfer16(w) ==
    LET msb == transferred(w \div 256)
        lsb == transferred(w % 256)
    IN
    /\ spi_on /\ width = 8 /\ bit_order # "none"
    /\ wire' = IF bit_order = "LSBFIRST" THEN lsb \o msb ELSE msb \o lsb
    /\ UNCHANGED <<con, brg, caches, divided, ended>>

(* fillColor and drawImage: 16 bits wide for the transfer, then SPIxCON as *)
(* it was, whatever the width.                                             *)
Rows(w) == [i \in 1..16 |-> (w \div 2^(16 - i)) % 2]

fillColor(w) ==
    /\ spi_on
    /\ wire' = Rows(w)
    /\ UNCHANGED <<con, brg, caches, divided, ended>>

SpiNext ==
    \/ \E h \in Hz, o \in Orders : beginTransaction(h, o)
    \/ SPI_begin \/ SPI_end
    \/ \E d \in 0..(BRGS - 1) : setClockDivider(d)
    \/ \E size \in {8, 16, 32} : setBitSize(size)
    \/ \E w \in Words : transfer16(w) \/ fillColor(w)

SpiSpec == SpiInit /\ [][SpiNext]_spiVars

-----------------------------------------------------------------------------
SpiTypeOK ==
    /\ spi_on \in BOOLEAN /\ width \in {8, 16, 32}
    /\ brg \in 0..(BRGS - 1)
    /\ brg_hz \in Hz \cup {Unset}
    /\ bit_order \in Orders \cup {"none"} /\ bit_size \in {8, 16, 32}
    /\ wire = <<>> \/ wire \in [1..16 -> {0, 1}]
    /\ divided \in BOOLEAN /\ ended \in BOOLEAN

(* What the class remembers is what the registers hold, except where the   *)
(* code goes past it: the frequency after setClockDivider(), the width     *)
(* after end(), which begin() calls too.                                   *)
RemembersRegisters ==
    /\ (brg_hz # Unset /\ ~divided) => brg = Divisor(brg_hz)
    /\ ~ended => width = bit_size

(* The clock of a port whose frequency was set through the class is never  *)
(* slower than asked for as the divider is rounded down, and less than     *)
(* twice as fast; up to half the bus clock, above which the divider wraps  *)
(* and the port becomes slowest.                                           *)
ClockNearAsked ==
    (brg_hz # Unset /\ ~divided /\ brg_hz <= SPICLK \div 2) =>
        /\ SPICLK >= 2 * (brg + 1) * brg_hz
        /\ SPICLK < 4 * (brg + 1) * brg_hz

(* The wire carries the word lowest bit first or highest bit first, as     *)
(* asked, though the hardware and the byte loop know one order each.       *)
WireOrder ==
    [][\A w \in Words : transfer16(w) =>
        \A i \in 0..15 : (w \div 2^i) % 2 =
            wire'[IF bit_order = "LSBFIRST" THEN i + 1 ELSE 16 - i]]_spiVars

(* The port works as the sketch asked last: width, clock and bit order.    *)
PortAsAsked == [][RemembersRegisters' /\ ClockNearAsked']_spiVars /\ WireOrder
=============================================================================
