# Verification of the CPEN 391 team 17 logger

The repository is an embedded system on an Altera DE2 board: a NIOS II soft
processor runs a C application (`src/software/module2`) that downloads GPS
paths over Bluetooth, keeps them on an SD card and shows them as a heat map or
as joined points on an 800x480 touch screen. The FPGA around it holds a drawing
chip (`src/GraphicsController.vhd`) that shares one video memory with the
display, and three serial ports (`src/ACIA_*.vhd`).

## 1. Inventory

| component | state it keeps | operations | correct when |
|---|---|---|---|
| drawing chip, `GraphicsController.vhd`, `VideoRamMux.vhd`, `RamAddressMapper.vhd` | command registers, state of a 29-state machine, Bresenham registers, busy flag, registered SRAM pins | one clock edge: register writes by NIOS, one state of the running command, one SRAM write | a command colours its own shape and nothing else, once; a pixel read returns that pixel; a command always ends |
| drawing functions, `graphics.c` | nothing between calls | wait for idle, write registers, write the command | registers are written only of an idle chip; what the comments promise of each function |
| bus bridge, `nios_system_to_external_bus_bridge_0.v`, acknowledge flip-flop of `SystemTopLevel.bdf` | `bus_enable`, address, data, direction, acknowledge | one access of NIOS | one access, one write; the data read is that of the addressed register |
| display controller, `VGA_Controller_256Pallette.vhd` and its data path | line and row counters, blanking, syncs | one pixel clock | it owns the memory while it shows a line, and always blanks again |
| serial ports, `ACIA_6850.vhd`, `ACIA_RX.vhd`, `ACIA_TX.vhd`, `ACIA_Clock.vhd` | one byte each way, ready and empty flags, request/acknowledge pairs | receive, transmit, read, write, reset | no byte is reported twice or invented; none is lost unless overrun is flagged |
| touch screen, `touchScreen.c` | nothing between calls; the packet is in the controller and the serial port | set up, wait for press, wait for release | an answer is made of the bytes of one packet, sent after the call began; a release is not missed |
| menus, `main.c`, `sub_menus.c` | view flags, aggregate flag, colour scheme, the last touch | one touch | the data shown is the data chosen; colours stay distinguishable |
| data sets, `datasets.c`, `sd_card.c` | ten paths in a ring, the aggregate, a file | download, aggregate, save, load | the ring keeps the ten latest paths; what is loaded was once saved |
| Bluetooth, `bluetooth.c` | a buffer of characters during a download; the path the phone offers | `processBT` | the phone strikes a path off only when all of it was received; the buffer holds it (which it need not: run `bluetooth_terminator`) |
| heat map, `heatmap.c` | a grid of colours | `gen_heatmap`, `draw_heatmap`, `connect_points`, `connect_points_all_sets` | every point is counted once; shades rank the cells; paths can be told apart |
| seed fill, `fill.c` | a stack of 1000 pixels | `Fill`, which nothing calls | the region is filled, the stack keeps its bounds |
| GPS and conversion, `gps_points.c`, `conversion.c` | the current position | `read_gps_realtime` at the start, `convertGPSPointsGivenPoints` for every download; `save_points`, `query_log`, `convertGPSPoints` and `convertGPSReal` are called by nothing | a point of the map is placed on the map |
| fonts, palettes, decoders, lights, generated NIOS system | tables, latches | | not modelled, see section 8 |

How they interact. The application runs alone on NIOS: there are no threads and
no interrupt handlers in the application. What runs concurrently is hardware. NIOS and
the drawing chip meet in the chip's registers and its status bit; the drawing
chip and the display meet in the video memory; NIOS and the outside world meet
in one byte of buffer per serial port; and the SD card keeps state across power
failures. `PROJECT.json` lists every hazard at its line.

What is hard: the busy flag is set only when the command is taken up, not when
it is written; blanking may begin or end on any clock of any command; pixels are
written one clock after the state that computes them; polling loops have no
timeout; a serial port keeps one byte, and what arrives while NIOS draws or waits
between two characters is lost; neither the touch controller nor the phone numbers
its messages, so an old byte looks like a new one; the file is overwritten in place.

## 2. Plan

| module | models | status |
|---|---|---|
| `GraphicsController` | the drawing chip and its SRAM, one action per state | done |
| `GraphicsDriver` | `graphics.c` on NIOS, the bridge, composed with the chip | done |
| `Shapes`, `Canvas` | reference shapes; the abstract promise of the drawing functions | done |
| `GraphicsDriverProofs` | types, the handshake | done |
| `GraphicsCallProofs` | a call from its accesses to its pixels: palette, pixel read, runs and rectangles | done |
| `DataSets` | the ring of paths, used by the next two | done |
| `Menus`, `MenusProofs` | `main.c`, `sub_menus.c`: data shown, settings, divisions | done |
| `SdCard`, `SdCardProofs` | `sd_card.c` over the card's driver, power failures, a card that is pulled | done |
| `SerialBuffer` | abstract: a byte of buffer each way, which may overrun | done |
| `SerialPort`, `SerialPortProofs` | `ACIA_*.vhd` at the clock edge, the bridge and a program that polls; it implements `SerialBuffer` | done |
| `TouchScreen`, `TouchScreenProofs` | `touchScreen.c` over `SerialBuffer`: packets, polling, pauses | done |
| `Bluetooth`, `BluetoothProofs` | `bluetooth.c` over `SerialBuffer`: requests, lost bytes, a broken connection | done |
| `HeatMap`, `HeatMapProofs` | `conversion.c` and `heatmap.c`, used by `Menus` | done |
| `VgaTiming` | the counters of the display, and that their blanking satisfies `DisplayStep` | left |
| `GpsReader` | `read_gps_realtime` over `SerialBuffer` | left |

Every safety property of the passing runs is a theorem, with one exception: `DrawsItsShape`
is proved for the calls whose pixels the chip counts, not for Bresenham's lines. Left to
prove is that `DrawLine2` finds in turn the pixels of `TestLine`, and that its error term
fits a register, which takes a screen well below the register's range.

## 3. The modules

**GraphicsController.** The variables carry the names of the VHDL signals. Each
state of the machine is an action named after it (`DrawRectangle1`, ...;
`IdleState` for `Idle`, and `DrawCircleOctant(k)` for the eight octant states,
which differ in two offsets). What the VHDL does in clocked processes of its own
is `Clocked`, a conjunct of every action: the command-written and busy flags, the
registers and their increments, `OKToDraw_L`, the hand-over of the SRAM. Outputs
to the SRAM are registered, so a state's `Access` reaches `sram` on the next edge
(`SramWrite`), and only if the mux then gives the memory to the chip
(`GraphicsBusy_H`, also a register). Words wrap (`Wrap`) and comparisons are
signed, as `std_logic_signed` makes them. A pixel address is the low bits of row
and column.

The display is not under the chip's control: `DisplayStep` begins and ends a
blanking period at any clock, with `BlankTicks` clocks at least between the two,
and lowers vertical sync at any time within one. While the display has the
memory, a read by the chip yields any pixel in it (`Sram_DataIn`).

**GraphicsDriver.** A function of `graphics.c` is the sequence of its register
accesses (`WriteHLine`, ...), empty when it fails its checks, and takes effect as
NIOS works through it: `StartAccess`, `DriveBus`, `EndAccess` are the clocks of
the bridge, `Compute` any delay between them. `WAIT_FOR_GRAPHICS` is a status
read that stays at the head of `todo` until it sees the idle bit. `Next` is the
conjunction of one step of the chip, of the display and of the bus: all three are
clocked by CLOCK_50. `inFlight` is a history variable that only properties read.

**Shapes** has the pixels each function stands for, read off the software
versions the repository keeps for comparison (`TestHLine`, `TestVLine`,
`TestFilledRectangle`, `TestLine`, `TestCircle`). **Canvas** is the abstract
specification: one job at a time, that colours pixels of its shape only and has
coloured all of them when it ends. `GraphicsDriver` implements it under the
mapping `canvas <- sram`, `job <- ` the pixels and colour of the command in flight.

**DataSets** is `localDataSets` of `datasets.h`: a ring of `MAX_N_SETS` paths, its
head `headTimeQueue`, and `StorePath`, what `processBT` does with a path it has
received. What a path is the two modules that extend it say: its points for the
menus, its identity for the card.

**Menus.** NIOS runs nothing else, so a step goes from one wait for a touch to the
next decision. `pc` is the place in `main_menu` or the menu it has called; the flags
carry the names of its local variables. The regions of the screen are the
comparisons of the source, strict or not, so that a touch on an edge may satisfy
none of them. `screen` stands for the upper part of the display: which picture was
drawn last, and from which points. `heatmap` is the list of points the grid and
the percentages were last computed from; the counts, shades and colours are
functions of it (`HeatMap`). A download is the whole of its handler: a path of the
phone placed on the screen as `processBT` does it, the aggregate, the comparison
that decides whether the heat map is computed again, and the redraw. `gps_realtime`,
read once at the start, is a constant.

**HeatMap** is arithmetic and has no state. A position is in millionths of a degree,
and a coordinate of the screen is the floor of the float of the code:
everything it is compared with is a whole number. `InCell` has the whole divisions
of `gen_heatmap`, so the six rows are of different heights (73 and 74 pixels).
`Count` is the number of points in a cell: the code tries the cells of a row until
one holds the point and then goes on with the next row, and that no second cell
does is what `EveryPointCounted` checks. `Shade` is the quotient rounded up, and
`SetColours` the loop of `connect_points_all_sets`.

**SerialBuffer** is what `TouchScreen` and `Bluetooth` may rely on: a byte received
and not yet taken, the byte taken last, a byte written and not yet sent. A byte
that arrives too early replaces the one waiting (`Receive`); one that arrives in the
clocks of a read is read instead of it (`TakeNew`) or is lost, which is no step; and
a reset leaves a byte that nobody sent.

**SerialPort** has the names of the VHDL. One step is a period of CLOCK_50: its falling
edge, on which the port is clocked, then its rising edge, on which the bridge is; so a
read returns what the port shows after the falling edge (`RxDOut'`, `StatReg'`). Of the
bits of a byte only those are steps at which a flag changes. Baud edges come at any
clock, one after the other or never, so nothing checked or proved depends on the
baud rates. The program is any that polls as the three drivers do: it reads a byte only after a status
read that showed one and writes one only after a status read that showed the
transmitter empty (`mayRead`, `mayWrite`); it may reset the port at any time.
`Received` and `Sending` are the mapping to `SerialBuffer`.

**TouchScreen** composes `SerialBuffer`, the touch controller, the user and the three
functions of `touchScreen.c`, called in the order of `main.c` and `sub_menus.c`
(`Resume`, `Return`): a press, then a release, at once or after a menu was drawn. A
byte carries the identity of its packet, which the code does not see and the
properties do. NIOS polls hundreds of times per byte, so while it polls it takes
each byte before the next arrives; the exception is the byte that waited while it was
away (`leftover`), behind which the next may follow in the very clocks of the read.
`raced`, `direct` and `old` are history: a byte was lost in those clocks, the call
follows another without a pause, the packets complete when the call began.

**Bluetooth** composes `SerialBuffer`, a phone and `processBT`. The phone is not in
the repository; it is modelled from the comments and waits of `bluetooth.c`: asked,
it sends `#`, the path, `?`; told `=`, it stops and strikes the path off. Its user may send
unasked (`SendAgain`) and the connection may break at any moment (`Break`). A
request is one byte of the model: between two of its characters NIOS waits 100 ms and
reads nothing, so all that arrives in it overwrites the byte before; and the look at
the port that follows is taken at once after the last character, before the phone
can have answered it. `fault` is history: a message broke off while NIOS received it
(`"cut"`), or before. A path may be of any length: the buffer is made for `MAX_N_POINTS` points of
`PointChars` characters, but nothing makes the phone keep to that, and `receive_string` then stops
when the buffer is full. It would stop at a byte 0 too, which the phone does not send.

What happens after `"cut"`, and with a path that fills the buffer, is said openly by two properties.
`AckedIsReceived` promises of a path what the buffer can hold (`RoomFor`), and nothing of a message joined
to one that was cut. `TerminatorFits` promises that the terminator is in the buffer, which does not
hold in either case: run `bluetooth_terminator`.

**SdCard.** `localDataSets` is one record, written and read byte by byte from its
first to its last, and its copy on the card is a file overwritten in place. The
card is only written a sector at a time, so the model has it
sector by sector: one for each set, and the last for `headTimeQueue`. That is an idealisation:
the record has 81968 bytes, so a set (8196 bytes) takes sixteen sectors and four bytes more, neighbours
share a sector, and the last sector holds the last 44 bytes of set 9 before the head. For the properties it
means: `SavedUpToHead` speaks of every sector but the last, so set 9 is on the card but for those 44
bytes; a prefix in the sense of `LoadIsPrefix` may end within a set; and a shared sector, or the last one, lost
in the buffer can only tear the set just downloaded, as the bytes of the others are the same on
the card. The driver under `src/software/module2_bsp` is
modelled as far as `sd_card.c` uses it: one sector in a buffer, written back when
the buffer is needed for another (`Flushed`) and at the close of a file whose
record was modified; a file that grows as it is written (`Grown`); `0xFF` for every
byte that cannot be read (`Lost`). Mounting empties the list of open files, so one
record `file` is enough. A set takes several sectors in the program, and a power failure may leave it half
overwritten; only the set just downloaded differs from what the card has, so that
set is the one torn, and `CardKeepsRecent` promises nothing of it.
A load that meets errors, or finds no file and creates one, fills what it could not read with `0xFF` and
returns 0, against `sd_card.h:17` ("Return 0 on success"; "TODO check value of read?" at
`sd_card.c:118`): the model does the same, and `LoadIsPrefix` says what is left.
`Start` and `Download` are the two callers; `Remove`, `Insert` and `PowerFailure` may
happen between any two sectors. A load may leave in `headTimeQueue` what was never a slot;
`Download` then stops, because the code would write outside the data sets.

The **MC** modules give the constants values; `MCGraphicsDriver` also bounds the number
of calls.

## 4. The runs

| run | what it shows |
|---|---|
| `driver` | Two calls out of fourteen, in every order and at every distance, under every behaviour of the display: types; `RegistersWrittenWhenIdle`; `PaletteProgrammed`; `ReadReturnsPixel`; and `DrawsItsShape`, the refinement of `Canvas`. |
| `driver_liveness` | One call of each kind of command, two of them: under fairness every call returns (`CallsReturn`) and every command completes (`CommandsComplete`). |
| `circle` | Violated: the hardware circle is not that of `TestCircle` from radius 4 on. |
| `clear_screen` | Violated: `clear_screen` leaves the last column. |
| `menus` | Any touches and downloads: the data drawn is the data chosen (`ViewShowsChosen`); an average has sets to be taken over (`AverageHasSets`); the colours can be told apart (`ColoursDistinct`, `PathColoursDistinct`); a point on the map is counted in exactly one cell (`EveryPointCounted`) and the shades rank the cells (`ShadesRankCells`); a touch of the picture always turns it (`TouchTurnsPicture`); a download drops the oldest path (`DownloadDropsOldest`). |
| `serial` | A port clock by clock: it is a one-byte buffer each way (`IsOneByteBuffer`); what a poll has shown, a clock late, still holds when the program acts on it (`PollsAreCurrent`); a byte that replaces one not read raises the overrun flag, and one is lost silently in the clocks of a read only (`LossFlagged`); neither direction wedges (`WrittenIsSent`, `ReceiverRecovers`). |
| `touch` | Calls with pauses of any length between them: an answer is one packet (`AnswerIsOnePacket`), none that was complete before the call (`AnswerIsFresh`); a release asked for at once is not missed (`ReleaseNotMissed`), and no call waits for ever while the user goes on touching (`CallsReturn`). |
| `bluetooth` | Downloads with bytes lost, messages unasked and connections that break: what is acknowledged is the path that the phone strikes off, as far as the buffer can hold it, unless its message broke off while it was received (`AckedIsReceived`); and a download ends (`DownloadEnds`). |
| `bluetooth_terminator` | Violated: "into the given buffer" (`bluetooth.c:46`). The connection breaks in a message, the next is joined to it, the loop of `receive_string` ends because the buffer is full, and the terminator goes behind it, although each of the paths fits. |
| `sd_power` | A card nobody pulls, and power failures at any moment: the recent paths are never lost nor mixed (`CardKeepsRecent`). |
| `sd_removal` | A card pulled and inserted at any moment: what a save that reports success has brought to the card, all but the last sector, or to the buffer (`SavedUpToHead`); what a load returns (`LoadIsPrefix`); that both return if the user does what the messages ask (`CardCallsReturn`). |
| `sd_save` | Violated: after a save that returned 0 the card does not hold the data. The file existed, so its record was not modified, so the close does not write the buffer, and the head is in it. |

Bounds. `Word = 64` is large enough for every sum of the calls used, and small
enough that `ProgramPalette` passes a value beyond it, which wraps. The memory is
8x8 and the screen 5x5, so that the memory is wider than the screen as in the
program (1024x512 against 800x480). The calls cover runs that begin and end on
even and odd columns, empty, flat, steep, diagonal and backward lines, circles
whose eight octants overlap and not, and a rectangle of two rows. Two calls are
enough for what one command can do to the next: a function keeps nothing between
calls, and the second call starts from every state the first can leave behind.
`BlankTicks = 2` in the safety run makes interruptions more frequent than any
display (its blanking lasts over 300 clocks). `driver` checks deadlock too.

`menus` has three sets, so that the ring wraps and a set lies between the latest
and the oldest; paths of no, one and two points, so that lengths agree and differ;
and a touch in each region, with the edges `y = 440`, `x = 266` and `x = 533`, where
the comparisons of `main.c` and `sub_menus.c` disagree. `sd_power` has four sets
and three paths, so that a mixture of two saves can be told from either, and three
power failures, so that a save may fail, the restart too, and the one after that.
It starts with complete files with their head on any slot. `sd_removal` has two sets,
which give the first, a middle and the last sector, a card that may be blank, and
one power failure; removals are not bounded. No run bounds the number of
downloads, touches or loads.

Of the three paths of `menus` one has thirteen points: ten in one cell, so that the quotient
of a shade is no whole number and rounding shows, one in another, one exactly on the edge of
the map and one beyond it. A second instance would add nothing to the arithmetic, which
is the same for any number of points.

`serial` has two bytes, enough to tell an old one from a new one; the port never
looks at them. Nothing else is bounded: the run covers every interleaving of
accesses, resets and bytes. `touch` has three packets, the one being answered, the one before
and the one after, whose identities go round. That is enough because at most two
packets are ever told apart in the state: the one the controller sends and the one whose
byte waits or is being read. `bluetooth` has three paths for the same reason: an empty one,
one as long as the buffer allows, four characters (two points of two), and one of six, which
fills the buffer of five with a character and the `?` still to come. `bluetooth_terminator` has only
paths that fit, so that what it shows does not rest on a phone that sends too much. Both runs
leave the numbers of calls, losses, messages and breaks unbounded.

## 5. Fairness

`Fairness` asks for four things: the clock does not stop; NIOS goes on with the
function it is in (`StartAccess`); a displayed line is followed by blanking; and
vertical sync returns. Calling another function is never required. The first is
the oscillator, the second that nothing else runs on NIOS, the last two that the
display's counters are free running. `driver_liveness` needs `BlankTicks = 3`:
a pixel read takes three clocks of blanking in a row, and with periods of two it
starts over for ever. The display grants hundreds.

For the serial port, `Fairness` asks that the clock does not stop, that a byte begun on the line is
completed, and that the transmitter, free running, goes on. Nothing is asked of the
program: it may stop polling for ever, and what it wrote is sent all the same.

`TouchScreen` asks that NIOS runs (`Nios`), that the port sends, that the controller
sends what it has to report (`Arrive`), and that the user goes on touching and lifting
(`Finger`): `GetPress` has no timeout, so this last is the least under which a call can
return, and it is what the name of the property says.

`Bluetooth` asks that NIOS runs, that the port sends and that the phone sends what it is
to send. Two more assumptions are premises of `DownloadEnds` and not of the specification,
because safety holds without them. `PromptPhone`: eventually the phone has answered a request
before NIOS has written the next. And eventually the connection does not break. Both
are needed: with a phone that is always in the middle of a message when NIOS asks again, the
look may see a character of the path every time. `Break` after NIOS has stopped asking
leaves it waiting for ever, as there is no timeout; `fault # "none"` says so.
That a phone which has been told `=` sends no more of that message is an assumption about a
program outside the repository.

For the card, `Fairness` asks that NIOS, which polls for the card, gets on if the
card is there again and again (`SF_vars(Step)`: a weaker assumption would let it
look only in the moments the card is out), and that a user who is asked to insert
or to disconnect a card does so. Nothing is asked of the user otherwise, and power
failures are bounded, as nothing returns under a supply that always fails.

## 6. What is proved

Every theorem holds for all values of the constants that satisfy the assumptions
named in the modules (`ChipAssumption`, `ScreenAssumption`, `CallsAssumption`,
`MemoryAssumption`, `SetsAssumption`, `MenusAssumption`, `CardAssumption`,
`PortAssumption`, `BluetoothAssumption`, `TouchAssumption`), which the configurations
satisfy too. Each inductive invariant below was checked on the instance of a run before it was proved.

`GraphicsDriverProofs` proves, for every word size, memory, screen, palette and
set of calls:

* `TypeCorrect`: `Spec => []TypeOK`. The word operators stay in `Words`
  (`WrapType` and its companions), each state of the machine keeps the chip's
  types, each clock of the bridge keeps the driver's.
* `HandshakeCorrect`: `Spec => []HandshakeInv`.
* `NoWriteToBusyChip`: `Spec => []RegistersWrittenWhenIdle`.

`RegistersWrittenWhenIdle` is not inductive: it says nothing of the clocks between
a status read and the first register write, nor of those between the command's
write and the busy flag. `HandshakeInv` adds what makes it so. A function writes
only after its wait and ends or waits again after its command
(`WritesFollowWait`, about the sequence still to do). If the head of that
sequence is a write, the chip is idle and has said so, with no command waiting
except the one this very access is completing. A waiting command is taken up on
the first edge at which the bus is free, and the bus is not driven while it is
(`CurrentState = "ProcessCommand" => ~bus_enable`), so a status read begun after
the command's write is sampled only when the busy flag is set. Each step is
proved for the chip alone (`ChipHandshake`), for the bus alone (`BusStepInv`), for
the wait that succeeds (`WaitStep`), and put together in `HandshakeStep`.

`GraphicsCallProofs` follows one call from the function NIOS runs to its effect.

* `CallInvariant`: `Spec => []CallInv`. What NIOS has left is the rest of the call's accesses
  (`RestOfCall`); the writes made so far are in the registers (`WritingInv`); a command about to be
  decoded is the one in flight with all its parameters (`IssuedInv`); the state of the
  machine belongs to that call (`RunInv`).
* `PaletteCorrect`: `Spec => PaletteProgrammed`. While the chip waits for vertical sync
  nobody writes `X1`, `Y1` or `Colour`, because NIOS writes only a chip that is idle.
* `ReadCorrect`: `Spec => ReadReturnsPixel`. `ReadInv` says that in `ReadPixel2` the chip
  still has the SRAM it asked for a clock earlier, and that the pair is the pixel's;
  `QuietInv` that no write is outstanding, so that the pixel latched is
  the pixel's colour until NIOS takes it (`AnswerInv`).
* `DrawInvariant`: `Spec => []DrawInv`. Every pixel of the shape that the chip has passed is
  *reached*: coloured, or hit by the access in the output registers (`Reached`), since the
  SRAM lags a clock behind the machine. `HlineInv`, `VlineInv`, `RowInv` and `RectangleInv` say which pixels have been
  passed in each state, `PendingInv` that an outstanding write is for pixels of the
  call and that the display has not taken the SRAM from it, `AloneInv` that registers are written with
  nothing in flight.
* `CountedCorrect`: `Spec => CountedDrawn`. A single pixel, a horizontal or vertical run, or a rectangle colours its
  own pixels and no other, and all of them before its command is done, whatever else the
  application draws.
* `ShapesCorrect`: `Spec => DrawsItsShape` if no call is `WriteLine` or `WriteCircle`. Issuing a
  command is `Begin` of `Canvas`, the clock that clears the busy flag is `Finish`, the
  clocks between are `Paint`, all others stutter.

The proof needed an assumption the code does not state, `MemoryAssumption`: the screen lies in the
memory and a register can also name the column *after* the last. A run of two pixels
per clock ends at `X2` or `X2 + 1`; were `XRES` all of the positive range of a register, `X1` would
wrap past `X2` and `DrawHline` would never end. The board has 800 columns and 16-bit registers.

`SerialPortProofs` proves, for any set of bytes that holds 0 (`PortAssumption`):

* `PortInvariant`: `Spec => []PortInv`, and from it `PortTypeCorrect` and `PollsCorrect`
  (`PollsAreCurrent`). `PollsAreCurrent` is not inductive: status is a register of its own,
  a clock behind the receiver and the transmitter. `AccessInv` says where an access is in its
  clocks, and that the strobe of a read or a write is up in exactly two of them, the second after the
  program has gone on. `ReceiverInv` and `TransmitterInv` say which of
  request, acknowledge, ready and empty go together in each state; the case that matters is
  the clock in which a read sets the request while the receiver raises or drops its acknowledge.
  Each is proved for its own process (`ReceiverStep` and its like), the reset apart.
* `BufferCorrect`: `Spec => IsOneByteBuffer`. Every clock is a step of the abstract receiver and of the
  abstract transmitter, or leaves one of them alone, or is a reset.
* `LossIsFlagged`: `Spec => LossFlagged`.

`MenusProofs` proves, for any number of sets, any paths and any points touched:

* `ColoursCorrect`: `Spec => []ColoursDistinct`. Inductive with the ranges of the
  colours (`ColourInv`); that three steps of `NextLine` and two of `NextPair` always
  reach a colour that suits is lemmas about those two operators.
* `DownloadCorrect`: `Spec => DownloadDropsOldest`, from `RingInv`, a lemma about
  `Before` and `StorePath`, and one that a path placed on the screen is a sequence of points
  (`PathOnScreen`).
* `ViewCorrect`: `Spec => []ViewShowsChosen`. The code computes the heat map only
  when the aggregate flag changes or after a download, so the property needs
  `ChosenInv`: the list of points in `heatmap` is the one chosen even while a menu
  or the joined points are on the screen, and the aggregate is up to date.
* `TurnCorrect`: `Spec => TouchTurnsPicture`, from `ChosenInv` and `TurnInv`: unless a
  menu has just been closed, `showing_heatmap` says which picture is up, and at the
  start it says so of the picture to come.
* `MenusInvariant` and `MenusTypeCorrect`: `Spec => []MenusInv`, `Spec => []TypeOK`. `MenusInv` joins
  `ColourInv`, `RingInv`, `ChosenInv` and `ScreenInv`; that the aggregate is a sequence of points
  is a lemma about the slots (`AggregateType`).
* `AverageCorrect`: `Spec => []AverageHasSets`. The program compares two lengths to
  decide whether it shows the aggregate; when it speaks of an average there is a set in it.
* `PointsCorrect`, `ShadesCorrect`, `PathColoursCorrect`: `EveryPointCounted`, `ShadesRankCells` and
  `PathColoursDistinct` in every reachable state.

The last three rest on `HeatMapProofs`, about the operators of `HeatMap` alone: the
columns and the rows of unequal height share the map out (`OneColumn`, `OneRow`, `CellsShareMap`), the
rounded quotients rank the cells (`CountBounds`, `ShadesRank`), and the loop that skips
the colours in use never yields one twice (`SkipsTwo`, `LoopColours`, `PathColours`). What they need of induction
is had from sets: a set of indices that is not empty has a least element (`LeastElement`, from the
well-foundedness of `<`), so a set with 0 and with the successor of each member
holds every index (`UpTo`), and a function given by its value at the index before is what its
equation says (`RecursiveFunction`).

`SdCardProofs` proves, for any number of sets, any paths, any cards and power
failures, pulled or not:

* `CardTypeCorrect`: `Spec => []TypeOK`. That the file never grows beyond the record
  is not inductive: `GrowthInv` adds that a file being saved is as long as what has been
  written of it, or was complete before.
* `SaveCorrect`: `Spec => []SavedUpToHead`, by `WrittenInv`: while a save runs, every
  sector but the last written is on the card, and that one is in the buffer.
* `LoadCorrect`: `Spec => []LoadIsPrefix`, by `ReadInv`: while a load runs the buffer is clean,
  the sectors read so far are the file's up to some `n`, and once one is lost the
  file is closed or at its end, so all that follow are lost.
* `RecentCorrect`: `Spec => []CardKeepsRecent`, by `KeepInv`. The property speaks of the file at one
  moment; the invariant follows a save sector by sector. The sets written so far are the same
  as before but for one path, the head moves last, and what waits in the buffer is the one sector
  that a failure may still take.

`BluetoothProofs` proves, for any number of paths of any lengths, longer than the buffer too, and whatever is lost:

* `BluetoothInvariant`: `Spec => []BluetoothInv`, and from it `BluetoothTypeCorrect`
  (the characters received never outgrow the buffer) and `AckCorrect` (`Spec => AckedIsReceived`).
  That there is room for the terminator as well is no theorem: it is false. An acknowledgement is right because
  of three facts about earlier moments: a `#` with which NIOS begins to receive is the one of
  the message being sent (`AwaitInv`), what NIOS has and what the port holds are together as much of
  that message as the phone has sent (`ReceiveInv`), and no sign that strikes a path off is on its
  way meanwhile (`StrikeInv`).

`TouchScreenProofs` proves, for any number of packets told apart:

* `TouchInvariant`: `Spec => []TouchInv`, and from it `TouchTypeCorrect`, `ReleaseCorrect`
  (`ReleaseNotMissed`), `OnePacketCorrect` (`AnswerIsOnePacket`) and `FreshCorrect` (`AnswerIsFresh`).
  `PacketInv` says that what a call has read is the beginning of the packet being sent,
  with at most the next byte in the port; `FreshInv` that this packet is not one that was
  complete before the call, nor a byte of one.

## 7. Only model-checked

* Liveness: `CallsReturn` and `CommandsComplete` of the chip, `WrittenIsSent` and
  `ReceiverRecovers` of the port, `CallsReturn` of the touch screen, `DownloadEnds`,
  `CardCallsReturn`. They, and anything with `ENABLED`, are out of the prover's reach.
* `DrawsItsShape` with Bresenham's lines, and with circles of a radius below 4 (from 4 on it does not
  hold: run `circle`). The shape of a line is a recursive function of the number of turns, and
  what it computes for every line has to be proved by induction over the turns of the
  chip's own two loops.
* That every state is reached: the runs fire every action, a theorem says nothing of that.

## 8. Not modelled

* The background colour register of the chip: no state reads it.
* The timeout of the bridge: the acknowledge arrives in two clocks.
* Two accesses of NIOS with no clock between them: `StartAccess` asks for
  `bus_enable` to be low, which it is one clock after every access.
* A reset while the system runs. After power-up the chip has a command waiting
  (`CommandWritten_H` resets to 1 "SIMULATION ONLY"): it processes command 0,
  which does nothing; `ChipInit` starts there.
* `Rectangle`, `Text`, fonts and `write_test_screen`, which only call the
  functions modelled.
* An error of the card's hardware while it is inserted (the driver's own timeouts),
  the creation of a file next to one of the same name, and a sector half written
  when the supply fails.
* What the program does once `headTimeQueue` is out of range: it accesses memory
  outside the data sets. The model stops there.
* A circle that leaves the screen. The checks of `WriteCircle` are compiled out
  (`graphics.c:298`, against the comment in line 294), and an address wraps in the video memory;
  the wrapping is in `GraphicsController`, the calls of the runs stay on the screen.
* The percentages of `InterpretMenu`: west is six of the ten columns and north four of the six
  rows, and a point off the map, in no cell, counts as east and south. Nothing in the repository
  says what they should be. Nor is `0 / 0`, which they are with no points, and which a shade is when
  all cells have the same count.
* The scaling of a touch: `raw / 4090 * 800` reaches 800 at the edge, and the vertical coordinate is
  negative for a raw value below 30. `Menus` takes points of the screen, its right edge included.
* That the stored paths are pixels relative to `gps_realtime` at the time of the download: after a restart
  at another place they are drawn where they were.
* The text of a path and its parsing, where the number of points is bounded by the characters received;
  the set-up of the Bluetooth dongle, which only writes.
* The reader of the current position, `read_gps_realtime`, and its sentences.
* Of the serial port: word formats, parity, modem lines and interrupts, all switched off by the
  control word of the program (`0x15`); the dividers of the baud clocks.
* `Fill`, `save_points`, `query_log`, `convertGPSPoints` and `convertGPSReal`, which nothing calls.
* Decoders, latches, seven-segment displays: combinational.
* The generated NIOS system, the board support package, `src/db` and
  `src/incremental_db`: generated, except for the bridge's Verilog and the driver
  of the SD card, which are modelled.

Most of the lines of the repository are of the last kind or tables: `fonts.c` alone
has over a third of them, and the support package (startup code, profiling,
logging, drivers of devices the application does not open) most of the rest. They
keep no state the application depends on, so the models stand for a small share of
all lines however much of the application they cover.
