------------------------------- MODULE I2CBus -------------------------------
(***************************************************************************)
(* simulation/layer0/i2c.py: a bus whose devices are byte arrays, made when   *)
(* an address is first used.  _ensure_device looks for the array in one step  *)
(* and makes it in another; a block is moved byte by byte.                   *)
(***************************************************************************)
EXTENDS Callers

CONSTANTS
  Addresses,
  Registers,     \* registers of a device; 256 in the code
  ByteValues,    \* values of a byte; 256 in the code
  Transactions,  \* the calls that are made: address, register, bytes
  NoDevice

Cells == 0..(Registers - 1)

\* The calls a thread may be in, with what it has read so far.
BusRecords ==
  [step : {"ensure", "create", "move"}, address : Addresses, register : Int,
   data : Seq(Int), block : BOOLEAN, writes : BOOLEAN,
   next : Nat \ {0}, got : Seq(Int), absent : BOOLEAN]

\* data holds the bytes to write, or as many zeros as bytes are to be read; block
\* tells the block calls from the single ones; write_byte and read_byte are the
\* single calls about register 0.
ASSUME BusConstants ==
  /\ {Registers, ByteValues} \subseteq Nat \ {0}
  /\ \A c \in Transactions :
       /\ DOMAIN c = {"address", "register", "data", "block", "writes"}
       /\ c.address \in Addresses /\ c.register \in Int /\ c.data \in Seq(Int)
       /\ {c.block, c.writes} \subseteq BOOLEAN /\ (~ c.block => Len(c.data) = 1)
  /\ NoDevice \notin [Cells -> Int] /\ Idle \notin BusRecords

VARIABLES
  devices,   \* the array of each address, NoDevice if there is none
  written,   \* history: the write calls begun about each address, in order
  clashed    \* history: registers that overlapping calls were both about, one of
             \* them writing; all of them if two calls made the device

i2cVars == <<callerVars, devices, written, clashed>>

Blank == [r \in Cells |-> 0]

\* A block wraps: (register + i) & 0xFF.  A single register counts from the end
\* when it is negative and is an error out of range, as in every bytearray.
Valid(c) == c.block \/ c.register \in (-Registers)..(Registers - 1)
Cell(c, i) == (c.register + i - 1) % Registers
CellsOf(c) == IF Valid(c) THEN {Cell(c, i) : i \in DOMAIN c.data} ELSE {}

InTransaction(t) == Has(t, "address")
Absent(t) == devices[call[t].address] = NoDevice

---------------------------------------------------------------------------
Transaction(t, c) ==
  LET met == {u \in Threads : InTransaction(u) /\ call[u].address = c.address
                              /\ (call[u].writes \/ c.writes)}
  IN
  /\ Begin(t, [step |-> "ensure", address |-> c.address, register |-> c.register,
               data |-> c.data, block |-> c.block, writes |-> c.writes,
               next |-> 1, got |-> << >>, absent |-> FALSE])
  /\ written' = IF c.writes THEN [written EXCEPT ![c.address] = Append(@, c)] ELSE written
  /\ clashed' = [clashed EXCEPT ![c.address] =
                   @ \cup UNION {CellsOf(call[u]) \cap CellsOf(c) : u \in met}]
  /\ UNCHANGED devices

\* Variant with a bug: the array is made again each time.
EnsureAlways(t) ==
  /\ At(t, "ensure")
  /\ Continue(t, [call[t] EXCEPT !.step = "create", !.absent = Absent(t)])
  /\ UNCHANGED <<devices, written, clashed>>

\* if addr not in self.devices ...
Ensure(t) ==
  /\ At(t, "ensure")
  /\ Continue(t, [call[t] EXCEPT !.step = IF Absent(t) THEN "create" ELSE "move",
                                 !.absent = Absent(t)])
  /\ UNCHANGED <<devices, written, clashed>>

\* ... self.devices[addr] = bytearray(256): what another thread has written into
\* an array made in between is gone.
Create(t) ==
  LET a == call[t].address IN
  /\ At(t, "create")
  /\ devices' = [devices EXCEPT ![a] = Blank]
  /\ clashed' = [clashed EXCEPT ![a] = IF call[t].absent /\ ~ Absent(t)
                                      THEN Cells ELSE @]
  /\ Goto(t, "move")
  /\ UNCHANGED written

\* One byte: value & 0xFF into the register, or the register out.
WriteByte(t) ==
  LET c == call[t] IN
  /\ At(t, "move") /\ c.writes /\ c.next <= Len(c.data) /\ Valid(c)
  /\ devices' = [devices EXCEPT ![c.address][Cell(c, c.next)] = c.data[c.next] % ByteValues]
  /\ Continue(t, [c EXCEPT !.next = @ + 1])
  /\ UNCHANGED <<written, clashed>>

ReadByte(t) ==
  LET c == call[t] IN
  /\ At(t, "move") /\ ~ c.writes /\ c.next <= Len(c.data) /\ Valid(c)
  /\ Continue(t, [c EXCEPT !.next = @ + 1,
                           !.got = Append(@, devices[c.address][Cell(c, c.next)])])
  /\ UNCHANGED <<devices, written, clashed>>

\* The last byte is moved, or the register is out of range.
EndTransaction(t) ==
  /\ At(t, "move")
  /\ call[t].next > Len(call[t].data) \/ ~ Valid(call[t])
  /\ Return(t)
  /\ UNCHANGED <<devices, written, clashed>>

---------------------------------------------------------------------------
I2CInit ==
  /\ devices = [a \in Addresses |-> NoDevice]
  /\ written = [a \in Addresses |-> << >>]
  /\ clashed = [a \in Addresses |-> {}]

I2CCall(t) == \E c \in Transactions : Transaction(t, c)

I2CStep(t) ==
  Ensure(t) \/ Create(t) \/ WriteByte(t) \/ ReadByte(t) \/ EndTransaction(t)

\* The application that uses the bus and nothing else.
I2CSpec ==
  /\ CallersInit /\ I2CInit
  /\ [][\E t \in Threads : I2CCall(t) \/ I2CStep(t)]_i2cVars

---------------------------------------------------------------------------
\* The reference: a register holds the last byte of the last write that reaches
\* it, eight bits of it, and 0 if there is none.
LastWritten(a, r) ==
  LET reaching == {k \in DOMAIN written[a] : r \in CellsOf(written[a][k])}
      latest == CHOOSE k \in reaching : \A j \in reaching : j <= k
      places == {i \in DOMAIN written[a][latest].data : Cell(written[a][latest], i) = r}
      last == CHOOSE i \in places : \A j \in places : j <= i
  IN  IF reaching = {} THEN 0 ELSE written[a][latest].data[last] % ByteValues

Content(a, r) == IF devices[a] = NoDevice THEN 0 ELSE devices[a][r]

\* "Each device address is backed by a 256-byte register array.  Unwritten
\* registers return 0x00": what is written stays, also at a register that a block
\* has wrapped to, also while other threads write other registers or make their
\* first use of other addresses; and a read returns it.  Only calls that overlap
\* on a register, or on the first use of the address, may spoil it.
RegistersHold ==
  \A a \in Addresses : \A r \in Cells \ clashed[a] :
    /\ ~ (\E t \in Threads : InTransaction(t) /\ call[t].address = a
                             /\ call[t].writes /\ r \in CellsOf(call[t]))
         => Content(a, r) = LastWritten(a, r)
    /\ \A t \in Threads :
         InTransaction(t) /\ call[t].address = a /\ ~ call[t].writes =>
           \A k \in DOMAIN call[t].got :
             Cell(call[t], k) = r => call[t].got[k] = LastWritten(a, r)
=============================================================================
