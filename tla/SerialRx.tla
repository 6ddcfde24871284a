------------------------------ MODULE SerialRx ------------------------------
(***************************************************************************)
(* Serial reception by circular DMA (mcus/common_bluepill/                 *)
(* lnSerialRxTxDma.cpp).  The DMA cell writes the buffer round and round;  *)
(* its half and full interrupts, and a timer for what lies in between, set *)
(* _rxHead; the reader takes a pointer to the oldest run, uses it in       *)
(* place, and consumes it (the task of demoProject/common/serial/          *)
(* hello.cpp).  Bytes are numbered as they arrive.                         *)
(*                                                                         *)
(* A critical section and an interrupt are one action each.  Bytes come at *)
(* any time, and an interrupt may be due for any time; one that is due     *)
(* when a critical section runs is held off by it, and served after it,    *)
(* before the tasks go on (dma.held).                                      *)
(*                                                                         *)
(* Three things are more than the code can take (README, known limits);    *)
(* from then until reception is switched on again the ghost trouble names  *)
(* them: "lap", the timer sees the cell step over the end of the buffer;   *)
(* "behind", the reader leaves a whole buffer unread; "purge", purgeRx().  *)
(***************************************************************************)
EXTENDS Integers, Sequences

CONSTANTS
  Size,       \* _rxBufferSize
  Word,       \* 2^32, or any other width of the two indexes
  MaxBytes,   \* bound: bytes received
  MaxAfter,   \* bound: the same once there is trouble
  MaxCycles   \* bound: times reception is switched off

ASSUME SerialRxAssumption ==
  /\ Size \in Nat /\ \E k \in 1 .. Size : Size = 2 ^ k   \* "must be a power of 2"
  /\ Word \in Nat /\ Word % Size = 0 /\ Word > 4 * Size
  /\ MaxBytes \in Nat /\ MaxAfter \in Nat /\ MaxCycles \in Nat

VARIABLES
  head, tail,  \* _rxHead, _rxTail
  enabled,     \* _rxEnabled; the timer runs
  dma,         \* the cell: next index, enabled interrupts, those that are
               \*   due, and whether a critical section held them off
  mem,         \* the buffer: the number of the byte in each place
  signal,      \* the reader's event flag
  reader,      \* where it is; the run it was given: index and length
  base,        \* bytes received when reception was last switched on
  received,    \* bytes received
  got,         \* bytes the reader used since
  trouble,     \* what went wrong since
  cycles

queue == <<head, tail>>
vars == <<head, tail, enabled, dma, mem, signal, reader, base, received, got,
          trouble, cycles>>

Half == Size \div 2
Mask(n) == n % Size
Unmask(n) == n - Mask(n)
\* The distance of two uint32_t, and the same as an int.
Distance(h, t) == (h - t) % Word
Signed(n) == IF 2 * n < Word THEN n ELSE n - Word
Started == [next |-> 0, irq |-> TRUE, due |-> {}, held |-> FALSE]

Init ==
  /\ head = 0 /\ tail = 0
  /\ enabled = FALSE
  /\ dma = [Started EXCEPT !.irq = FALSE]
  /\ mem = [i \in 0 .. Size - 1 |-> 0]
  /\ signal = FALSE
  /\ reader = [at |-> "wait", from |-> 0, n |-> 0]
  /\ base = 0 /\ received = 0 /\ got = <<>>
  /\ trouble = {} /\ cycles = 0

\* CHECK_OVERFLOW(): what was not read is given up.
Checked(h, t) == IF Distance(h, t) > Size THEN h ELSE t
-----------------------------------------------------------------------------
(***************************************************************************)
(* The cell stores a byte; it raises half and full, and never stops.       *)
(***************************************************************************)
Consumed == Len(got) - IF reader.at = "consume" THEN reader.n ELSE 0
Unread == received - base - Consumed

Raised(next) ==
  IF ~dma.irq THEN {}
  ELSE {e \in {"half", "full"} : next = IF e = "half" THEN Half ELSE 0}

Receive ==
  /\ enabled /\ received < IF trouble = {} THEN MaxBytes ELSE MaxAfter
  /\ received' = received + 1
  /\ mem' = [mem EXCEPT ![dma.next] = received + 1]
  /\ LET next == (dma.next + 1) % Size
     IN  dma' = [dma EXCEPT !.next = next, !.due = @ \cup Raised(next)]
  /\ trouble' = trouble \cup IF Unread < Size - 1 THEN {} ELSE {"behind"}
  /\ UNCHANGED <<queue, enabled, signal, reader, base, got, cycles>>

\* Mutation: the base of the head is forgotten.
MovedLost(h, n) == n
\* _rxHead & ~_rxMask, then n on.
Moved(h, n) == Unmask(h) + n

\* rxDma() for one of the two interrupts: n is how far it says the cell is.
Interrupt(n) ==
  /\ dma' = [dma EXCEPT !.due = {}, !.held = FALSE]
  /\ IF Mask(head) = Mask(n) THEN UNCHANGED <<queue, signal>>
     ELSE /\ head' = Moved(head, n)
          /\ tail' = Checked(head', tail)
          /\ signal' = TRUE
  /\ UNCHANGED <<enabled, mem, reader, base, received, got, trouble, cycles>>

\* dmaIrqHandler(), invokeCallback(): with both due, full only.
HalfInterrupt == dma.due = {"half"} /\ Interrupt(Half)
FullInterrupt == "full" \in dma.due /\ Interrupt(Size)

\* A critical section of a task, which holds off what is due.
Critical == ~dma.held /\ dma' = [dma EXCEPT !.held = dma.due # {}]

\* Mutation: the timer leaves collecting to the interrupts.
CollectNothing == enabled /\ UNCHANGED vars
(***************************************************************************)
(* checkForNewData(), in the timer's critical section: the cell's counter  *)
(* is the truth.  The two overflow checks straddle the step over the end.  *)
(***************************************************************************)
Collect ==
  /\ enabled /\ Critical
  /\ Mask(head) # dma.next
  /\ LET h1 == Moved(head, dma.next)
         t1 == Checked(h1, tail)
         wrapped == Mask(head) >= dma.next
     IN  /\ head' = IF wrapped THEN h1 + Size ELSE h1
         /\ tail' = IF wrapped THEN Checked(head', t1) ELSE t1
         /\ trouble' = trouble \cup IF wrapped THEN {"lap"} ELSE {}
  /\ signal' = TRUE
  /\ UNCHANGED <<enabled, mem, reader, base, received, got, cycles>>
-----------------------------------------------------------------------------
(***************************************************************************)
(* The reader: waits, then takes run after run until there is none.        *)
(***************************************************************************)
Wake ==
  /\ reader.at = "wait" /\ signal /\ ~dma.held
  /\ signal' = FALSE
  /\ reader' = [reader EXCEPT !.at = "look"]
  /\ UNCHANGED <<queue, enabled, dma, mem, base, received, got, trouble, cycles>>

\* The oldest run that lies in one piece, as an int.
Run(h, t) == IF Mask(h) >= Mask(t) THEN Signed(Distance(h, t)) ELSE Size - Mask(t)

\* getReadPointer(); the length is computed before the overflow check.  It is
\* negative when the tail has passed the head, and the copy that follows ends
\* it all.
GetReadPointer ==
  /\ reader.at = "look" /\ Critical
  /\ LET n == Run(head, tail)
     IN  reader' = CASE n = 0 -> [reader EXCEPT !.at = "wait"]
                     [] n > 0 -> [at |-> "use", from |-> Mask(tail), n |-> n]
                     [] n < 0 -> [reader EXCEPT !.at = "failed"]
  /\ tail' = IF Mask(head) >= Mask(tail) THEN Checked(head, tail) ELSE tail
  /\ UNCHANGED <<head, enabled, mem, signal, base, received, got, trouble, cycles>>

\* Past the end of the buffer lies no byte of it.
Cell(i) == IF i < Size THEN mem[i] ELSE 0

\* The bytes are used where they lie, after whatever happened meanwhile.
Use ==
  /\ reader.at = "use" /\ ~dma.held
  /\ got' = got \o [i \in 1 .. reader.n |-> Cell(reader.from + i - 1)]
  /\ reader' = [reader EXCEPT !.at = "consume"]
  /\ UNCHANGED <<queue, enabled, dma, mem, signal, base, received, trouble, cycles>>

\* consume(): both indexes are brought down together.
Consume ==
  /\ reader.at = "consume" /\ Critical
  /\ LET t    == tail + reader.n
         down == t > Size /\ head > Size
     IN  /\ tail' = IF down THEN t - Size ELSE t
         /\ head' = IF down THEN head - Size ELSE head
  /\ reader' = [reader EXCEPT !.at = "look"]
  /\ UNCHANGED <<enabled, mem, signal, base, received, got, trouble, cycles>>
-----------------------------------------------------------------------------
(***************************************************************************)
(* enableRx() and purgeRx(), by the reader between two waits.  Switching   *)
(* on empties the buffer and starts the cell at its beginning.             *)
(***************************************************************************)
Enable ==
  /\ reader.at = "wait" /\ ~enabled
  /\ head' = 0 /\ tail' = 0 /\ enabled' = TRUE
  /\ dma' = Started
  /\ base' = received /\ got' = <<>> /\ trouble' = {}
  /\ UNCHANGED <<mem, signal, reader, received, cycles>>

Disable ==
  /\ reader.at = "wait" /\ enabled /\ ~dma.held /\ cycles < MaxCycles
  /\ enabled' = FALSE
  /\ cycles' = cycles + 1
  /\ dma' = [dma EXCEPT !.irq = FALSE, !.due = {}]
  /\ UNCHANGED <<queue, mem, signal, reader, base, received, got, trouble>>

\* The interrupts go off, and nothing puts them on again; the cell goes on
\* where it is.
PurgeRx ==
  /\ reader.at = "wait" /\ enabled /\ ~dma.held
  /\ head' = 0 /\ tail' = 0
  /\ dma' = [dma EXCEPT !.irq = FALSE, !.due = {}]
  /\ base' = received /\ got' = <<>>
  /\ trouble' = trouble \cup {"purge"}
  /\ UNCHANGED <<enabled, mem, signal, reader, received, cycles>>
-----------------------------------------------------------------------------
DmaNext == Receive \/ HalfInterrupt \/ FullInterrupt
ReaderNext == Wake \/ GetReadPointer \/ Use \/ Consume

Next == DmaNext \/ Collect \/ ReaderNext \/ Enable \/ Disable \/ PurgeRx

Spec == Init /\ [][Next]_vars

\* Interrupts are served, the timer ticks while it runs, the reader runs.
FairSpec == /\ Spec
            /\ WF_vars(HalfInterrupt \/ FullInterrupt)
            /\ WF_vars(Collect)
            /\ WF_vars(ReaderNext)
-----------------------------------------------------------------------------
(***************************************************************************)
(* The reader gets every byte once and in order, whichever of the timer    *)
(* and the two interrupts told of it, early or late, while the cell goes   *)
(* on writing and both indexes are brought down.  It is so until the timer *)
(* sees the cell step over the end, a whole buffer is unread, or purgeRx() *)
(* is called; and again after reception was switched off and on.           *)
(***************************************************************************)
ReadInOrder ==
  trouble = {} => \A i \in 1 .. Len(got) : got[i] = base + i

(***************************************************************************)
(* What is received gets read, although the line falls silent anywhere     *)
(* between two interrupts, unless reception is switched off or there is    *)
(* trouble.                                                                *)
(***************************************************************************)
AllRead ==
  enabled /\ trouble = {} ~> \/ received = base + Len(got)
                             \/ ~enabled \/ trouble # {}

(***************************************************************************)
(* "Discard any buffered received data"                                    *)
(* (rust/rust_esprit/src/serial.rs:183): a byte received before purgeRx()  *)
(* is not read after it.  The code does not keep this (README, section 5). *)
(***************************************************************************)
PurgeForgets == \A i \in 1 .. Len(got) : got[i] > base

(***************************************************************************)
(* "Returns the num of contiguous bytes available"                         *)
(* (rust/rust_esprit/src/serial.rs:224): the run given to the reader ends  *)
(* within the buffer.  The code does not keep this when the buffer is full *)
(* (README, section 5).                                                    *)
(***************************************************************************)
RunInside == reader.at = "use" => reader.from + reader.n <= Size
=============================================================================
