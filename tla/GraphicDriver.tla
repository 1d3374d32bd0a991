--------------------------- MODULE GraphicDriver ---------------------------
(***************************************************************************)
(* The graphic example of soft/graphic: a client (thread 0), the graphic   *)
(* driver (thread 2) and the VGA driver (thread 1) share two queues of     *)
(* commands, two screen buffers and some flags, all in main memory and     *)
(* without a lock.  A step is one access to what is shared; the threads    *)
(* are interleaved instruction by instruction.                             *)
(*                                                                         *)
(* A picture stands for what the commands before an update have drawn, and *)
(* a row of the screen for the pixels of one line.                         *)
(***************************************************************************)
EXTENDS Integers, SequenceTheorems, TLAPS

CONSTANTS
    Size,           \* SIZE_COMMAND_QUEUE
    Rows,           \* VGA_RESOLUTION_HEIGHT
    Pictures,       \* what the client draws
    Update,         \* the command GRAPHIC_COMMAND_UPDATE_SCREEN
    NoCommand,      \* memory that no command has been written to
    Blank, Junk     \* memory that is zero, and what lies after _background

ASSUME GraphicConstants ==
    /\ Size \in Nat /\ Size > 2
    /\ Rows \in Nat /\ Rows > 1

Commands == Pictures \union {Update}
Queues == {0, 1}
Slots == 0 .. Size - 1

VARIABLES
    front, end,     \* _p_command_queue_front and _end of each queue
    slot,           \* _command_queue
    sendQueue, recvQueue,   \* _current_send_command_queue, _current_recv_...
    flushing,       \* _is_flushing_recv_command
    refreshing,     \* _is_refreshing
    buffer,         \* _current_buffer, which is shown
    screen,         \* the rows of _screen, buffer after buffer
    client, command,        \* where thread 0 is, and its command
    driver, current, picture, row,  \* thread 2, its command, what it has drawn,
                    \* and the row that it copies
    vga, shown      \* thread 1, and the rows of this field that it has drawn

queues == <<front, end, slot, sendQueue, recvQueue>>
clientVars == <<client, command>>
driverVars == <<driver, current, picture, row>>
vgaVars == <<vga, shown>>
screenVars == <<refreshing, buffer, screen>>
vars == <<queues, flushing, screenVars, clientVars, driverVars, vgaVars>>

\* The slots are linked in a circle.
NextSlot(s) == (s + 1) % Size

-----------------------------------------------------------------------------
(* The client: graphic_plot_line, ..., graphic_update_screen               *)

\* graphic_send_command finds room, or drops the command: no caller looks at
\* what it returns.  The update that was dropped is waited for all the same.
BeginSend(c) ==
    /\ client = "idle"
    /\ IF end[sendQueue] # front[sendQueue]
       THEN client' = "write" /\ command' = c
       ELSE client' = (IF c = Update THEN "flush" ELSE "idle") /\ UNCHANGED command
    /\ UNCHANGED <<queues, flushing, screenVars, driverVars, vgaVars>>

WriteCommand ==
    /\ client = "write"
    /\ slot' = [slot EXCEPT ![sendQueue][end[sendQueue]] = command]
    /\ client' = "advance"
    /\ UNCHANGED <<front, end, sendQueue, recvQueue, flushing, screenVars, command, driverVars, vgaVars>>

AdvanceEnd ==
    /\ client = "advance"
    /\ end' = [end EXCEPT ![sendQueue] = NextSlot(@)]
    /\ client' = IF command = Update THEN "flush" ELSE "idle"
    /\ command' = NoCommand
    /\ UNCHANGED <<front, slot, sendQueue, recvQueue, flushing, screenVars, driverVars, vgaVars>>

\* graphic_flush_recv_command_queue: ask, and spin.
Flush ==
    /\ client = "flush"
    /\ flushing' = TRUE
    /\ client' = "spin"
    /\ UNCHANGED <<queues, screenVars, command, driverVars, vgaVars>>

Flushed ==
    /\ client = "spin"
    /\ ~flushing
    /\ client' = "idle"
    /\ UNCHANGED <<queues, flushing, screenVars, command, driverVars, vgaVars>>

Client ==
    \/ \E c \in Commands : BeginSend(c)
    \/ WriteCommand \/ AdvanceEnd \/ Flush \/ Flushed

-----------------------------------------------------------------------------
(* The graphic driver: graphic_recv_command and update_screen              *)

DriverStep(from, to) == driver = from /\ driver' = to

InitQueue ==
    /\ DriverStep("init", "receive")
    /\ front' = [q \in Queues |-> 0]
    /\ end' = [q \in Queues |-> 1]
    /\ sendQueue' = 0
    /\ recvQueue' = 1
    /\ UNCHANGED <<slot, flushing, screenVars, clientVars, current, picture, row, vgaVars>>

\* Mutant: the front is taken for the first command, not for the slot before it.
IsEmptyAtEnd(q) == front[q] = end[q]

IsEmpty(q) == NextSlot(front[q]) = end[q]

Receive ==
    /\ driver = "receive"
    /\ IF IsEmpty(recvQueue)
       THEN driver' = "empty" /\ UNCHANGED front
       ELSE driver' = "take" /\ front' = [front EXCEPT ![recvQueue] = NextSlot(@)]
    /\ UNCHANGED <<end, slot, sendQueue, recvQueue, flushing, screenVars, clientVars, current, picture, row, vgaVars>>

\* The commands in slots that were taken are forgotten here: it takes a new
\* command in them to make anybody look at them again.
Execute ==
    /\ driver = "take"
    /\ current' = slot[recvQueue][front[recvQueue]]
    /\ IF current' = Update
       THEN driver' = "copy" /\ row' = 0 /\ UNCHANGED picture
       ELSE driver' = "receive" /\ picture' = current' /\ UNCHANGED row
    /\ slot' = [slot EXCEPT ![recvQueue][front[recvQueue]] = NoCommand]
    /\ UNCHANGED <<front, end, sendQueue, recvQueue, flushing, screenVars, clientVars, vgaVars>>

\* Mutant: the client is let go before the queues are exchanged.
AnswerFirst ==
    /\ DriverStep("empty", IF flushing THEN "toggle" ELSE "answer")
    /\ flushing' = FALSE
    /\ UNCHANGED <<queues, screenVars, clientVars, current, picture, row, vgaVars>>

\* The test of the flag ...
CheckFlush ==
    /\ DriverStep("empty", IF flushing THEN "toggle" ELSE "answer")
    /\ UNCHANGED <<queues, flushing, screenVars, clientVars, current, picture, row, vgaVars>>

ToggleSend ==
    /\ DriverStep("toggle", "toggle2")
    /\ sendQueue' = 1 - sendQueue
    /\ UNCHANGED <<front, end, slot, recvQueue, flushing, screenVars, clientVars, current, picture, row, vgaVars>>

ToggleRecv ==
    /\ DriverStep("toggle2", "answer")
    /\ recvQueue' = 1 - recvQueue
    /\ UNCHANGED <<front, end, slot, sendQueue, flushing, screenVars, clientVars, current, picture, row, vgaVars>>

\* ... and its reset, which comes whether it was set or not.
Answer ==
    /\ DriverStep("answer", "receive")
    /\ flushing' = FALSE
    /\ UNCHANGED <<queues, screenVars, clientVars, current, picture, row, vgaVars>>

\* Mutant: the buffer that is shown is drawn into.
CopyShown ==
    /\ driver = "copy"
    /\ screen' = [screen EXCEPT ![buffer * Rows + row] = IF row < Rows THEN picture ELSE Junk]
    /\ row' = row + 1
    /\ driver' = IF row = Rows THEN "refresh" ELSE "copy"
    /\ UNCHANGED <<queues, flushing, refreshing, buffer, clientVars, current, picture, vgaVars>>

\* vga_copy_into_back_buffer, which copies one row more than a buffer has.
CopyRow ==
    /\ driver = "copy"
    /\ screen' = [screen EXCEPT ![(1 - buffer) * Rows + row] = IF row < Rows THEN picture ELSE Junk]
    /\ row' = row + 1
    /\ driver' = IF row = Rows THEN "refresh" ELSE "copy"
    /\ UNCHANGED <<queues, flushing, refreshing, buffer, clientVars, current, picture, vgaVars>>

\* vga_refresh_screen
Refresh ==
    /\ DriverStep("refresh", "wait")
    /\ refreshing' = TRUE
    /\ UNCHANGED <<queues, flushing, buffer, screen, clientVars, current, picture, row, vgaVars>>

Refreshed ==
    /\ DriverStep("wait", "receive")
    /\ ~refreshing
    /\ UNCHANGED <<queues, flushing, screenVars, clientVars, current, picture, row, vgaVars>>

Driver ==
    \/ InitQueue \/ Receive \/ Execute
    \/ CheckFlush \/ ToggleSend \/ ToggleRecv \/ Answer
    \/ CopyRow \/ Refresh \/ Refreshed

-----------------------------------------------------------------------------
(* The VGA driver                                                          *)

\* Nothing is drawn before the first picture.
FirstRefresh ==
    /\ vga = "first" /\ refreshing
    /\ vga' = "vsync"
    /\ UNCHANGED <<queues, flushing, screenVars, clientVars, driverVars, shown>>

VSync ==
    /\ vga = "vsync"
    /\ vga' = IF refreshing THEN "toggle" ELSE "draw"
    /\ shown' = <<>>
    /\ UNCHANGED <<queues, flushing, screenVars, clientVars, driverVars>>

\* Mutant: the back buffer stays the back buffer.
ToggleNothing ==
    /\ vga = "toggle"
    /\ vga' = "clear"
    /\ UNCHANGED <<queues, flushing, screenVars, clientVars, driverVars, shown>>

\* vga_toggle_graphic_buffer
ToggleBuffer ==
    /\ vga = "toggle"
    /\ buffer' = 1 - buffer
    /\ vga' = "clear"
    /\ UNCHANGED <<queues, flushing, refreshing, screen, clientVars, driverVars, shown>>

\* Mutant: the request is not answered.
KeepRefresh ==
    /\ vga = "clear"
    /\ vga' = "draw"
    /\ UNCHANGED <<queues, flushing, screenVars, clientVars, driverVars, shown>>

ClearRefresh ==
    /\ vga = "clear"
    /\ refreshing' = FALSE
    /\ vga' = "draw"
    /\ UNCHANGED <<queues, flushing, buffer, screen, clientVars, driverVars, shown>>

DrawRow ==
    /\ vga = "draw"
    /\ shown' = Append(shown, screen[buffer * Rows + Len(shown)])
    /\ vga' = IF Len(shown) = Rows - 1 THEN "vsync" ELSE "draw"
    /\ UNCHANGED <<queues, flushing, screenVars, clientVars, driverVars>>

Vga == FirstRefresh \/ VSync \/ ToggleBuffer \/ ClearRefresh \/ DrawRow

-----------------------------------------------------------------------------

Init ==
    /\ front = [q \in Queues |-> 0]
    /\ end = [q \in Queues |-> 0]
    /\ slot = [q \in Queues |-> [s \in Slots |-> NoCommand]]
    /\ sendQueue = 0 /\ recvQueue = 0
    /\ flushing = FALSE
    /\ refreshing = FALSE
    /\ buffer = 0
    /\ screen = [r \in 0 .. 2 * Rows |-> Blank]
    /\ client = "flush" /\ command = NoCommand
    /\ driver = "init" /\ current = NoCommand /\ picture = Blank /\ row = 0
    /\ vga = "first" /\ shown = <<>>

Next == Client \/ Driver \/ Vga

Spec == Init /\ [][Next]_vars

\* Every thread runs on; the client may stop to send.
FairSpec ==
    /\ Spec
    /\ WF_vars(WriteCommand \/ AdvanceEnd \/ Flush \/ Flushed)
    /\ WF_vars(Driver)
    /\ WF_vars(Vga)

-----------------------------------------------------------------------------
(* Properties                                                              *)

TypeOK ==
    /\ front \in [Queues -> Slots] /\ end \in [Queues -> Slots]
    /\ slot \in [Queues -> [Slots -> Commands \union {NoCommand}]]
    /\ sendQueue \in Queues /\ recvQueue \in Queues
    /\ flushing \in BOOLEAN /\ refreshing \in BOOLEAN
    /\ buffer \in {0, 1}
    /\ screen \in [0 .. 2 * Rows -> Pictures \union {Blank, Junk}]
    /\ client \in {"idle", "write", "advance", "flush", "spin"}
    /\ command \in Commands \union {NoCommand}
    /\ driver \in {"init", "receive", "take", "empty", "toggle", "toggle2", "answer",
                   "copy", "refresh", "wait"}
    /\ current \in Commands \union {NoCommand}
    /\ picture \in Pictures \union {Blank}
    /\ row \in 0 .. Rows + 1
    /\ vga \in {"first", "vsync", "toggle", "clear", "draw"}
    /\ shown \in Seq(Pictures \union {Blank, Junk}) /\ Len(shown) <= Rows

\* The client and the driver never work on the same queue: the exchange of the
\* queues is over when the client leaves graphic_flush_recv_command_queue.
QueuesApart == client \in {"idle", "write", "advance"} => sendQueue # recvQueue

\* The commands that wait in a queue: those between the front and the end.
Held(f, e) == (e - f - 1) % Size
Ring(s, f, e) == [i \in 1 .. Held(f, e) |-> s[(f + i) % Size]]
Waiting(q) == Ring(slot[q], front[q], end[q])

\* The commands that were sent and not yet executed, and the one taken last.
Sent == IF driver = "init" THEN <<>> ELSE Waiting(recvQueue) \o Waiting(1 - recvQueue)
Executing == IF driver = "take" THEN slot[recvQueue][front[recvQueue]] ELSE current

\* The two queues, however the threads are interleaved with their exchange, are
\* one: commands are executed one at a time, in the order they were sent.
Send == \E c \in Commands : Sent' = Append(Sent, c) /\ UNCHANGED Executing
Take == Sent # <<>> /\ Executing' = Head(Sent) /\ Sent' = Tail(Sent)
InOrder == Sent = <<>> /\ Executing = NoCommand /\ [][Send \/ Take]_<<Sent, Executing>>

\* No picture is torn: the rows of a field come from one picture, but for the
\* first row, which the copy of the other buffer may run over.
FieldsAreWhole ==
    \A i, j \in 2 .. Len(shown) : shown[i] = shown[j]

\* An update that the driver executes gets to the screen as a whole.
UpdatesAreShown ==
    \A p \in Pictures :
        (driver = "refresh" /\ picture = p)
            ~> (Len(shown) = Rows /\ \A i \in 2 .. Rows : shown[i] = p)

\* The client gets out of a flush.
FlushesReturn == client = "spin" ~> client # "spin"

\* Without a lock the queues are kept apart and no field is torn.
Undisturbed == QueuesApart /\ FieldsAreWhole

\* They get on: an update gets to the screen, and the client out of a flush.
DriverProceeds == UpdatesAreShown /\ FlushesReturn

-----------------------------------------------------------------------------
(* Rings of slots                                                          *)

\* A remainder of what is less than two rounds away.
LEMMA Wrapped ==
    ASSUME NEW x \in (-Size) .. (2 * Size - 1)
    PROVE  x % Size = IF x < 0 THEN x + Size ELSE IF x < Size THEN x ELSE x - Size
<1> Size \in Nat /\ Size > 2
  BY GraphicConstants
<1>1. CASE x < 0
  <2>1. x + Size \in 0 .. Size - 1 /\ x = (x + Size) - Size
    BY <1>1
  <2> QED BY <1>1, <2>1
<1>2. CASE x \in 0 .. Size - 1
  BY <1>2
<1>3. CASE x >= Size
  BY <1>3
<1> QED BY <1>1, <1>2, <1>3

\* Some slots onward.
LEMMA Onward ==
    ASSUME NEW f \in Slots, NEW k \in 0 .. Size
    PROVE  (f + k) % Size = IF f + k < Size THEN f + k ELSE f + k - Size
<1> Size \in Nat /\ Size > 2 /\ f \in 0 .. Size - 1
  BY GraphicConstants DEF Slots
<1>1. f + k \in (-Size) .. (2 * Size - 1)
  OBVIOUS
<1> QED BY <1>1, Wrapped

\* How many slots are between a front and an end.
LEMMA HeldInRing ==
    ASSUME NEW f \in Slots, NEW e \in Slots
    PROVE  /\ Held(f, e) \in 0 .. Size - 1 /\ Held(f, e) \in Nat
           /\ Held(f, e) = IF e - f - 1 < 0 THEN e - f - 1 + Size ELSE e - f - 1
           /\ NextSlot(f) \in Slots
           /\ NextSlot(f) = IF f + 1 = Size THEN 0 ELSE f + 1
           /\ (NextSlot(f) = e) <=> (Held(f, e) = 0)
<1> Size \in Nat /\ Size > 2 /\ f \in 0 .. Size - 1 /\ e \in 0 .. Size - 1
  BY GraphicConstants DEF Slots
<1>1. Held(f, e) = IF e - f - 1 < 0 THEN e - f - 1 + Size ELSE e - f - 1
  BY Wrapped DEF Held
<1>2. NextSlot(f) = IF f + 1 = Size THEN 0 ELSE f + 1
  BY Wrapped DEF NextSlot
<1> QED BY <1>1, <1>2 DEF Slots

\* Where they are: neither at the front nor at the end.
LEMMA SlotsOfRing ==
    ASSUME NEW f \in Slots, NEW e \in Slots
    PROVE  /\ (f + Held(f, e) + 1) % Size = e
           /\ \A i \in 1 .. Held(f, e) :
                  (f + i) % Size \in Slots /\ (f + i) % Size # e /\ (f + i) % Size # f
<1> Size \in Nat /\ Size > 2 /\ f \in 0 .. Size - 1 /\ e \in 0 .. Size - 1
  BY GraphicConstants DEF Slots
<1>1. Held(f, e) = IF e - f - 1 < 0 THEN e - f - 1 + Size ELSE e - f - 1
  BY HeldInRing
<1>3. \A i \in 0 .. Size : (f + i) % Size = IF f + i < Size THEN f + i ELSE f + i - Size
  BY Onward
<1>4. (f + Held(f, e) + 1) % Size = e
  <2>1. Held(f, e) + 1 \in 0 .. Size /\ f + Held(f, e) + 1 = f + (Held(f, e) + 1)
    BY <1>1
  <2>2. (f + (Held(f, e) + 1)) % Size = IF f + (Held(f, e) + 1) < Size THEN f + (Held(f, e) + 1)
                                         ELSE f + (Held(f, e) + 1) - Size
    BY <1>3, <2>1
  <2> QED BY <1>1, <2>1, <2>2
<1>5. ASSUME NEW i \in 1 .. Held(f, e)
      PROVE  (f + i) % Size \in Slots /\ (f + i) % Size # e /\ (f + i) % Size # f
  <2>1. i \in 0 .. Size
    BY <1>1
  <2> QED BY <1>1, <1>3, <2>1 DEF Slots
<1> QED BY <1>4, <1>5

\* One slot further at the end is one slot more ...
LEMMA LongerRing ==
    ASSUME NEW f \in Slots, NEW e \in Slots, f # e
    PROVE  Held(f, NextSlot(e)) = Held(f, e) + 1
<1> Size \in Nat /\ Size > 2 /\ f \in 0 .. Size - 1 /\ e \in 0 .. Size - 1
  BY GraphicConstants DEF Slots
<1> DEFINE g == NextSlot(e)
<1>1. g \in Slots /\ g = IF e + 1 = Size THEN 0 ELSE e + 1
  BY HeldInRing
<1> HIDE DEF g
<1>2. Held(f, g) = IF g - f - 1 < 0 THEN g - f - 1 + Size ELSE g - f - 1
  BY <1>1, HeldInRing
<1>3. Held(f, e) = IF e - f - 1 < 0 THEN e - f - 1 + Size ELSE e - f - 1
  BY HeldInRing
<1>4. Held(f, g) = Held(f, e) + 1
  BY <1>1, <1>2, <1>3
<1> QED BY <1>4 DEF g

\* ... and one slot further at the front is one less.
LEMMA ShorterRing ==
    ASSUME NEW f \in Slots, NEW e \in Slots, NextSlot(f) # e
    PROVE  /\ Held(NextSlot(f), e) = Held(f, e) - 1
           /\ \A i \in 1 .. Held(f, e) - 1 :
                  (NextSlot(f) + i) % Size = (f + (i + 1)) % Size
<1> Size \in Nat /\ Size > 2 /\ f \in 0 .. Size - 1 /\ e \in 0 .. Size - 1
  BY GraphicConstants DEF Slots
<1> DEFINE g == NextSlot(f)
<1>1. g \in Slots /\ g \in 0 .. Size - 1 /\ g # e /\ g = IF f + 1 = Size THEN 0 ELSE f + 1
  BY HeldInRing DEF Slots
<1>2. Held(g, e) = IF e - g - 1 < 0 THEN e - g - 1 + Size ELSE e - g - 1
  BY <1>1, HeldInRing
<1>3. Held(f, e) = IF e - f - 1 < 0 THEN e - f - 1 + Size ELSE e - f - 1
  BY HeldInRing
<1> HIDE DEF g
<1>4. Held(g, e) = Held(f, e) - 1
  BY <1>1, <1>2, <1>3
<1>5. ASSUME NEW i \in 1 .. Held(f, e) - 1 PROVE (g + i) % Size = (f + (i + 1)) % Size
  <2> DEFINE k == i + 1
  <2>1. i \in 0 .. Size /\ k \in 0 .. Size /\ k = i + 1
    BY <1>3
  <2> HIDE DEF k
  <2>2. (g + i) % Size = IF g + i < Size THEN g + i ELSE g + i - Size
    BY <1>1, <2>1, Onward
  <2>3. (f + k) % Size = IF f + k < Size THEN f + k ELSE f + k - Size
    BY <2>1, Onward
  <2>4. (g + i) % Size = (f + k) % Size
    BY <1>1, <1>3, <2>1, <2>2, <2>3
  <2> QED BY <2>1, <2>4
<1> QED BY <1>4, <1>5 DEF g

\* A ring whose slots hold commands is a sequence of them.
LEMMA RingIsSeq ==
    ASSUME NEW s, NEW f \in Slots, NEW e \in Slots,
           \A i \in 1 .. Held(f, e) : s[(f + i) % Size] \in Commands
    PROVE  /\ Ring(s, f, e) \in Seq(Commands)
           /\ Len(Ring(s, f, e)) = Held(f, e)
           /\ \A i \in 1 .. Held(f, e) : Ring(s, f, e)[i] = s[(f + i) % Size]
<1> DEFINE n == Held(f, e)
<1>1. n \in Nat
  BY HeldInRing
<1>2. Ring(s, f, e) \in [1 .. n -> Commands]
  BY DEF Ring
<1> QED BY <1>1, <1>2 DEF Ring

\* What a ring of commands has in its slots.
LEMMA RingElements ==
    ASSUME NEW s, NEW f \in Slots, NEW e \in Slots, Ring(s, f, e) \in Seq(Commands)
    PROVE  /\ Len(Ring(s, f, e)) = Held(f, e)
           /\ \A i \in 1 .. Held(f, e) :
                  Ring(s, f, e)[i] = s[(f + i) % Size] /\ s[(f + i) % Size] \in Commands
<1> DEFINE n == Held(f, e)
           r == Ring(s, f, e)
<1>1. n \in Nat
  BY HeldInRing
<1>2. DOMAIN r = 1 .. n /\ \A i \in 1 .. n : r[i] = s[(f + i) % Size]
  BY DEF Ring
<1>3. Len(r) \in Nat /\ DOMAIN r = 1 .. Len(r)
  BY LenProperties
<1>4. Len(r) = n
  BY <1>1, <1>2, <1>3
<1>5. \A i \in 1 .. n : r[i] \in Commands
  BY <1>4, ElementOfSeq
<1> QED BY <1>2, <1>4, <1>5

\* Rings are equal whose slots are.
LEMMA RingsEqual ==
    ASSUME NEW s, NEW t, NEW f \in Slots, NEW e \in Slots,
           \A i \in 1 .. Held(f, e) : s[(f + i) % Size] = t[(f + i) % Size]
    PROVE  Ring(s, f, e) = Ring(t, f, e)
BY DEF Ring

\* Neither the slot before a ring nor the one after it is in it.
LEMMA RingSpares ==
    ASSUME NEW s \in [Slots -> Commands \union {NoCommand}], NEW f \in Slots, NEW e \in Slots,
           NEW c, NEW k \in {f, e}
    PROVE  Ring([s EXCEPT ![k] = c], f, e) = Ring(s, f, e)
<1>1. \A i \in 1 .. Held(f, e) :
          (f + i) % Size \in Slots /\ (f + i) % Size # e /\ (f + i) % Size # f
  BY SlotsOfRing
<1> DEFINE t == [s EXCEPT ![k] = c]
<1>2. \A i \in 1 .. Held(f, e) : t[(f + i) % Size] = s[(f + i) % Size]
  BY <1>1
<1> HIDE DEF t
<1>3. Ring(t, f, e) = Ring(s, f, e)
  BY <1>2, RingsEqual
<1> QED BY <1>3 DEF t

\* With the end one slot further, the command in that slot comes last ...
LEMMA RingAppends ==
    ASSUME NEW s, NEW f \in Slots, NEW e \in Slots, f # e,
           Ring(s, f, e) \in Seq(Commands), s[e] \in Commands
    PROVE  Ring(s, f, NextSlot(e)) = Append(Ring(s, f, e), s[e])
<1> DEFINE n == Held(f, e)
           g == NextSlot(e)
           a == Append(Ring(s, f, e), s[e])
<1>1. n \in Nat /\ Held(f, g) = n + 1 /\ g \in Slots /\ (f + n + 1) % Size = e
  BY HeldInRing, SlotsOfRing, LongerRing, Zenon
<1>2. /\ Len(Ring(s, f, e)) = n
      /\ \A i \in 1 .. n : Ring(s, f, e)[i] = s[(f + i) % Size] /\ s[(f + i) % Size] \in Commands
  BY RingElements
<1>3. \A i \in 1 .. n + 1 : s[(f + i) % Size] \in Commands
  <2> TAKE i \in 1 .. n + 1
  <2>1. CASE i = n + 1
    <3>1. f + i = f + n + 1
      BY <1>1, <2>1 DEF Slots
    <3> QED BY <1>1, <3>1
  <2>2. CASE i # n + 1
    BY <1>1, <1>2, <2>2
  <2> QED BY <2>1, <2>2
<1>4. /\ Ring(s, f, g) \in Seq(Commands) /\ Len(Ring(s, f, g)) = n + 1
      /\ \A i \in 1 .. n + 1 : Ring(s, f, g)[i] = s[(f + i) % Size]
  BY <1>1, <1>3, RingIsSeq
<1>5. /\ a \in Seq(Commands) /\ Len(a) = n + 1 /\ a[n + 1] = s[e]
      /\ \A i \in 1 .. n : a[i] = Ring(s, f, e)[i]
  BY <1>2, AppendProperties
<1>6. \A i \in 1 .. n + 1 : Ring(s, f, g)[i] = a[i]
  <2> TAKE i \in 1 .. n + 1
  <2>1. CASE i = n + 1
    <3>1. f + i = f + n + 1
      BY <1>1, <2>1 DEF Slots
    <3> QED BY <1>1, <1>4, <1>5, <2>1, <3>1
  <2>2. CASE i # n + 1
    <3>1. i \in 1 .. n
      BY <1>1, <2>2
    <3> QED BY <1>2, <1>4, <1>5, <3>1
  <2> QED BY <2>1, <2>2
<1> QED BY <1>4, <1>5, <1>6, SeqEqual

\* ... and with the front one slot further, the first is gone.
LEMMA RingTakes ==
    ASSUME NEW s, NEW f \in Slots, NEW e \in Slots, NextSlot(f) # e,
           Ring(s, f, e) \in Seq(Commands)
    PROVE  /\ Ring(s, f, e) # <<>>
           /\ Head(Ring(s, f, e)) = s[NextSlot(f)] /\ s[NextSlot(f)] \in Commands
           /\ Ring(s, NextSlot(f), e) = Tail(Ring(s, f, e))
<1> DEFINE n == Held(f, e)
           g == NextSlot(f)
           r == Ring(s, f, e)
<1>1. /\ n \in Nat /\ n # 0 /\ g \in Slots /\ Held(g, e) = n - 1
      /\ \A i \in 1 .. n - 1 : (g + i) % Size = (f + (i + 1)) % Size
  BY HeldInRing, ShorterRing, Zenon
<1>2. /\ Len(r) = n
      /\ \A i \in 1 .. n : r[i] = s[(f + i) % Size] /\ s[(f + i) % Size] \in Commands
  BY RingElements
<1>3. r # <<>>
  BY <1>1, <1>2, EmptySeq
<1>4. Head(r) = s[g] /\ s[g] \in Commands
  <2>1. Head(r) = r[1] /\ 1 \in 1 .. n /\ (f + 1) % Size = g
    BY <1>1 DEF NextSlot
  <2> QED BY <1>2, <2>1
<1>5. /\ Tail(r) \in Seq(Commands) /\ Len(Tail(r)) = n - 1
      /\ \A i \in 1 .. n - 1 : Tail(r)[i] = r[i + 1]
  <2>1. /\ Tail(r) \in Seq(Commands) /\ Len(Tail(r)) = Len(r) - 1
        /\ \A i \in 1 .. Len(Tail(r)) : Tail(r)[i] = r[i + 1]
    BY <1>3, HeadTailProperties
  <2> QED BY <1>2, <2>1
<1>6. \A i \in 1 .. n - 1 : s[(g + i) % Size] = Tail(r)[i] /\ s[(g + i) % Size] \in Commands
  <2> TAKE i \in 1 .. n - 1
  <2>1. i + 1 \in 1 .. n
    BY <1>1
  <2> QED BY <1>1, <1>2, <1>5, <2>1
<1>7. /\ Ring(s, g, e) \in Seq(Commands) /\ Len(Ring(s, g, e)) = n - 1
      /\ \A i \in 1 .. n - 1 : Ring(s, g, e)[i] = s[(g + i) % Size]
  BY <1>1, <1>6, RingIsSeq
<1>8. Ring(s, g, e) = Tail(r)
  BY <1>5, <1>6, <1>7, SeqEqual
<1> QED BY <1>3, <1>4, <1>8

\* A ring is empty whose front is just before its end.
LEMMA RingEmpty ==
    ASSUME NEW s, NEW f \in Slots, NEW e \in Slots, NextSlot(f) = e
    PROVE  Ring(s, f, e) = <<>> /\ Ring(s, f, e) \in Seq(Commands)
<1>1. Held(f, e) = 0
  BY HeldInRing
<1>2. \A i \in 1 .. Held(f, e) : s[(f + i) % Size] \in Commands
  BY <1>1
<1>3. Ring(s, f, e) \in Seq(Commands) /\ Len(Ring(s, f, e)) = 0
  BY <1>1, <1>2, RingIsSeq, Zenon
<1> QED BY <1>3, EmptySeq

\* The first of two sequences, the first not empty.
LEMMA HeadTailConcat ==
    ASSUME NEW s \in Seq(Commands), NEW t \in Seq(Commands), s # <<>>
    PROVE  /\ s \o t # <<>>
           /\ Head(s \o t) = Head(s)
           /\ Tail(s \o t) = Tail(s) \o t
<1> DEFINE u == s \o t
<1>1. Len(s) \in Nat \ {0} /\ Len(t) \in Nat
  BY EmptySeq, LenProperties
<1>2. /\ u \in Seq(Commands) /\ Len(u) = Len(s) + Len(t)
      /\ \A i \in 1 .. Len(s) + Len(t) : u[i] = IF i <= Len(s) THEN s[i] ELSE t[i - Len(s)]
  BY ConcatProperties
<1> HIDE DEF u
<1>3. u # <<>>
  BY <1>1, <1>2, EmptySeq
<1>4. Head(u) = Head(s)
  <2>1. Head(u) = u[1] /\ Head(s) = s[1]
    OBVIOUS
  <2>2. 1 \in 1 .. Len(s) + Len(t) /\ 1 <= Len(s)
    BY <1>1
  <2> QED BY <1>2, <2>1, <2>2
<1>5. /\ Tail(u) \in Seq(Commands) /\ Len(Tail(u)) = Len(u) - 1
      /\ \A i \in 1 .. Len(Tail(u)) : Tail(u)[i] = u[i + 1]
  BY <1>2, <1>3, HeadTailProperties
<1>6. /\ Tail(s) \in Seq(Commands) /\ Len(Tail(s)) = Len(s) - 1
      /\ \A i \in 1 .. Len(Tail(s)) : Tail(s)[i] = s[i + 1]
  BY HeadTailProperties
<1> DEFINE v == Tail(s) \o t
<1>7. /\ v \in Seq(Commands) /\ Len(v) = Len(s) - 1 + Len(t)
      /\ \A i \in 1 .. Len(s) - 1 + Len(t) :
             v[i] = IF i <= Len(s) - 1 THEN Tail(s)[i] ELSE t[i - (Len(s) - 1)]
  <2> HIDE DEF v
  <2>1. /\ v \in Seq(Commands) /\ Len(v) = Len(Tail(s)) + Len(t)
        /\ \A i \in 1 .. Len(Tail(s)) + Len(t) :
               v[i] = IF i <= Len(Tail(s)) THEN Tail(s)[i] ELSE t[i - Len(Tail(s))]
    BY <1>6, ConcatProperties DEF v
  <2> QED BY <1>6, <2>1
<1> HIDE DEF v
<1>8. \A i \in 1 .. Len(Tail(u)) : Tail(u)[i] = v[i]
  <2> TAKE i \in 1 .. Len(Tail(u))
  <2>1. /\ i \in 1 .. Len(s) - 1 + Len(t) /\ i + 1 \in 1 .. Len(s) + Len(t)
        /\ (i + 1) - Len(s) = i - (Len(s) - 1) /\ (i + 1 <= Len(s) <=> i <= Len(s) - 1)
    BY <1>1, <1>2, <1>5
  <2>2. Tail(u)[i] = IF i + 1 <= Len(s) THEN s[i + 1] ELSE t[(i + 1) - Len(s)]
    BY <1>2, <1>5, <2>1
  <2>3. v[i] = IF i <= Len(s) - 1 THEN Tail(s)[i] ELSE t[i - (Len(s) - 1)]
    BY <1>7, <2>1
  <2>4. i <= Len(s) - 1 => Tail(s)[i] = s[i + 1]
    BY <1>1, <1>6, <2>1
  <2> QED BY <2>1, <2>2, <2>3, <2>4
<1>9. Tail(u) = v
  BY <1>1, <1>2, <1>5, <1>7, <1>8, SeqEqual
<1> QED BY <1>3, <1>4, <1>9 DEF u, v

-----------------------------------------------------------------------------
(* The invariant                                                           *)

\* A flush is asked for by a client that spins, and while it does the driver
\* exchanges the queues: they are the same between the two halves of that only.
Exchange ==
    /\ flushing => client = "spin"
    /\ driver \in {"toggle", "toggle2"} => flushing
    /\ driver = "init" => client \in {"flush", "spin"} /\ (client = "spin" => flushing)
    /\ (sendQueue = recvQueue) <=> driver \in {"init", "toggle2"}

\* The slots between a front and an end hold commands, and so does what one of
\* the threads has in its hands.
Loaded ==
    /\ driver # "init" => \A q \in Queues : Waiting(q) \in Seq(Commands)
    /\ driver = "take" => slot[recvQueue][front[recvQueue]] \in Commands
    /\ driver \in {"empty", "toggle", "toggle2"} => IsEmpty(recvQueue)
    /\ client \in {"write", "advance"} =>
           command \in Commands /\ end[sendQueue] # front[sendQueue]
    /\ client = "advance" => slot[sendQueue][end[sendQueue]] = command

\* All rows of a buffer but the first are of one picture.
Even(b) == \A i, j \in 1 .. Rows - 1 : screen[b * Rows + i] = screen[b * Rows + j]

\* The buffer that is shown is even, and the other one is before it gets shown.
Screens ==
    /\ refreshing => driver = "wait"
    /\ vga \in {"toggle", "clear"} => refreshing /\ shown = <<>>
    /\ vga = "first" => shown = <<>>
    /\ vga = "draw" => Len(shown) < Rows
    /\ driver = "copy" =>
           /\ row <= Rows
           /\ \A i \in 1 .. Rows - 1 : i < row => screen[(1 - buffer) * Rows + i] = picture
    /\ driver = "refresh" \/ (refreshing /\ vga # "clear") => Even(1 - buffer)
    /\ Even(buffer)
    /\ \A i \in 2 .. Len(shown) : shown[i] = screen[buffer * Rows + (i - 1)]

IInv == TypeOK /\ Exchange /\ Loaded /\ Screens

\* Every thread starts where the invariant holds ...
LEMMA InitHolds == Init => IInv
<1> SUFFICES ASSUME Init PROVE IInv
  OBVIOUS
<1>0. /\ Size \in Nat /\ Size > 2 /\ Rows \in Nat /\ Rows > 1
      /\ 0 \in Slots /\ 0 \in Queues /\ 0 \in 0 .. Rows + 1
      /\ shown = <<>> /\ shown \in Seq(Pictures \union {Blank, Junk}) /\ Len(shown) = 0
  BY GraphicConstants, EmptySeq DEF Init, Slots, Queues
<1>1. TypeOK
  BY <1>0 DEF Init, TypeOK
<1>2. Exchange /\ Loaded
  BY DEF Init, Exchange, Loaded
<1>3. Screens
  BY <1>0 DEF Init, Screens, Even
<1> QED BY <1>1, <1>2, <1>3 DEF IInv

\* Where the rows of the two buffers are.
LEMMA Buffers ==
    ASSUME TypeOK
    PROVE  /\ Rows \in Nat /\ Rows > 1 /\ 1 - buffer \in {0, 1} /\ 1 - (1 - buffer) = buffer
           /\ \/ buffer = 0 /\ buffer * Rows = 0 /\ (1 - buffer) * Rows = Rows
              \/ buffer = 1 /\ buffer * Rows = Rows /\ (1 - buffer) * Rows = 0
BY GraphicConstants DEF TypeOK

\* ... and no step of any of them leaves it: the types,
LEMMA TypesStay == IInv /\ [Next]_vars => TypeOK'
<1> SUFFICES ASSUME IInv, [Next]_vars PROVE TypeOK'
  OBVIOUS
<1>0. TypeOK
  BY DEF IInv
<1>1. ASSUME NEW c \in Commands, BeginSend(c) PROVE TypeOK'
  BY <1>0, <1>1 DEF TypeOK, BeginSend, queues, screenVars, driverVars, vgaVars
<1>2. CASE WriteCommand
  <2>1. command \in Commands /\ sendQueue \in Queues /\ end[sendQueue] \in Slots
    BY <1>0, <1>2 DEF IInv, Loaded, TypeOK, WriteCommand
  <2> QED BY <1>0, <1>2, <2>1 DEF TypeOK, WriteCommand, screenVars, driverVars, vgaVars
<1>3. CASE AdvanceEnd
  <2>1. NextSlot(end[sendQueue]) \in Slots
    BY <1>0, HeldInRing DEF TypeOK
  <2> QED BY <1>0, <1>3, <2>1 DEF TypeOK, AdvanceEnd, screenVars, driverVars, vgaVars
<1>4. CASE Flush \/ Flushed
  BY <1>0, <1>4 DEF TypeOK, Flush, Flushed, queues, screenVars, driverVars, vgaVars
<1>5. CASE InitQueue
  <2>1. 0 \in Slots /\ 1 \in Slots
    BY GraphicConstants DEF Slots
  <2> QED BY <1>0, <1>5, <2>1
          DEF TypeOK, InitQueue, DriverStep, Queues, screenVars, clientVars, vgaVars
<1>6. CASE Receive
  <2>1. NextSlot(front[recvQueue]) \in Slots
    BY <1>0, HeldInRing DEF TypeOK
  <2> QED BY <1>0, <1>6, <2>1 DEF TypeOK, Receive, screenVars, clientVars, vgaVars
<1>7. CASE Execute
  <2>1. current' \in Commands
    BY <1>7 DEF IInv, Loaded, Execute
  <2>2. row' \in 0 .. Rows + 1 /\ picture' \in Pictures \union {Blank}
    BY <1>0, <1>7, <2>1, GraphicConstants DEF TypeOK, Execute, Commands
  <2> QED BY <1>0, <1>7, <2>1, <2>2 DEF TypeOK, Execute, screenVars, clientVars, vgaVars
<1>8. CASE CheckFlush \/ Answer
  BY <1>0, <1>8
     DEF TypeOK, CheckFlush, Answer, DriverStep, queues, screenVars, clientVars, vgaVars
<1>9. CASE ToggleSend \/ ToggleRecv
  BY <1>0, <1>9
     DEF TypeOK, ToggleSend, ToggleRecv, DriverStep, Queues, screenVars, clientVars, vgaVars
<1>10. CASE CopyRow
  <2>1. row \in 0 .. Rows
    BY <1>0, <1>10 DEF IInv, Screens, CopyRow, TypeOK
  <2>2. (1 - buffer) * Rows + row \in 0 .. 2 * Rows
    BY <1>0, <2>1, Buffers
  <2>3. row' \in 0 .. Rows + 1
    BY <1>10, <2>1, GraphicConstants DEF CopyRow
  <2> QED BY <1>0, <1>10, <2>1, <2>2, <2>3
          DEF TypeOK, CopyRow, queues, clientVars, vgaVars
<1>11. CASE Refresh \/ Refreshed
  BY <1>0, <1>11
     DEF TypeOK, Refresh, Refreshed, DriverStep, queues, screenVars, clientVars, vgaVars
<1>12. CASE FirstRefresh \/ ToggleBuffer \/ ClearRefresh
  <2>1. CASE FirstRefresh \/ ClearRefresh
    BY <1>0, <2>1
       DEF TypeOK, FirstRefresh, ClearRefresh, queues, screenVars, clientVars, driverVars
  <2>2. CASE ToggleBuffer
    BY <1>0, <2>2, Buffers DEF TypeOK, ToggleBuffer, queues, clientVars, driverVars
  <2> QED BY <1>12, <2>1, <2>2
<1>13. CASE VSync
  <2>1. shown' \in Seq(Pictures \union {Blank, Junk}) /\ Len(shown') <= Rows
    BY <1>13, EmptySeq, GraphicConstants DEF VSync
  <2> QED BY <1>0, <1>13, <2>1 DEF TypeOK, VSync, queues, screenVars, clientVars, driverVars
<1>14. CASE DrawRow
  <2>1. shown \in Seq(Pictures \union {Blank, Junk}) /\ Len(shown) \in Nat /\ Len(shown) < Rows
    BY <1>0, <1>14 DEF IInv, Screens, DrawRow, TypeOK
  <2>2. buffer * Rows + Len(shown) \in 0 .. 2 * Rows
    BY <1>0, <2>1, Buffers
  <2>3. screen[buffer * Rows + Len(shown)] \in Pictures \union {Blank, Junk}
    BY <1>0, <2>2 DEF TypeOK
  <2>4. shown' \in Seq(Pictures \union {Blank, Junk}) /\ Len(shown') = Len(shown) + 1
    BY <1>14, <2>1, <2>3, AppendProperties DEF DrawRow
  <2>5. Len(shown') <= Rows
    BY <2>1, <2>4, GraphicConstants
  <2> QED BY <1>0, <1>14, <2>4, <2>5
          DEF TypeOK, DrawRow, queues, screenVars, clientVars, driverVars
<1>15. CASE UNCHANGED vars
  BY <1>0, <1>15 DEF TypeOK, vars, queues, screenVars, clientVars, driverVars, vgaVars
<1> QED BY <1>1, <1>2, <1>3, <1>4, <1>5, <1>6, <1>7, <1>8, <1>9, <1>10, <1>11, <1>12,
           <1>13, <1>14, <1>15 DEF Next, Client, Driver, Vga

\* the protocol of the flush,
LEMMA ExchangeStays == IInv /\ [Next]_vars => Exchange'
<1> SUFFICES ASSUME IInv, [Next]_vars PROVE Exchange'
  OBVIOUS
<1>0. Exchange /\ TypeOK
  BY DEF IInv
<1>1. ASSUME NEW c \in Commands, BeginSend(c) PROVE Exchange'
  BY <1>0, <1>1 DEF Exchange, BeginSend, queues, driverVars
<1>2. CASE WriteCommand \/ AdvanceEnd \/ Flush \/ Flushed
  BY <1>0, <1>2
     DEF Exchange, WriteCommand, AdvanceEnd, Flush, Flushed, queues, driverVars
<1>3. CASE InitQueue \/ CheckFlush \/ Answer
  BY <1>0, <1>3
     DEF Exchange, InitQueue, CheckFlush, Answer, DriverStep, queues, clientVars
<1>4. CASE ToggleSend \/ ToggleRecv
  BY <1>0, <1>4 DEF Exchange, ToggleSend, ToggleRecv, DriverStep, clientVars, TypeOK, Queues
<1>5. CASE Receive \/ Execute \/ CopyRow \/ Refresh \/ Refreshed
  BY <1>0, <1>5
     DEF Exchange, Receive, Execute, CopyRow, Refresh, Refreshed, DriverStep, queues, clientVars
<1>6. CASE Vga
  BY <1>0, <1>6 DEF Exchange, Vga, FirstRefresh, VSync, ToggleBuffer, ClearRefresh, DrawRow,
                    queues, clientVars, driverVars
<1>7. CASE UNCHANGED vars
  BY <1>0, <1>7 DEF Exchange, vars, queues, clientVars, driverVars
<1> QED BY <1>1, <1>2, <1>3, <1>4, <1>5, <1>6, <1>7 DEF Next, Client, Driver

\* (What holds of the rings once they are set up.)
LEMMA RingsHold ==
    ASSUME IInv, driver # "init"
    PROVE  /\ sendQueue \in Queues /\ recvQueue \in Queues
           /\ \A q \in Queues : /\ front[q] \in Slots /\ end[q] \in Slots
                                /\ slot[q] \in [Slots -> Commands \union {NoCommand}]
                                /\ Ring(slot[q], front[q], end[q]) \in Seq(Commands)
BY DEF IInv, TypeOK, Loaded, Waiting

\* the commands in the queues,
LEMMA LoadedStays == IInv /\ [Next]_vars => Loaded'
<1> SUFFICES ASSUME IInv, [Next]_vars PROVE Loaded'
  OBVIOUS
<1>0. Exchange /\ TypeOK /\ Loaded
  BY DEF IInv
<1>1. ASSUME NEW c \in Commands, BeginSend(c) PROVE Loaded'
  BY <1>0, <1>1 DEF Exchange, Loaded, BeginSend, queues, driverVars, Waiting, IsEmpty
<1>2. CASE WriteCommand
  <2>0. driver \notin {"init", "toggle", "toggle2"} /\ sendQueue # recvQueue
    BY <1>0, <1>2 DEF Exchange, WriteCommand
  <2> DEFINE q == sendQueue
  <2>1. /\ q \in Queues /\ recvQueue \in Queues
        /\ \A p \in Queues : /\ front[p] \in Slots /\ end[p] \in Slots
                             /\ slot[p] \in [Slots -> Commands \union {NoCommand}]
                             /\ Ring(slot[p], front[p], end[p]) \in Seq(Commands)
    BY <2>0, RingsHold
  <2>2. /\ slot'[q] = [slot[q] EXCEPT ![end[q]] = command]
        /\ \A p \in Queues \ {q} : slot'[p] = slot[p]
        /\ UNCHANGED <<front, end, sendQueue, recvQueue, driver, command>> /\ client' = "advance"
    BY <1>0, <1>2 DEF WriteCommand, TypeOK, driverVars
  <2>3. Ring(slot'[q], front[q], end[q]) = Ring(slot[q], front[q], end[q])
    <3>1. /\ slot[q] \in [Slots -> Commands \union {NoCommand}]
          /\ front[q] \in Slots /\ end[q] \in Slots /\ end[q] \in {front[q], end[q]}
      BY <2>1
    <3>2. Ring([slot[q] EXCEPT ![end[q]] = command], front[q], end[q]) = Ring(slot[q], front[q], end[q])
      BY <3>1, RingSpares
    <3> QED BY <2>2, <3>2
  <2>4. \A p \in Queues : Waiting(p)' \in Seq(Commands)
    BY <2>1, <2>2, <2>3 DEF Waiting
  <2>5. slot'[q][end[q]] = command
    BY <2>1, <2>2
  <2> QED BY <1>0, <1>2, <2>0, <2>1, <2>2, <2>4, <2>5 DEF Loaded, IsEmpty, WriteCommand
<1>3. CASE AdvanceEnd
  <2>0. driver \notin {"init", "toggle", "toggle2"} /\ sendQueue # recvQueue
    BY <1>0, <1>3 DEF Exchange, AdvanceEnd
  <2> DEFINE q == sendQueue
  <2>1. /\ q \in Queues /\ recvQueue \in Queues
        /\ \A p \in Queues : /\ front[p] \in Slots /\ end[p] \in Slots
                             /\ slot[p] \in [Slots -> Commands \union {NoCommand}]
                             /\ Ring(slot[p], front[p], end[p]) \in Seq(Commands)
    BY <2>0, RingsHold
  <2>2. /\ end'[q] = NextSlot(end[q]) /\ \A p \in Queues \ {q} : end'[p] = end[p]
        /\ UNCHANGED <<front, slot, sendQueue, recvQueue, driver>> /\ client' \in {"flush", "idle"}
    BY <1>0, <1>3 DEF AdvanceEnd, TypeOK, driverVars
  <2>3. front[q] # end[q] /\ slot[q][end[q]] \in Commands
    BY <1>0, <1>3 DEF Loaded, AdvanceEnd
  <2>4. Ring(slot[q], front[q], NextSlot(end[q])) \in Seq(Commands)
    <3>1. Ring(slot[q], front[q], NextSlot(end[q])) = Append(Ring(slot[q], front[q], end[q]), slot[q][end[q]])
      BY <2>1, <2>3, RingAppends
    <3> QED BY <2>1, <2>3, <3>1, AppendProperties
  <2>5. \A p \in Queues : Waiting(p)' \in Seq(Commands)
    BY <2>1, <2>2, <2>4 DEF Waiting
  <2> QED BY <1>0, <2>0, <2>1, <2>2, <2>5 DEF Loaded, IsEmpty
<1>4. CASE Flush \/ Flushed
  BY <1>0, <1>4 DEF Loaded, Flush, Flushed, queues, driverVars, Waiting, IsEmpty
<1>5. CASE InitQueue
  <2>1. /\ client' \in {"flush", "spin"} /\ driver' = "receive"
        /\ \A q \in Queues : front'[q] = 0 /\ end'[q] = 1
    BY <1>0, <1>5 DEF Exchange, InitQueue, DriverStep, clientVars
  <2>2. 0 \in Slots /\ 1 \in Slots /\ NextSlot(0) = 1
    BY GraphicConstants, HeldInRing DEF Slots
  <2>3. \A q \in Queues : Waiting(q)' \in Seq(Commands)
    BY <2>1, <2>2, RingEmpty DEF Waiting
  <2> QED BY <2>1, <2>3 DEF Loaded
<1>6. CASE Receive
  <2>0. driver = "receive" /\ sendQueue # recvQueue
    BY <1>0, <1>6 DEF Exchange, Receive
  <2> DEFINE q == recvQueue
  <2>1. /\ q \in Queues /\ sendQueue \in Queues
        /\ \A p \in Queues : /\ front[p] \in Slots /\ end[p] \in Slots
                             /\ slot[p] \in [Slots -> Commands \union {NoCommand}]
                             /\ Ring(slot[p], front[p], end[p]) \in Seq(Commands)
    BY <2>0, RingsHold
  <2>2. UNCHANGED <<end, slot, sendQueue, recvQueue, client, command>>
    BY <1>6 DEF Receive, clientVars
  <2>3. CASE IsEmpty(q)
    <3>1. driver' = "empty" /\ front' = front
      BY <1>6, <2>3 DEF Receive
    <3> QED BY <1>0, <2>0, <2>2, <2>3, <3>1 DEF Loaded, Waiting, IsEmpty
  <2>4. CASE ~IsEmpty(q)
    <3>1. /\ driver' = "take" /\ front'[q] = NextSlot(front[q])
          /\ \A p \in Queues \ {q} : front'[p] = front[p]
      BY <1>0, <1>6, <2>4 DEF Receive, TypeOK
    <3>2. /\ slot[q][NextSlot(front[q])] \in Commands
          /\ Ring(slot[q], NextSlot(front[q]), end[q]) \in Seq(Commands)
      <4> DEFINE r == Ring(slot[q], front[q], end[q])
      <4>1. r \in Seq(Commands) /\ front[q] \in Slots /\ end[q] \in Slots /\ NextSlot(front[q]) # end[q]
        BY <2>1, <2>4 DEF IsEmpty
      <4>2. /\ slot[q][NextSlot(front[q])] \in Commands /\ r # <<>>
            /\ Ring(slot[q], NextSlot(front[q]), end[q]) = Tail(r)
        BY <4>1, RingTakes
      <4>3. Tail(r) \in Seq(Commands)
        BY <4>1, <4>2, HeadTailProperties
      <4> QED BY <4>2, <4>3
    <3>3. \A p \in Queues : Waiting(p)' \in Seq(Commands)
      BY <2>1, <2>2, <3>1, <3>2 DEF Waiting
    <3> QED BY <1>0, <2>0, <2>1, <2>2, <3>1, <3>2, <3>3 DEF Loaded
  <2> QED BY <2>3, <2>4
<1>7. CASE Execute
  <2>0. driver = "take" /\ sendQueue # recvQueue /\ driver' \in {"copy", "receive"}
    BY <1>0, <1>7 DEF Exchange, Execute
  <2> DEFINE q == recvQueue
  <2>1. /\ q \in Queues /\ sendQueue \in Queues
        /\ \A p \in Queues : /\ front[p] \in Slots /\ end[p] \in Slots
                             /\ slot[p] \in [Slots -> Commands \union {NoCommand}]
                             /\ Ring(slot[p], front[p], end[p]) \in Seq(Commands)
    BY <2>0, RingsHold
  <2>2. /\ slot'[q] = [slot[q] EXCEPT ![front[q]] = NoCommand]
        /\ \A p \in Queues \ {q} : slot'[p] = slot[p]
        /\ UNCHANGED <<front, end, sendQueue, recvQueue, client, command>>
    BY <1>0, <1>7 DEF Execute, TypeOK, clientVars
  <2>3. Ring(slot'[q], front[q], end[q]) = Ring(slot[q], front[q], end[q])
    <3>1. /\ slot[q] \in [Slots -> Commands \union {NoCommand}]
          /\ front[q] \in Slots /\ end[q] \in Slots /\ front[q] \in {front[q], end[q]}
      BY <2>1
    <3>2. Ring([slot[q] EXCEPT ![front[q]] = NoCommand], front[q], end[q]) = Ring(slot[q], front[q], end[q])
      BY <3>1, RingSpares
    <3> QED BY <2>2, <3>2
  <2>4. \A p \in Queues : Waiting(p)' \in Seq(Commands)
    BY <2>1, <2>2, <2>3 DEF Waiting
  <2> QED BY <1>0, <2>0, <2>1, <2>2, <2>4 DEF Loaded
<1>8. CASE CheckFlush \/ Answer
  BY <1>0, <1>8
     DEF Loaded, CheckFlush, Answer, DriverStep, queues, clientVars, Waiting, IsEmpty
<1>9. CASE ToggleSend \/ ToggleRecv
  <2>1. client = "spin" /\ client' = client
    BY <1>0, <1>9 DEF Exchange, ToggleSend, ToggleRecv, DriverStep, clientVars
  <2> QED BY <1>0, <1>9, <2>1
          DEF Loaded, ToggleSend, ToggleRecv, DriverStep, Waiting, IsEmpty
<1>10. CASE CopyRow \/ Refresh \/ Refreshed
  BY <1>0, <1>10
     DEF Loaded, CopyRow, Refresh, Refreshed, DriverStep, queues, clientVars, Waiting, IsEmpty
<1>11. CASE Vga
  BY <1>0, <1>11 DEF Loaded, Vga, FirstRefresh, VSync, ToggleBuffer, ClearRefresh, DrawRow,
                     queues, clientVars, driverVars, Waiting, IsEmpty
<1>12. CASE UNCHANGED vars
  BY <1>0, <1>12 DEF Loaded, vars, queues, clientVars, driverVars, Waiting, IsEmpty
<1> QED BY <1>1, <1>2, <1>3, <1>4, <1>5, <1>6, <1>7, <1>8, <1>9, <1>10, <1>11, <1>12
        DEF Next, Client, Driver

\* and the buffers.
LEMMA ScreensStay == IInv /\ [Next]_vars => Screens'
<1> SUFFICES ASSUME IInv, [Next]_vars PROVE Screens'
  OBVIOUS
<1>0. TypeOK /\ Screens
  BY DEF IInv
<1>b. /\ Rows \in Nat /\ Rows > 1 /\ 1 - (1 - buffer) = buffer
      /\ \/ buffer * Rows = 0 /\ (1 - buffer) * Rows = Rows
         \/ buffer * Rows = Rows /\ (1 - buffer) * Rows = 0
  BY <1>0, Buffers
<1>1. CASE Client \/ UNCHANGED vars
  <2>1. UNCHANGED <<refreshing, buffer, screen, driver, picture, row, vga, shown>>
    BY <1>1 DEF Client, BeginSend, WriteCommand, AdvanceEnd, Flush, Flushed, vars,
                screenVars, driverVars, vgaVars
  <2> QED BY <1>0, <2>1 DEF Screens, Even
<1>2. CASE InitQueue \/ Receive \/ CheckFlush \/ ToggleSend \/ ToggleRecv \/ Answer \/ Refreshed
  <2>1. UNCHANGED <<refreshing, buffer, screen, picture, row, vga, shown>>
    BY <1>2 DEF InitQueue, Receive, CheckFlush, ToggleSend, ToggleRecv, Answer, Refreshed,
                screenVars, vgaVars
  <2>2. ~refreshing /\ driver' \notin {"copy", "refresh"}
    BY <1>0, <1>2 DEF Screens, InitQueue, Receive, CheckFlush, ToggleSend, ToggleRecv, Answer,
                      Refreshed, DriverStep
  <2> QED BY <1>0, <2>1, <2>2 DEF Screens, Even
<1>3. CASE Execute
  <2>1. UNCHANGED <<refreshing, buffer, screen, vga, shown>>
    BY <1>3 DEF Execute, screenVars, vgaVars
  <2>2. ~refreshing /\ driver' \in {"copy", "receive"} /\ (driver' = "copy" => row' = 0)
    BY <1>0, <1>3 DEF Screens, Execute
  <2> QED BY <1>0, <1>b, <2>1, <2>2 DEF Screens, Even
<1>4. CASE CopyRow
  <2> DEFINE a == (1 - buffer) * Rows
             new == IF row < Rows THEN picture ELSE Junk
  <2>1. /\ UNCHANGED <<refreshing, buffer, picture, vga, shown>> /\ ~refreshing
        /\ screen' = [screen EXCEPT ![a + row] = new] /\ row' = row + 1
        /\ driver = "copy" /\ driver' = IF row = Rows THEN "refresh" ELSE "copy"
    BY <1>0, <1>4 DEF CopyRow, Screens, vgaVars
  <2>2. row \in Nat /\ row <= Rows /\ screen \in [0 .. 2 * Rows -> Pictures \union {Blank, Junk}]
    BY <1>0, <2>1 DEF Screens, TypeOK
  <2>3. ASSUME NEW i \in 1 .. Rows - 1
        PROVE  /\ screen'[buffer * Rows + i] = screen[buffer * Rows + i]
               /\ screen'[a + i] = IF i = row THEN picture ELSE screen[a + i]
    <3>1. /\ buffer * Rows + i \in 0 .. 2 * Rows /\ a + i \in 0 .. 2 * Rows
          /\ buffer * Rows + i # a + row
          /\ i = row => a + i = a + row /\ row < Rows
          /\ i # row => a + i # a + row
      BY <1>b, <2>2
    <3> QED BY <2>1, <2>2, <3>1
  <2>4. \A i \in 1 .. Rows - 1 : i < row => screen[a + i] = picture
    BY <1>0, <2>1 DEF Screens
  <2>5. \A i \in 1 .. Rows - 1 : i < row' => screen'[a + i] = picture
    BY <2>1, <2>2, <2>3, <2>4
  <2>6. Even(buffer)'
    BY <1>0, <2>1, <2>3 DEF Screens, Even
  <2>7. driver' = "refresh" => Even(1 - buffer)'
    BY <1>b, <2>1, <2>2, <2>5 DEF Even
  <2>8. driver' = "copy" => row' <= Rows
    BY <1>b, <2>1, <2>2
  <2>9. \A i \in 2 .. Len(shown)' : shown'[i] = screen'[buffer' * Rows + (i - 1)]
    <3> SUFFICES ASSUME NEW i \in 2 .. Len(shown)
                 PROVE  shown[i] = screen'[buffer * Rows + (i - 1)]
      BY <2>1
    <3>1. Len(shown) \in Nat /\ Len(shown) <= Rows
      BY <1>0 DEF TypeOK
    <3>2. i - 1 \in 1 .. Rows - 1
      BY <1>b, <3>1
    <3> QED BY <1>0, <2>3, <3>2 DEF Screens
  <2> HIDE DEF new
  <2> QED BY <1>0, <2>1, <2>5, <2>6, <2>7, <2>8, <2>9 DEF Screens
<1>5. CASE Refresh
  BY <1>0, <1>5 DEF Screens, Even, Refresh, DriverStep, vgaVars
<1>6. CASE FirstRefresh \/ ClearRefresh
  BY <1>0, <1>6, GraphicConstants DEF Screens, Even, FirstRefresh, ClearRefresh, driverVars, screenVars
<1>7. CASE VSync
  BY <1>0, <1>7, <1>b DEF Screens, Even, VSync, driverVars, screenVars
<1>8. CASE ToggleBuffer
  <2>1. refreshing /\ driver = "wait" /\ shown = <<>> /\ vga' = "clear" /\ buffer' = 1 - buffer
        /\ UNCHANGED <<refreshing, screen, driver, shown>>
    BY <1>0, <1>8 DEF Screens, ToggleBuffer, driverVars
  <2>2. Even(1 - buffer)
    BY <1>0, <1>8, <2>1 DEF Screens, ToggleBuffer
  <2>3. Even(buffer)'
    BY <2>1, <2>2 DEF Even
  <2> QED BY <2>1, <2>3 DEF Screens
<1>9. CASE DrawRow
  <2>1. /\ UNCHANGED <<refreshing, buffer, screen, driver, row, picture>> /\ vga = "draw"
        /\ shown' = Append(shown, screen[buffer * Rows + Len(shown)])
        /\ vga' = IF Len(shown) = Rows - 1 THEN "vsync" ELSE "draw"
    BY <1>9 DEF DrawRow, screenVars, driverVars
  <2>2. shown \in Seq(Pictures \union {Blank, Junk}) /\ Len(shown) \in Nat /\ Len(shown) < Rows
    BY <1>0, <2>1 DEF Screens, TypeOK
  <2>3. screen[buffer * Rows + Len(shown)] \in Pictures \union {Blank, Junk}
    BY <1>0, <1>b, <2>2 DEF TypeOK
  <2>4. /\ Len(shown') = Len(shown) + 1
        /\ \A i \in 1 .. Len(shown) : shown'[i] = shown[i]
        /\ shown'[Len(shown) + 1] = screen[buffer * Rows + Len(shown)]
    BY <2>1, <2>2, <2>3, AppendProperties
  <2>5. \A i \in 2 .. Len(shown') : shown'[i] = screen[buffer * Rows + (i - 1)]
    <3> TAKE i \in 2 .. Len(shown')
    <3>1. CASE i = Len(shown) + 1
      <4>1. i - 1 = Len(shown)
        BY <2>2, <3>1
      <4> QED BY <2>4, <3>1, <4>1
    <3>2. CASE i # Len(shown) + 1
      <4>1. i \in 2 .. Len(shown) /\ i \in 1 .. Len(shown)
        BY <2>2, <2>4, <3>2
      <4> QED BY <1>0, <2>4, <4>1 DEF Screens
    <3> QED BY <3>1, <3>2
  <2>6. vga' = "draw" => Len(shown') < Rows
    BY <1>b, <2>1, <2>2, <2>4
  <2> QED BY <1>0, <2>1, <2>5, <2>6 DEF Screens, Even
<1> QED BY <1>1, <1>2, <1>3, <1>4, <1>5, <1>6, <1>7, <1>8, <1>9 DEF Next, Driver, Vga

\* The inductive invariant holds, for queues and screens of any size.
THEOREM IInvHolds == Spec => []IInv
<1>1. IInv /\ [Next]_vars => IInv'
  BY TypesStay, ExchangeStays, LoadedStays, ScreensStay DEF IInv
<1> QED BY InitHolds, <1>1, PTL DEF Spec

-----------------------------------------------------------------------------
(* What follows from it                                                    *)

\* Every variable keeps its type, for queues and screens of any size: no row of
\* a buffer is copied outside the memory of both and the row after them.
THEOREM TypeCorrect == Spec => []TypeOK
<1>1. IInv => TypeOK
  BY DEF IInv
<1> QED BY IInvHolds, <1>1, PTL

\* The client never works on a queue of the driver, and no field is torn: the
\* exchange of the queues and of the buffers (graphic_flush_recv_command_queue,
\* vga_refresh_screen) need no lock, whatever the sizes and the pictures.
THEOREM NothingDisturbed == Spec => []Undisturbed
<1>1. IInv => QueuesApart
  BY DEF IInv, Exchange, QueuesApart
<1>2. IInv => FieldsAreWhole
  <2> SUFFICES ASSUME IInv, NEW i \in 2 .. Len(shown), NEW j \in 2 .. Len(shown)
               PROVE  shown[i] = shown[j]
    BY DEF FieldsAreWhole
  <2>1. Len(shown) \in Nat /\ Len(shown) <= Rows /\ Rows \in Nat
    BY GraphicConstants DEF IInv, TypeOK
  <2>2. i - 1 \in 1 .. Rows - 1 /\ j - 1 \in 1 .. Rows - 1
    BY <2>1
  <2>3. /\ shown[i] = screen[buffer * Rows + (i - 1)]
        /\ shown[j] = screen[buffer * Rows + (j - 1)]
    BY DEF IInv, Screens
  <2> QED BY <2>2, <2>3 DEF IInv, Screens, Even
<1> QED BY IInvHolds, <1>1, <1>2, PTL DEF Undisturbed

\* A client's command comes last, and the driver takes the first.
LEMMA OneQueue == IInv /\ [Next]_vars => [Send \/ Take]_<<Sent, Executing>>
<1> SUFFICES ASSUME IInv, [Next]_vars PROVE [Send \/ Take]_<<Sent, Executing>>
  OBVIOUS
<1>0. Exchange /\ TypeOK /\ Loaded
  BY DEF IInv
<1> DEFINE r == recvQueue
           o == 1 - recvQueue
<1>a. r \in Queues /\ o \in Queues /\ o # r /\ sendQueue \in Queues /\ Queues = {r, o}
  BY <1>0 DEF TypeOK, Queues
<1>c. ASSUME driver # "init"
      PROVE  /\ Sent = Waiting(r) \o Waiting(o)
             /\ Waiting(r) \in Seq(Commands) /\ Waiting(o) \in Seq(Commands)
             /\ \A q \in Queues : /\ front[q] \in Slots /\ end[q] \in Slots
                                  /\ slot[q] \in [Slots -> Commands \union {NoCommand}]
                                  /\ Waiting(q) = Ring(slot[q], front[q], end[q])
  BY <1>0, <1>a, <1>c DEF Sent, Loaded, TypeOK, Waiting
<1>1. CASE UNCHANGED <<queues, current>> /\ driver' = driver
  BY <1>1 DEF queues, Sent, Executing, Waiting
<1>2. CASE /\ UNCHANGED <<queues, current>>
           /\ driver \notin {"init", "take"} /\ driver' \notin {"init", "take"}
  BY <1>2 DEF queues, Sent, Executing, Waiting
<1>3. CASE WriteCommand
  <2>0. driver # "init" /\ sendQueue # recvQueue
    BY <1>0, <1>3 DEF Exchange, WriteCommand
  <2>1. /\ slot'[o] = [slot[o] EXCEPT ![end[o]] = command] /\ slot'[r] = slot[r]
        /\ UNCHANGED <<front, end, recvQueue, driver, current>>
    BY <1>0, <1>3, <1>a, <2>0 DEF WriteCommand, TypeOK, driverVars
  <2>2. front[o] \in Slots /\ end[o] \in Slots /\ slot[o] \in [Slots -> Commands \union {NoCommand}]
    BY <1>a, <1>c, <2>0
  <2>3. Ring([slot[o] EXCEPT ![end[o]] = command], front[o], end[o]) = Ring(slot[o], front[o], end[o])
    BY <2>2, RingSpares
  <2>4. Waiting(o)' = Waiting(o) /\ Waiting(r)' = Waiting(r)
    BY <2>1, <2>3 DEF Waiting
  <2>5. Sent' = Sent
    BY <2>0, <2>1, <2>4 DEF Sent
  <2> QED BY <2>1, <2>5 DEF Executing
<1>4. CASE AdvanceEnd
  <2>0. driver # "init" /\ sendQueue = o
    BY <1>0, <1>4, <1>a DEF Exchange, AdvanceEnd
  <2>1. /\ end'[o] = NextSlot(end[o]) /\ end'[r] = end[r]
        /\ UNCHANGED <<front, slot, recvQueue, driver, current>>
    BY <1>0, <1>4, <1>a, <2>0 DEF AdvanceEnd, TypeOK, driverVars
  <2>2. front[o] # end[o] /\ slot[o][end[o]] \in Commands
    BY <1>0, <1>4, <2>0 DEF Loaded, AdvanceEnd
  <2> DEFINE c == slot[o][end[o]]
  <2>3. Waiting(o)' = Append(Waiting(o), c) /\ Waiting(r)' = Waiting(r)
    <3>1. Ring(slot[o], front[o], NextSlot(end[o])) = Append(Ring(slot[o], front[o], end[o]), c)
      BY <1>a, <1>c, <2>0, <2>2, RingAppends
    <3> QED BY <2>1, <3>1 DEF Waiting
  <2>4. Sent' = Waiting(r) \o Append(Waiting(o), c)
    BY <2>0, <2>1, <2>3 DEF Sent
  <2>5. Waiting(r) \o Append(Waiting(o), c) = Append(Waiting(r) \o Waiting(o), c)
    <3>1. <<c>> \in Seq(Commands) /\ Waiting(r) \in Seq(Commands) /\ Waiting(o) \in Seq(Commands)
      BY <1>c, <2>0, <2>2
    <3>2. Append(Waiting(o), c) = Waiting(o) \o <<c>>
      BY <2>2, <3>1, AppendIsConcat
    <3>3. Waiting(r) \o (Waiting(o) \o <<c>>) = (Waiting(r) \o Waiting(o)) \o <<c>>
      BY <3>1, ConcatAssociative
    <3>4. Waiting(r) \o Waiting(o) \in Seq(Commands)
      BY <3>1, ConcatProperties
    <3>5. Append(Waiting(r) \o Waiting(o), c) = (Waiting(r) \o Waiting(o)) \o <<c>>
      BY <2>2, <3>4, AppendIsConcat
    <3> QED BY <3>2, <3>3, <3>5
  <2>6. Sent' = Append(Sent, c)
    BY <1>c, <2>0, <2>4, <2>5
  <2>7. UNCHANGED Executing
    BY <2>1 DEF Executing
  <2> QED BY <2>2, <2>6, <2>7 DEF Send
<1>5. CASE InitQueue
  <2>1. /\ driver = "init" /\ driver' = "receive" /\ current' = current
        /\ \A q \in Queues : front'[q] = 0 /\ end'[q] = 1
        /\ recvQueue' = 1
    BY <1>5 DEF InitQueue, DriverStep
  <2>2. 0 \in Slots /\ 1 \in Slots /\ NextSlot(0) = 1
    BY GraphicConstants, HeldInRing DEF Slots
  <2>3. \A q \in Queues : Waiting(q)' = <<>>
    BY <2>1, <2>2, RingEmpty DEF Waiting
  <2>4. Sent' = <<>> \o <<>>
    BY <2>1, <2>3 DEF Sent, Queues
  <2>5. <<>> \o <<>> = <<>>
    BY EmptySeq, ConcatEmptySeq
  <2> QED BY <2>1, <2>4, <2>5 DEF Sent, Executing
<1>6. CASE Receive
  <2>0. driver = "receive"
    BY <1>6 DEF Receive
  <2>1. UNCHANGED <<end, slot, recvQueue, current>>
    BY <1>6 DEF Receive
  <2>2. CASE IsEmpty(r)
    <3>1. driver' = "empty" /\ front' = front
      BY <1>6, <2>2 DEF Receive
    <3> QED BY <2>0, <2>1, <3>1 DEF Sent, Executing, Waiting
  <2>3. CASE ~IsEmpty(r)
    <3>1. driver' = "take" /\ front'[r] = NextSlot(front[r]) /\ front'[o] = front[o]
      BY <1>0, <1>6, <1>a, <2>3 DEF Receive, TypeOK
    <3>2. /\ Waiting(r) # <<>> /\ Head(Waiting(r)) = slot[r][NextSlot(front[r])]
          /\ Ring(slot[r], NextSlot(front[r]), end[r]) = Tail(Waiting(r))
      <4>1. /\ front[r] \in Slots /\ end[r] \in Slots /\ NextSlot(front[r]) # end[r]
            /\ Waiting(r) = Ring(slot[r], front[r], end[r])
            /\ Ring(slot[r], front[r], end[r]) \in Seq(Commands)
        BY <1>a, <1>c, <2>0, <2>3 DEF IsEmpty
      <4> QED BY <4>1, RingTakes
    <3>3. Waiting(r)' = Tail(Waiting(r)) /\ Waiting(o)' = Waiting(o)
      BY <2>1, <3>1, <3>2 DEF Waiting
    <3>4. Sent' = Tail(Waiting(r)) \o Waiting(o)
      BY <2>1, <3>1, <3>3 DEF Sent
    <3>5. Executing' = Head(Waiting(r))
      BY <2>1, <3>1, <3>2 DEF Executing
    <3>6. Waiting(r) \in Seq(Commands) /\ Waiting(o) \in Seq(Commands)
      BY <1>c, <2>0
    <3>7. /\ Waiting(r) \o Waiting(o) # <<>>
          /\ Head(Waiting(r) \o Waiting(o)) = Head(Waiting(r))
          /\ Tail(Waiting(r) \o Waiting(o)) = Tail(Waiting(r)) \o Waiting(o)
      BY <3>2, <3>6, HeadTailConcat
    <3> QED BY <1>c, <2>0, <3>4, <3>5, <3>7 DEF Take
  <2> QED BY <2>2, <2>3
<1>7. CASE Execute
  <2>0. driver = "take" /\ driver' \in {"copy", "receive"}
    BY <1>7 DEF Execute
  <2>1. /\ slot'[r] = [slot[r] EXCEPT ![front[r]] = NoCommand] /\ slot'[o] = slot[o]
        /\ UNCHANGED <<front, end, recvQueue>> /\ current' = slot[r][front[r]]
    BY <1>0, <1>7, <1>a DEF Execute, TypeOK
  <2>2. front[r] \in Slots /\ end[r] \in Slots /\ slot[r] \in [Slots -> Commands \union {NoCommand}]
    BY <1>a, <1>c, <2>0
  <2>3. Ring([slot[r] EXCEPT ![front[r]] = NoCommand], front[r], end[r]) = Ring(slot[r], front[r], end[r])
    BY <2>2, RingSpares
  <2>4. Waiting(o)' = Waiting(o) /\ Waiting(r)' = Waiting(r)
    BY <2>1, <2>3 DEF Waiting
  <2>5. Sent' = Sent
    BY <2>0, <2>1, <2>4 DEF Sent
  <2> QED BY <2>0, <2>1, <2>5 DEF Executing
<1>8. CASE ToggleSend
  BY <1>8 DEF ToggleSend, DriverStep, Sent, Executing, Waiting
<1>9. CASE ToggleRecv
  <2>1. /\ driver = "toggle2" /\ driver' = "answer" /\ recvQueue' = o
        /\ UNCHANGED <<front, end, slot, current>>
    BY <1>9 DEF ToggleRecv, DriverStep
  <2>2. Waiting(r) = <<>>
    BY <1>0, <1>a, <1>c, <2>1, RingEmpty DEF Loaded, IsEmpty
  <2>3. 1 - o = r
    BY <1>0 DEF TypeOK, Queues
  <2>4. Sent' = Waiting(o) \o Waiting(r)
    BY <2>1, <2>3 DEF Sent, Waiting
  <2>5. Waiting(o) \o <<>> = Waiting(o) /\ <<>> \o Waiting(o) = Waiting(o)
    BY <1>c, <2>1, ConcatEmptySeq
  <2>6. Sent' = Sent
    BY <1>c, <2>1, <2>2, <2>4, <2>5
  <2> QED BY <2>1, <2>6 DEF Executing
<1> QED
  <2>1. ASSUME Client, ~WriteCommand, ~AdvanceEnd PROVE UNCHANGED <<queues, current>> /\ driver' = driver
    BY <2>1 DEF Client, BeginSend, Flush, Flushed, driverVars
  <2>2. ASSUME CheckFlush \/ Answer \/ CopyRow \/ Refresh \/ Refreshed
        PROVE  /\ UNCHANGED <<queues, current>>
               /\ driver \notin {"init", "take"} /\ driver' \notin {"init", "take"}
    BY <2>2 DEF CheckFlush, Answer, CopyRow, Refresh, Refreshed, DriverStep
  <2>3. ASSUME Vga \/ UNCHANGED vars PROVE UNCHANGED <<queues, current>> /\ driver' = driver
    BY <2>3 DEF Vga, FirstRefresh, VSync, ToggleBuffer, ClearRefresh, DrawRow, driverVars, vars
  <2> QED BY <1>1, <1>2, <1>3, <1>4, <1>5, <1>6, <1>7, <1>8, <1>9, <2>1, <2>2, <2>3
          DEF Next, Driver

\* The two queues are one, however the client's steps and the driver's fall
\* between each other and into the exchange: commands are executed one at a time,
\* each once and in the order they were sent.
THEOREM CommandsInOrder == Spec => InOrder
<1>1. Init => Sent = <<>> /\ Executing = NoCommand
  BY DEF Init, Sent, Executing
<1> QED BY IInvHolds, <1>1, OneQueue, PTL DEF Spec, InOrder
=============================================================================
