---------------------------- MODULE ScratchpadDma ----------------------------
(***************************************************************************)
(* The scratchpad of one hardware thread (l1_scratch) and what reads and   *)
(* writes it: the loader of the static bounds, the memory stage through    *)
(* the memory controller, and the transfers of the DMA coprocessor.        *)
(*                                                                         *)
(* An address and a scratchpad location count words.  The address 0 is the *)
(* NULL that the code takes for no address.                                *)
(***************************************************************************)
EXTENDS Integers

CONSTANTS
    MaxAddr,        \* bound: the main memory has the words 0 .. MaxAddr
    HalfSize,       \* SCRATCH_SIZE / 8: the words of half a scratchpad
    BurstWords,     \* the words of a transfer
    Values          \* what a word may hold

Null == 0
Addresses == 0 .. MaxAddr
Slots == 0 .. 2 * HalfSize - 1

\* The bounds files, of instructions and then of data, and the location each
\* of their lines starts from: INST_SCRATCH_START, DATA_SCRATCH_START.
ScratchStart == [inst |-> 0, data |-> HalfSize]
NextFile == [inst |-> "data", data |-> "none"]

ScratchpadConstants ==
    /\ MaxAddr \in Nat \ {0}
    /\ HalfSize \in Nat \ {0}
    /\ BurstWords \in 1 .. MaxAddr
    /\ Values # {}

VARIABLES
    main,       \* the words of the main memory
    list,       \* main_memory_address: the address in each location
    mem,        \* mem_location::mem of the scratchpad: a word for each address
    dma,        \* [state, source, target] of the thread's transfer
    loading,    \* the bounds file that is being read, at last "none"
    latest,     \* history: what the program stored last at each address
    dirty,      \* history: addresses stored to since they came to the scratchpad
    lost,       \* history: addresses whose last store is forgotten
    remapped    \* history: has an address come to a second location?

pad == <<list, mem>>
history == <<latest, dirty, lost, remapped>>
padVars == <<main, pad, dma, loading, history>>

-----------------------------------------------------------------------------
(* l1_scratch                                                              *)

IsAddrInSpm(m, a) == a # Null /\ a \in DOMAIN m

\* The words m, of which those at the addresses in kept stay, with that of main
\* memory at a.
WithWord(m, kept, a) == [b \in kept \union {a} |-> IF b = a THEN main[a] ELSE m[b]]

\* Mutant: the word that was in the location stays in the map.
AddWithoutRemoval(p, a, s) ==
    IF s \in Slots
    THEN [list |-> [p.list EXCEPT ![s] = a], mem |-> WithWord(p.mem, DOMAIN p.mem, a)]
    ELSE p

\* Mutant: the word that was in the location is removed after the new one came.
AddThenRemove(p, a, s) ==
    IF s \in Slots
    THEN [list |-> [p.list EXCEPT ![s] = a],
          mem  |-> LET m == WithWord(p.mem, DOMAIN p.mem, a)
                   IN  [b \in DOMAIN m \ {p.list[s]} |-> m[b]]]
    ELSE p

\* add_addr: the word of main memory at a comes to the location s, and the
\* address that was there leaves.  Without such a location nothing is done.
AddAddr(p, a, s) ==
    IF s \in Slots
    THEN [list |-> [p.list EXCEPT ![s] = a],
          mem  |-> WithWord(p.mem, DOMAIN p.mem \ {p.list[s]}, a)]
    ELSE p

\* Mutant: the run ends one word early.
AddRunShort(a, s, n) ==
    LET added[k \in 0 .. n] ==
            IF k = 0 THEN [list |-> list, mem |-> mem]
            ELSE IF k = n THEN added[k - 1]
            ELSE AddAddr(added[k - 1], a + k - 1, s + k - 1)
    IN  added[n]

\* A run of n addresses from a comes to the locations from s, one by one.
AddRun(a, s, n) ==
    LET added[k \in 0 .. n] ==
            IF k = 0 THEN [list |-> list, mem |-> mem]
            ELSE AddAddr(added[k - 1], a + k - 1, s + k - 1)
    IN  added[n]

Fill(a, s, n) == list' = AddRun(a, s, n).list /\ mem' = AddRun(a, s, n).mem

\* The history of a fill: stores to words that are thrown away or replaced by
\* those of main memory are lost.
FillHistory(a, s, n) ==
    LET filled  == {a + k : k \in {k \in 0 .. n - 1 : s + k \in Slots}}
        evicted == DOMAIN mem \ DOMAIN mem'
    IN  /\ lost' = lost \union (dirty \intersect (filled \union evicted))
        /\ dirty' = dirty \ (filled \union evicted)
        /\ remapped' = (remapped \/ \E k \in 0 .. n - 1 :
               s + k \in Slots /\ \E u \in Slots \ {s + k} : list[u] = a + k)
        /\ UNCHANGED latest

-----------------------------------------------------------------------------
(* static_bound_parser::load_spm                                           *)

\* A line of a bounds file, min .. max - 1.  Each line starts over from the
\* first location of the half; one that is too long fills it and ends the file.
LoadLine ==
    /\ loading # "none"
    /\ \E min, max \in Addresses :
          /\ min < max
          /\ LET n     == IF max - min <= HalfSize THEN max - min ELSE HalfSize
                 start == ScratchStart[loading]
             IN  Fill(min, start, n) /\ FillHistory(min, start, n)
          /\ loading' = IF max - min <= HalfSize THEN loading ELSE NextFile[loading]
    /\ UNCHANGED <<main, dma>>

EndOfFile ==
    /\ loading # "none"
    /\ loading' = NextFile[loading]
    /\ UNCHANGED <<main, pad, dma, history>>

-----------------------------------------------------------------------------
(* The memory stage, when the wheel does not stall it                      *)

\* read_data of the memory controller.
ReadData(a) == IF IsAddrInSpm(mem, a) THEN mem[a] ELSE main[a]

\* Mutant: a store goes to the main memory all the same.
WriteMainOnly(a, v) ==
    /\ main' = [main EXCEPT ![a] = v]
    /\ UNCHANGED mem

\* write_data of the memory controller.
WriteData(a, v) ==
    \/ /\ IsAddrInSpm(mem, a)
       /\ mem' = [mem EXCEPT ![a] = v]
       /\ UNCHANGED main
    \/ /\ ~IsAddrInSpm(mem, a)
       /\ main' = [main EXCEPT ![a] = v]
       /\ UNCHANGED mem

StoreWord ==
    /\ loading = "none"
    /\ \E a \in Addresses, v \in Values :
          /\ WriteData(a, v)
          /\ latest' = [latest EXCEPT ![a] = v]
          /\ dirty' = IF IsAddrInSpm(mem, a) THEN dirty \union {a} ELSE dirty
          /\ lost' = lost \ {a}
    /\ UNCHANGED <<list, dma, loading, remapped>>

-----------------------------------------------------------------------------
(* dma                                                                     *)

\* write_special_regs of SREG_MEM2SP: set_mem_source, set_spm_target and
\* make_transfer, whether or not a transfer is under way.
MakeTransfer ==
    /\ loading = "none"
    /\ \E source \in 0 .. MaxAddr - BurstWords + 1, target \in Slots :
          dma' = [state |-> "BUSY", source |-> source, target |-> target]
    /\ UNCHANGED <<main, pad, loading, history>>

\* dma::behavior of a transfer that the wheel answers.
Transfer ==
    /\ dma.state = "BUSY"
    /\ Fill(dma.source, dma.target, BurstWords)
    /\ FillHistory(dma.source, dma.target, BurstWords)
    /\ dma' = [dma EXCEPT !.state = "IDLE"]
    /\ UNCHANGED <<main, loading>>

-----------------------------------------------------------------------------

PadInit ==
    /\ main \in [Addresses -> Values]
    /\ list = [s \in Slots |-> Null]
    /\ mem = <<>>
    /\ dma = [state |-> "IDLE", source |-> 0, target |-> 0]
    /\ loading = "inst"
    /\ latest = main
    /\ dirty = {} /\ lost = {} /\ remapped = FALSE

PadNext == LoadLine \/ EndOfFile \/ StoreWord \/ MakeTransfer \/ Transfer

PadSpec == PadInit /\ [][PadNext]_padVars
-----------------------------------------------------------------------------
(* Properties                                                              *)

PadTypeOK ==
    /\ main \in [Addresses -> Values]
    /\ list \in [Slots -> Addresses]
    /\ DOMAIN mem \subseteq Addresses /\ \A a \in DOMAIN mem : mem[a] \in Values
    /\ dma \in [state : {"IDLE", "BUSY"}, source : Addresses, target : Slots]
    /\ loading \in {"inst", "data", "none"}
    /\ remapped \in BOOLEAN
    /\ latest \in [Addresses -> Values]
    /\ dirty \subseteq Addresses /\ lost \subseteq Addresses

\* The size of the scratchpad "is strictly enforced", as l1_scratch.h says: the
\* map holds no word that is not in one of the locations.
HeldIsListed == DOMAIN mem \subseteq {list[s] : s \in Slots}

\* A program reads what it stored last, wherever the word has been moved since;
\* only a store to the scratchpad is lost when its word is thrown out or fetched
\* again, since nothing is ever written back.
ReadsLatest == \A a \in Addresses \ lost : ReadData(a) = latest[a]

\* The list "identifies which SPM addresses correspond to which main memory
\* addresses" (l1_scratch.h): a listed word is there, unless some address has
\* been given a second location.
ListedIsHeld ==
    ~remapped => \A s \in Slots : list[s] # Null => IsAddrInSpm(mem, list[s])

ScratchpadSound == PadTypeOK /\ HeldIsListed /\ ReadsLatest /\ ListedIsHeld

\* When a transfer is complete, all its words that found a location are in the
\* scratchpad, as they are in main memory, unless one has been given a second
\* location.
TransferArrives ==
    [][dma.state = "BUSY" /\ dma'.state = "IDLE" /\ ~remapped' =>
           \A k \in 0 .. BurstWords - 1 : dma.target + k \in Slots =>
               /\ list'[dma.target + k] = dma.source + k
               /\ mem'[dma.source + k] = main[dma.source + k]]_padVars

=============================================================================
