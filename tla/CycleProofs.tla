---------------------------- MODULE CycleProofs ----------------------------
(***************************************************************************)
(* Theorems about the cycles of the core: about Pipeline, for any number   *)
(* of threads and counters that wrap anywhere, and about MemoryWheel, for  *)
(* any delays whose window meets the stages.                               *)
(***************************************************************************)
EXTENDS Pipeline, MemoryWheel, WellFoundedInduction, TLAPS

\* The thread after t in the round, and the one that was fed i cycles before
\* the controller comes to t.
After(t) == IF t = N - 1 THEN 0 ELSE t + 1
Before(t, i) == IF t >= i THEN t - i ELSE t - i + N

-----------------------------------------------------------------------------
(* The controller's index                                                  *)

\* The remainder is the one number below the divisor that leaves a multiple.
LEMMA UniqueRemainder ==
    ASSUME NEW m \in Nat \ {0}, NEW q \in Nat, NEW r \in 0 .. m - 1
    PROVE  (m * q + r) % m = r
OBVIOUS

\* Counting on moves the remainder round.
LEMMA NextRemainder ==
    ASSUME NEW c \in Nat
    PROVE  c % N \in Threads /\ (c + 1) % N = After(c % N)
<1> N \in Nat \ {0}
  BY PipelineConstants
<1>1. c % N \in 0 .. N - 1 /\ c \div N \in Nat
  OBVIOUS
<1>2. c = N * (c \div N) + (c % N)
  OBVIOUS
<1>3. CASE c % N = N - 1
  <2>1. c + 1 = N * ((c \div N) + 1) + 0
    BY <1>1, <1>2, <1>3
  <2>2. (N * ((c \div N) + 1) + 0) % N = 0
    BY <1>1, UniqueRemainder
  <2> QED BY <2>1, <2>2, <1>1, <1>3 DEF After, Threads
<1>4. CASE c % N # N - 1
  <2>1. c + 1 = N * (c \div N) + ((c % N) + 1) /\ (c % N) + 1 \in 0 .. N - 1
    BY <1>1, <1>2, <1>4
  <2>2. (c + 1) % N = (c % N) + 1
    BY <2>1, <1>1, UniqueRemainder
  <2> QED BY <2>2, <1>1, <1>4 DEF After, Threads
<1> QED BY <1>3, <1>4

\* So the index of the controller goes on by one, but where the counter wraps.
LEMMA NextIndex ==
    ASSUME NEW c \in 0 .. Wrap - 1
    PROVE  /\ (c + 1) % Wrap \in 0 .. Wrap - 1
           /\ (c + 1) % Wrap # 0 =>
                  /\ (c + 1) % Wrap = c + 1
                  /\ ((c + 1) % Wrap) % N = After(c % N)
<1> Wrap \in Nat \ {0} /\ c \in Nat
  BY PipelineConstants
<1>1. (c + 1) % N = After(c % N)
  BY NextRemainder
<1>2. CASE c + 1 < Wrap
  <2>1. (c + 1) % Wrap = c + 1
    BY <1>2
  <2> QED BY <2>1, <1>1, <1>2
<1>3. CASE c + 1 = Wrap
  <2>1. (c + 1) % Wrap = 0
    BY <1>3
  <2> QED BY <2>1
<1> QED BY <1>2, <1>3

-----------------------------------------------------------------------------
(* The invariant                                                           *)

\* The thread in the register has been fed since the counter wrapped.
FedSince(s) == wrapped => s <= tcount

\* What lets InStep last: a register holds the thread that was fed that many
\* cycles ago, and a thread in no register has finished its pass.  Of what was fed
\* before the counter wrapped nothing is said; it is a round until it has left.
Rotates ==
    ended = {} =>
        /\ \A s \in Stages : FedSince(s) /\ line[s] # Nobody =>
               /\ line[s] = Before(tcount % N, s)
               /\ s # 1 \/ Settled => phase[line[s]] = s - 1
        /\ wrapped => \A s \in Stages : s <= tcount => line[s] # Nobody
        /\ ~wrapped => \A t \in Threads : (\A s \in Stages : line[s] # t) => phase[t] = 0

Inv == TypeOK /\ Rotates

\* The first call finds the pipeline empty.
LEMMA InitInv == Init => Inv
<1> SUFFICES ASSUME Init PROVE Inv
  OBVIOUS
<1>1. TypeOK
  <2>1. /\ tcount \in 0 .. Wrap - 1 /\ count \in 0 .. Period - 1
        /\ left \in Nat /\ asked \in Nat /\ ran \in Nat
    BY PipelineConstants DEF Init
  <2>2. phase \in [Threads -> 0 .. N - 1] /\ line \in [Stages -> Threads \union {Nobody}]
    BY PipelineConstants DEF Init
  <2> QED BY <2>1, <2>2 DEF Init, TypeOK
<1>2. Rotates
  BY DEF Init, Rotates
<1> QED BY <1>1, <1>2 DEF Inv

\* As the round goes on, everyone is one place further back.
LEMMA BeforeMoves ==
    ASSUME NEW t \in Threads, NEW s \in Stages, s # N
    PROVE  Before(After(t), s + 1) = Before(t, s)
BY PipelineConstants DEF Before, After, Threads, Stages

\* The thread before is the one that was fed last, or a round ago.
LEMMA BeforeIsOne ==
    ASSUME NEW t \in Threads
    PROVE  Before(After(t), 1) = t /\ Before(t, N) = t
BY PipelineConstants DEF Before, After, Threads

\* Two places of a round are two threads.
LEMMA BeforeDiffers ==
    ASSUME NEW t \in Threads, NEW r \in Stages, NEW s \in Stages,
           Before(t, r) = Before(t, s)
    PROVE  r = s
BY PipelineConstants DEF Before, Threads, Stages

-----------------------------------------------------------------------------
(* A cycle                                                                 *)

\* No earlier register holds the thread of one that was fed since the counter
\* wrapped: the last stage to work on the thread is the one behind that register.
LEMMA WorkDone ==
    ASSUME Inv, ended = {}, Work(1)
    PROVE  /\ \A s \in Stages : FedSince(s) /\ line[s] # Nobody =>
                  phase'[line[s]] = IF s = N THEN 0 ELSE s
           /\ ~wrapped => \A t \in Threads : (\A s \in Stages : line[s] # t) => phase'[t] = 0
<1>1. tcount % N \in Threads /\ tcount \in Nat
  BY NextRemainder DEF Inv, TypeOK
<1>2. ASSUME NEW s \in Stages, FedSince(s), line[s] # Nobody
      PROVE  phase'[line[s]] = IF s = N THEN 0 ELSE s
  <2>1. line[s] \in Threads
    BY <1>2 DEF Inv, TypeOK
  <2>2. ASSUME NEW r \in WorksOn(line[s], 1)
        PROVE  s <= r
    <3>1. r \in Stages /\ line[r] = line[s] /\ r \in Nat /\ s \in Nat
      BY PipelineConstants DEF WorksOn, Stages
    <3>2. r <= s => FedSince(r)
      BY <1>1, <1>2, <3>1 DEF FedSince
    <3>3. r <= s => line[r] = Before(tcount % N, r) /\ line[s] = Before(tcount % N, s)
      BY <1>2, <3>1, <3>2 DEF Inv, Rotates
    <3>4. r <= s => r = s
      BY <1>1, <3>1, <3>3, BeforeDiffers
    <3> QED BY <3>1, <3>4
  <2>3. s \in WorksOn(line[s], 1) /\ WorksOn(line[s], 1) \subseteq Nat
    BY PipelineConstants DEF WorksOn, Stages
  <2>4. LastStage(line[s], 1) = s
    <3>1. \A r \in WorksOn(line[s], 1) : (\A q \in WorksOn(line[s], 1) : r <= q) => r = s
      BY <2>2, <2>3
    <3> QED BY <2>2, <2>3, <3>1 DEF LastStage
  <2> QED BY <2>1, <2>3, <2>4 DEF Work
<1>3. ASSUME NEW t \in Threads, ~wrapped, \A s \in Stages : line[s] # t
      PROVE  phase'[t] = 0
  <2>1. WorksOn(t, 1) = {}
    BY <1>3 DEF WorksOn, Stages
  <2> QED BY <2>1, <1>3 DEF Work, Inv, Rotates
<1> QED BY <1>2, <1>3

\* A set of numbers has a least one.
LEMMA LeastNumber ==
    ASSUME NEW S \in SUBSET Nat, S # {}
    PROVE  \E s \in S : \A r \in S : s <= r
<1>1. PICK s \in S : \A r \in S : <<r, s>> \notin OpToRel(<, Nat)
  BY NatLessThanWellFounded, WFMin
<1>2. \A r \in S : ~(r < s)
  BY <1>1 DEF OpToRel
<1> QED BY <1>2

\* The typing of a stage's work.
LEMMA WorkTyped ==
    ASSUME NEW first \in Stages, TypeOK, Work(first)
    PROVE  phase' \in [Threads -> 0 .. N - 1]
<1>1. ASSUME NEW t \in Threads, WorksOn(t, first) # {}
      PROVE  LastStage(t, first) \in Stages
  <2>1. WorksOn(t, first) \subseteq Stages /\ Stages \subseteq Nat
    BY PipelineConstants DEF WorksOn, Stages
  <2>2. \E s \in WorksOn(t, first) : \A r \in WorksOn(t, first) : s <= r
    BY <1>1, <2>1, LeastNumber
  <2> QED BY <2>1, <2>2 DEF LastStage
<1> QED BY <1>1, PipelineConstants DEF Work, TypeOK, Stages

\* What the controller feeds is a thread or nobody.
LEMMA FeedTyped ==
    ASSUME TypeOK, Feed
    PROVE  /\ tcount' \in 0 .. Wrap - 1 /\ wrapped' \in BOOLEAN
           /\ line' \in [Stages -> Threads \union {Nobody}]
<1>1. tcount % N \in Threads
  BY NextRemainder DEF TypeOK
<1>2. ASSUME NEW s \in Stages, s # 1
      PROVE  line[s - 1] \in Threads \union {Nobody}
  BY <1>2, PipelineConstants DEF TypeOK, Stages
<1> QED BY <1>1, <1>2, NextIndex DEF Feed, TypeOK

\* The controller feeds the thread that has just left the last register, or one
\* that is still to begin; or the counter wraps, and the round begins anew.
LEMMA CycleRotates ==
    ASSUME Inv, ended = {}, Cycle
    PROVE  Rotates'
<1> DEFINE t0 == tcount % N
<1>1. t0 \in Threads /\ ended' = {} /\ tcount \in Nat /\ N \in Nat
  <2>1. tcount \in Nat /\ N \in Nat
    BY PipelineConstants DEF Inv, TypeOK
  <2>2. t0 \in Threads
    BY <2>1, NextRemainder
  <2> QED BY <2>1, <2>2 DEF Cycle
<1>2. CASE tcount' = 0
  <2>1. wrapped' = TRUE
    BY <1>2 DEF Cycle, Feed
  <2>2. \A s \in Stages : ~(s <= 0)
    BY PipelineConstants DEF Stages
  <2> QED BY <1>2, <2>1, <2>2 DEF Rotates, FedSince
<1>3. CASE tcount' # 0
  <2>1. tcount' = tcount + 1 /\ tcount' % N = After(t0) /\ wrapped' = wrapped
    BY <1>3, NextIndex DEF Inv, TypeOK, Cycle, Feed
  <2>2. \A s \in Stages : line'[s] = IF s = 1 THEN t0 ELSE line[s - 1]
    BY DEF Cycle, Feed
  <2>3. /\ \A s \in Stages : FedSince(s) /\ line[s] # Nobody =>
               phase'[line[s]] = IF s = N THEN 0 ELSE s
        /\ ~wrapped => \A t \in Threads : (\A s \in Stages : line[s] # t) => phase'[t] = 0
    BY WorkDone DEF Cycle
  <2>4. \A s \in Stages : s # 1 => s - 1 \in Stages /\ s - 1 # N /\ (s - 1) + 1 = s
    BY PipelineConstants DEF Stages
  <2>5. N \in Stages /\ 1 \in Stages /\ \A s \in Stages : s \in Nat /\ s <= N
    BY PipelineConstants DEF Stages
  <2>6. ASSUME Settled'
        PROVE  phase'[t0] = 0
    <3>1. wrapped => tcount >= N
      BY <1>1, <2>1, <2>6 DEF Settled
    <3>2. \A s \in Stages : FedSince(s)
      BY <1>1, <2>5, <3>1 DEF FedSince
    <3>3. ASSUME NEW s \in Stages, line[s] = t0
          PROVE  s = N
      <4>1. line[s] # Nobody
        BY <1>1, <3>3, PipelineConstants DEF Threads
      <4>2. Before(t0, s) = Before(t0, N)
        BY <1>1, <3>2, <3>3, <4>1, BeforeIsOne DEF Inv, Rotates
      <4> QED BY <1>1, <2>5, <4>2, BeforeDiffers
    <3>4. wrapped => line[N] = t0
      <4>1. wrapped => line[N] # Nobody
        BY <1>1, <2>5, <3>1 DEF Inv, Rotates
      <4> QED BY <1>1, <2>5, <3>2, <4>1, BeforeIsOne DEF Inv, Rotates
    <3>5. line[N] = t0 => phase'[t0] = 0
      BY <1>1, <2>3, <2>5, <3>2, PipelineConstants DEF Threads
    <3>6. line[N] # t0 => phase'[t0] = 0
      BY <1>1, <2>3, <3>3, <3>4
    <3> QED BY <3>5, <3>6
  <2>7. ASSUME NEW s \in Stages, FedSince(s)', line'[s] # Nobody
        PROVE  /\ line'[s] = Before(tcount' % N, s)
               /\ s # 1 \/ Settled' => phase'[line'[s]] = s - 1
    <3>1. CASE s = 1
      BY <1>1, <2>1, <2>2, <2>6, <3>1, BeforeIsOne
    <3>2. CASE s # 1
      <4>1. FedSince(s - 1)
        BY <1>1, <2>1, <2>5, <2>7 DEF FedSince
      <4>2. line'[s] = line[s - 1] /\ line[s - 1] = Before(t0, s - 1)
        BY <2>2, <2>4, <2>7, <3>2, <4>1 DEF Inv, Rotates
      <4>3. Before(After(t0), s) = Before(t0, s - 1)
        BY <1>1, <2>4, <3>2, BeforeMoves
      <4> QED BY <2>1, <2>3, <2>4, <2>7, <3>2, <4>1, <4>2, <4>3
    <3> QED BY <3>1, <3>2
  <2>8. ASSUME wrapped', NEW s \in Stages, s <= tcount'
        PROVE  line'[s] # Nobody
    <3>1. CASE s = 1
      BY <1>1, <2>2, <3>1, PipelineConstants DEF Threads
    <3>2. CASE s # 1
      <4>1. wrapped /\ s - 1 \in Stages /\ s - 1 <= tcount
        BY <1>1, <2>1, <2>4, <2>5, <2>8, <3>2
      <4> QED BY <2>2, <3>2, <4>1 DEF Inv, Rotates
    <3> QED BY <3>1, <3>2
  <2>9. ASSUME ~wrapped', NEW t \in Threads, \A s \in Stages : line'[s] # t
        PROVE  phase'[t] = 0
    <3>1. ASSUME NEW s \in Stages, s # N
          PROVE  line[s] # t
      <4>1. s + 1 \in Stages /\ s + 1 # 1 /\ (s + 1) - 1 = s
        BY <3>1, PipelineConstants DEF Stages
      <4> QED BY <2>2, <2>9, <4>1
    <3>2. ~wrapped /\ FedSince(N)
      BY <2>1, <2>9 DEF FedSince
    <3>3. CASE line[N] = t
      BY <2>3, <2>5, <3>2, <3>3, PipelineConstants DEF Threads
    <3>4. CASE line[N] # t
      BY <2>3, <3>1, <3>2, <3>4
    <3> QED BY <3>3, <3>4
  <2> QED BY <1>1, <2>7, <2>8, <2>9 DEF Rotates
<1> QED BY <1>2, <1>3

\* A call of the debugger leaves the pipeline alone.
LEMMA CallTyped ==
    ASSUME Inv, NEW n \in Nat, NEW k \in Nat, left' = n, asked' = k, ran' = 0,
           mode' \in {"cycles", "steps"}, result' = TRUE,
           UNCHANGED <<machine, count>>
    PROVE  Inv'
BY DEF Inv, TypeOK, Rotates, FedSince, Settled, machine

\* Every step keeps the invariant.
LEMMA NextInv ==
    ASSUME Inv, [Next]_vars
    PROVE  Inv'
<1> USE DEF Inv
<1>0. Period \in Nat \ {0} /\ Calls \subseteq Nat /\ Steps \subseteq Nat
  BY PipelineConstants
<1>1. CASE UNCHANGED vars
  BY <1>1 DEF TypeOK, Rotates, FedSince, Settled, vars, machine
<1>2. ASSUME NEW ticks \in Calls, Run(ticks)
      PROVE  Inv'
  BY <1>0, <1>2, CallTyped DEF Run
<1>3. ASSUME NEW n \in Steps, RunForInstruction(n)
      PROVE  Inv'
  <2>1. n * Period \in Nat
    BY <1>0, <1>3
  <2> QED BY <1>0, <1>3, <2>1, CallTyped DEF RunForInstruction
<1>4. ASSUME Turn PROVE Inv'
  <2>1. /\ left' \in Nat /\ count' \in 0 .. Period - 1
        /\ result' \in BOOLEAN /\ mode' \in {"cycles", "steps"} /\ asked' \in Nat
    BY <1>0, <1>4 DEF Turn, Tick, TypeOK
  <2>2. CASE Cycle /\ ran' = ran + 1
    <3>1. phase' \in [Threads -> 0 .. N - 1]
      BY <2>2, WorkTyped, PipelineConstants DEF Cycle, Stages
    <3>2. TypeOK'
      BY <2>1, <2>2, <3>1, FeedTyped DEF Cycle, TypeOK
    <3>3. Rotates'
      BY <2>2, CycleRotates DEF Cycle, Rotates
    <3> QED BY <3>2, <3>3
  <2>3. CASE UNCHANGED <<machine, ran>>
    BY <2>1, <2>3 DEF TypeOK, Rotates, FedSince, Settled, machine
  <2> QED BY <1>4, <2>2, <2>3 DEF Turn
<1>5. ASSUME Halt PROVE Inv'
  <2>1. phase' \in [Threads -> 0 .. N - 1]
    BY <1>5, WorkTyped, PipelineConstants DEF Halt, EndCycle, Stages
  <2>2. line' \in [Stages -> Threads \union {Nobody}]
    <3>1. ASSUME NEW s \in Stages, ~(s <= 2)
          PROVE  s - 1 \in Stages
      BY <3>1, PipelineConstants DEF Stages
    <3> QED BY <1>5, <3>1 DEF Halt, EndCycle, TypeOK
  <2>3. line[1] \in Threads
    BY <1>5, PipelineConstants DEF Halt, EndCycle, TypeOK, Stages
  <2>4. ended' \subseteq Threads /\ ended' # {}
    BY <1>5, <2>3 DEF Halt, EndCycle, TypeOK
  <2>5. /\ count' \in 0 .. Period - 1 /\ left' \in Nat
        /\ UNCHANGED <<tcount, wrapped>> /\ result' = FALSE /\ UNCHANGED <<mode, asked, ran>>
    BY <1>0, <1>5 DEF Halt, EndCycle
  <2>6. TypeOK'
    BY <2>1, <2>2, <2>4, <2>5 DEF TypeOK
  <2> QED BY <2>4, <2>6 DEF Rotates
<1> QED BY <1>1, <1>2, <1>3, <1>4, <1>5 DEF Next

-----------------------------------------------------------------------------
(* Theorems                                                                *)

\* The registers, counters and histories have their types.
THEOREM TypeCorrect == Spec => []TypeOK
<1>1. Inv /\ [Next]_vars => Inv'
  BY NextInv
<1>2. Inv => TypeOK
  BY DEF Inv
<1> QED BY <1>1, <1>2, InitInv, PTL DEF Spec

\* For any number of threads and any width of the counters: until the simulation
\* ends, the stage that a thread comes to is the one after the stage that it has
\* left, but for a round where the counter wraps.
THEOREM StagesInStep == Spec => []InStep
<1>1. Inv /\ [Next]_vars => Inv'
  BY NextInv
<1>2. ASSUME Inv PROVE InStep
  <2>1. tcount \in Nat /\ N \in Nat /\ \A s \in Stages : s \in Nat /\ s <= N
    BY <1>2, PipelineConstants DEF Inv, TypeOK, Stages
  <2>2. Settled => \A s \in Stages : FedSince(s)
    BY <2>1 DEF Settled, FedSince
  <2> QED BY <1>2, <2>2 DEF Inv, Rotates, InStep
<1> QED BY <1>1, <1>2, InitInv, PTL DEF Spec

\* For any number of threads: the thread that the debugger shows is the one that
\* is about to leave the pipeline, but for a round where the counter wraps.
THEOREM DebuggerShowsLeaving == Spec => []ShownIsLeaving
<1>1. Inv /\ [Next]_vars => Inv'
  BY NextInv
<1>2. ASSUME Inv PROVE ShownIsLeaving
  <2>1. tcount % N \in Threads
    BY <1>2, NextRemainder DEF Inv, TypeOK
  <2>2. N \in Stages /\ Before(tcount % N, N) = tcount % N
    BY <2>1, BeforeIsOne, PipelineConstants DEF Stages
  <2>3. Settled => FedSince(N)
    BY <1>2, PipelineConstants DEF Inv, TypeOK, Settled, FedSince
  <2> QED BY <1>2, <2>2, <2>3 DEF Inv, Rotates, ShownIsLeaving
<1> QED BY <1>1, <1>2, InitInv, PTL DEF Spec

-----------------------------------------------------------------------------
(* The calls                                                               *)

\* What a call of run_for_instruction has done, in ticks, and what it has left
\* make up what it was asked for, but for where it found the clock; and the
\* thread that ended the simulation waits at the fetch stage for good.
Counted == ran * Period + count + left - asked * Period
Owes == mode = "steps" /\ ended = {} => Counted \in 0 .. Period - 1
Holds == ended # {} => line[1] \in ended
CallInv == Inv /\ Owes /\ Holds

LEMMA InitCalls == Init => CallInv
<1> SUFFICES ASSUME Init PROVE CallInv
  OBVIOUS
<1>1. Inv
  BY InitInv
<1>2. ran = 0 /\ count = 0 /\ left = 0 /\ asked = 0 /\ ended = {} /\ Period \in Nat \ {0}
  BY PipelineConstants DEF Init
<1>3. Counted = 0
  BY <1>2 DEF Counted
<1> QED BY <1>1, <1>2, <1>3 DEF CallInv, Owes, Holds

\* A whole number of periods, less than one: none.
LEMMA WholePeriods ==
    ASSUME NEW p \in Nat \ {0}, NEW a \in Nat, NEW b \in Nat, NEW c \in 0 .. p - 1,
           b * p + c + 0 - a * p \in 0 .. p - 1
    PROVE  a = b
<1>1. ASSUME NEW x \in Nat, NEW y \in Nat, x < y
      PROVE  y * p - x * p >= p
  <2>1. PICK d \in Nat \ {0} : y = x + d
    <3>1. y - x \in Nat \ {0} /\ y = x + (y - x)
      BY <1>1
    <3> QED BY <3>1
  <2>2. y * p = x * p + d * p /\ d * p >= p
    <3>1. (x + d) * p = x * p + d * p
      OBVIOUS
    <3>2. d * p = p + (d - 1) * p /\ (d - 1) * p >= 0
      OBVIOUS
    <3> QED BY <2>1, <3>1, <3>2
  <2>3. x * p \in Int /\ d * p \in Int
    OBVIOUS
  <2> QED BY <2>2, <2>3
<1>2. a * p \in Int /\ b * p \in Int
  OBVIOUS
<1> QED BY <1>1, <1>2

\* A tick is taken from what is left, and goes to the clock or to a cycle.
LEMMA TurnOwes ==
    ASSUME CallInv, Turn
    PROVE  CallInv'
<1>1. Inv'
  BY NextInv DEF CallInv, Next
<1>2. ended' = ended /\ mode' = mode /\ asked' = asked
  BY DEF Turn, Cycle, machine
<1>3. line[1] \notin ended \/ line'[1] = line[1]
  BY DEF Turn, Cycle, machine
<1>4. Holds'
  BY <1>2, <1>3 DEF CallInv, Holds, Turn, Cycle, machine
<1>5. Counted' = Counted
  <2>1. /\ Period \in Nat \ {0} /\ count \in 0 .. Period - 1 /\ left \in Nat
        /\ asked \in Nat /\ ran \in Nat /\ left' = left - 1
        /\ count' = (count + 1) % Period
    BY PipelineConstants DEF CallInv, Inv, TypeOK, Turn, Tick
  <2>2. asked * Period \in Int /\ ran * Period \in Int
    BY <2>1
  <2>3. CASE count + 1 = Period
    <3>1. count' = 0 /\ ran' = ran + 1
      BY <2>1, <2>3 DEF Turn
    <3>2. (ran + 1) * Period = ran * Period + Period
      BY <2>1
    <3> QED BY <1>2, <2>1, <2>2, <2>3, <3>1, <3>2 DEF Counted
  <2>4. CASE count + 1 # Period
    <3>1. count' = count + 1 /\ count' # 0
      BY <2>1, <2>4
    <3>2. ran' = ran
      BY <3>1 DEF Turn
    <3> QED BY <1>2, <2>1, <2>2, <3>1, <3>2 DEF Counted
  <2> QED BY <2>3, <2>4
<1> QED BY <1>1, <1>2, <1>4, <1>5, PipelineConstants DEF CallInv, Owes

LEMMA NextCalls ==
    ASSUME CallInv, [Next]_vars
    PROVE  CallInv'
<1>0. Inv'
  BY NextInv DEF CallInv
<1>1. CASE UNCHANGED vars
  BY <1>0, <1>1 DEF CallInv, Owes, Holds, Counted, vars, machine
<1>2. ASSUME NEW ticks \in Calls, Run(ticks)
      PROVE  CallInv'
  BY <1>0, <1>2 DEF CallInv, Owes, Holds, Run, machine
<1>3. ASSUME NEW n \in Steps, RunForInstruction(n)
      PROVE  CallInv'
  <2>1. Period \in Nat \ {0} /\ n \in Nat /\ count \in 0 .. Period - 1
    BY PipelineConstants DEF CallInv, Inv, TypeOK
  <2>2. ran' = 0 /\ count' = count /\ left' = n * Period /\ asked' = n
    BY <1>3 DEF RunForInstruction
  <2>3. n * Period \in Int /\ 0 * Period = 0
    BY <2>1
  <2>4. Counted' = count
    BY <2>1, <2>2, <2>3 DEF Counted
  <2>5. Period' = Period
    OBVIOUS
  <2>6. Owes'
    BY <2>1, <2>4, <2>5 DEF Owes
  <2> QED BY <1>0, <1>3, <2>6 DEF CallInv, Holds, RunForInstruction, machine
<1>4. CASE Turn
  BY <1>4, TurnOwes
<1>5. ASSUME Halt PROVE CallInv'
  <2>1. 1 \in Stages
    BY PipelineConstants DEF Stages
  <2>2. line'[1] = line[1] /\ ended' = ended \union {line[1]}
    BY <1>5, <2>1 DEF Halt, EndCycle
  <2> QED BY <1>0, <2>2 DEF CallInv, Owes, Holds
<1> QED BY <1>1, <1>2, <1>3, <1>4, <1>5 DEF Next

\* For any number of threads, period and calls: run_for_instruction runs the
\* cycles that it was asked for, and nothing is fed after the end of a program.
THEOREM CallsKept == Spec => CallsAreKept
<1>1. CallInv /\ [Next]_vars => CallInv'
  BY NextCalls
<1>2. ASSUME CallInv, CallInv', [Next]_vars, left' = 0, ended' = {}, mode' = "steps"
      PROVE  ran' = asked'
  <2>1. Period \in Nat \ {0} /\ asked' \in Nat /\ ran' \in Nat /\ count' \in 0 .. Period - 1
    BY <1>2, PipelineConstants DEF CallInv, Inv, TypeOK
  <2>2. ran' * Period + count' + 0 - asked' * Period \in 0 .. Period - 1
    BY <1>2 DEF CallInv, Owes, Counted
  <2> HIDE <1>2
  <2> QED BY <2>1, <2>2, WholePeriods
<1>3. ASSUME CallInv, [Next]_vars, ended # {}
      PROVE  line'[1] = line[1] /\ tcount' = tcount
  <2>1. line[1] \in ended /\ 1 \in Stages
    BY <1>3, PipelineConstants DEF CallInv, Holds, Stages
  <2> QED BY <1>3, <2>1 DEF Next, Run, RunForInstruction, Turn, Halt, Cycle, EndCycle,
                            vars, machine
<1>4. Spec => EndIsFinal
  BY <1>1, <1>3, InitCalls, PTL DEF Spec, EndIsFinal
<1>5. Spec => StepsAreCycles
  BY <1>1, <1>2, InitCalls, PTL DEF Spec, StepsAreCycles
<1> QED BY <1>4, <1>5 DEF CallsAreKept

-----------------------------------------------------------------------------
(* The wheel: remainders                                                   *)

\* The one quotient and the one remainder.
LEMMA Quotient ==
    ASSUME NEW m \in Nat \ {0}, NEW q \in Nat, NEW r \in 0 .. m - 1
    PROVE  (m * q + r) % m = r /\ (m * q + r) \div m = q
OBVIOUS

\* What they make up.
LEMMA Division ==
    ASSUME NEW c \in Nat, NEW m \in Nat \ {0}
    PROVE  c = m * (c \div m) + (c % m) /\ c % m \in 0 .. m - 1 /\ c \div m \in Nat
OBVIOUS

\* Multiples leave nothing.
LEMMA Multiple ==
    ASSUME NEW m \in Nat \ {0}, NEW q \in Nat, NEW b \in Nat
    PROVE  (m * q + b) % m = b % m
<1>1. b = m * (b \div m) + (b % m) /\ b % m \in 0 .. m - 1 /\ b \div m \in Nat
  BY Division
<1>2. PICK d \in Nat, r \in 0 .. m - 1 : d = b \div m /\ r = b % m /\ b = m * d + r
  BY <1>1
<1>3. m * q + b = m * (q + d) + r
  BY <1>2
<1>4. q + d \in Nat
  BY <1>2
<1>5. (m * (q + d) + r) % m = r
  BY <1>4, Quotient
<1> QED BY <1>2, <1>3, <1>5

\* Less than two rounds.
LEMMA TwoRounds ==
    ASSUME NEW m \in Nat \ {0}, NEW x \in 0 .. 2 * m - 1
    PROVE  x % m = IF x < m THEN x ELSE x - m
<1>1. CASE x < m
  <2>1. (m * 0 + x) % m = x
    BY <1>1, Quotient
  <2> QED BY <1>1, <2>1
<1>2. CASE x >= m
  <2>1. (m * 1 + (x - m)) % m = x - m
    BY <1>2, Quotient
  <2> QED BY <1>2, <2>1
<1> QED BY <1>1, <1>2

\* A product of positive numbers is no less than each of them.
LEMMA AtLeastOnce ==
    ASSUME NEW m \in Nat, NEW q \in Nat \ {0}
    PROVE  m * q >= m
<1>1. PICK d \in Nat : q = d + 1
  <2>1. q - 1 \in Nat /\ q = (q - 1) + 1
    OBVIOUS
  <2> QED BY <2>1
<1>2. m * (d + 1) = m * d + m /\ m * d >= 0
  OBVIOUS
<1> QED BY <1>1, <1>2

\* Two numbers with one remainder are at least one round apart.
LEMMA RoundApart ==
    ASSUME NEW m \in Nat \ {0}, NEW a \in Nat, NEW b \in Nat, a < b, a % m = b % m
    PROVE  b - a >= m
<1>1. PICK x \in Nat, r \in 0 .. m - 1 : a = m * x + r /\ r = a % m
  BY Division
<1>2. PICK y \in Nat, s \in 0 .. m - 1 : b = m * y + s /\ s = b % m
  BY Division
<1>3. b - a = m * (y - x)
  BY <1>1, <1>2
<1>4. y > x
  <2>1. CASE y <= x
    <3>1. PICK d \in Nat : x = y + d
      <4>1. x - y \in Nat /\ x = y + (x - y)
        BY <2>1
      <4> QED BY <4>1
    <3>2. m * (y + d) = m * y + m * d /\ m * d >= 0
      OBVIOUS
    <3> QED BY <1>1, <1>2, <3>1, <3>2
  <2> QED BY <2>1
<1>5. y - x \in Nat \ {0}
  BY <1>4
<1>6. m * (y - x) >= m
  BY <1>5, AtLeastOnce
<1> QED BY <1>3, <1>6

-----------------------------------------------------------------------------
(* The wheel: where its windows are                                        *)

Cycles == 0 .. Rotation - 1

\* The window before that of the next thread.
WindowOf(t) == IF t = 0 THEN NumThreads - 1 ELSE t - 1

\* Windows are a multiple of the threads' round and one cycle.
LEMMA WindowLength ==
    /\ NumThreads \in Nat \ {0} /\ NumThreads >= 6
    /\ \E q \in Nat \ {0} : Window = NumThreads * q + 1 /\ Latency <= NumThreads * q
                            /\ NumThreads * q <= Latency + NumThreads - 1
    /\ Window \in Nat \ {0} /\ Rotation \in Nat \ {0} /\ Rotation = NumThreads * Window
    /\ Window > NumThreads
<1> DEFINE n == NumThreads
<1>1. n \in Nat \ {0} /\ n >= 6 /\ Latency \in Nat \ {0}
  BY WheelConstants
<1> DEFINE x == Latency + n - 1
           q == x \div n
<1>2. x \in Nat /\ x = n * q + (x % n) /\ x % n \in 0 .. n - 1 /\ q \in Nat
  <2>1. x \in Nat
    BY <1>1
  <2> QED BY <1>1, <2>1, Division
<1>3. Window = n * q + 1
  BY <1>1, <1>2 DEF Window, RoundUp
<1> HIDE DEF q
<1>4. Latency <= n * q /\ n * q <= Latency + n - 1
  BY <1>1, <1>2
<1>5. q # 0
  BY <1>1, <1>4
<1>6. q \in Nat \ {0} /\ n * q >= n
  <2>1. q \in Nat \ {0}
    BY <1>2, <1>5
  <2> QED BY <1>1, <2>1, AtLeastOnce
<1>7. Window \in Nat \ {0} /\ Window > n
  BY <1>1, <1>3, <1>6
<1>8. Rotation = n * Window /\ Rotation \in Nat /\ n * Window >= n
  BY <1>1, <1>7, AtLeastOnce DEF Rotation
<1> QED BY <1>1, <1>3, <1>4, <1>6, <1>7, <1>8

\* A cycle is k cycles into window w, and the thread that is fed is w + k on.
LEMMA WhereInWheel ==
    ASSUME NEW c \in Cycles
    PROVE  /\ c \div Window \in 0 .. NumThreads - 1
           /\ c % Window \in 0 .. Window - 1
           /\ c = Window * (c \div Window) + (c % Window)
           /\ c % NumThreads = ((c \div Window) + (c % Window)) % NumThreads
<1> DEFINE n == NumThreads
           w == c \div Window
           k == c % Window
<1>1. PICK q \in Nat \ {0} : Window = n * q + 1
  BY WindowLength
<1>2. n \in Nat \ {0} /\ Window \in Nat \ {0} /\ Rotation = n * Window /\ c \in Nat /\ c < n * Window
  BY WindowLength DEF Cycles
<1>3. c = Window * w + k /\ k \in 0 .. Window - 1 /\ w \in Nat
  BY <1>2, Division
<1> HIDE DEF w, k
<1>4. w < n
  <2>1. CASE w >= n
    <3>1. PICK d \in Nat : w = n + d
      <4>1. w - n \in Nat /\ w = n + (w - n)
        BY <1>2, <1>3, <2>1
      <4> QED BY <4>1
    <3>2. \A m, x, y \in Nat : m * (x + y) = x * m + m * y /\ m * y \in Nat
      OBVIOUS
    <3>3. Window * w = n * Window + Window * d /\ Window * d \in Nat
      BY <1>2, <3>1, <3>2
    <3> DEFINE p == n * Window
               r == Window * d
    <3>4. p \in Nat /\ r \in Nat /\ c = p + r + k /\ c < p
      BY <1>2, <1>3, <3>3
    <3> HIDE DEF p, r
    <3> QED BY <1>2, <1>3, <3>4
  <2> QED BY <1>2, <1>3, <2>1
<1>5. c = n * (q * w) + (w + k) /\ q * w \in Nat /\ w + k \in Nat
  <2>1. Window * w = n * (q * w) + w
    BY <1>1, <1>2, <1>3
  <2>2. q * w \in Nat /\ w + k \in Nat /\ k \in Nat
    BY <1>1, <1>2, <1>3
  <2> DEFINE p == n * (q * w)
  <2>3. p \in Nat /\ c = (p + w) + k
    BY <1>2, <1>3, <2>1, <2>2
  <2> HIDE DEF p
  <2>4. c = p + (w + k)
    BY <1>3, <2>2, <2>3
  <2> QED BY <2>2, <2>4 DEF p
<1>6. c % n = (w + k) % n
  <2> DEFINE u == q * w
             v == w + k
  <2>1. u \in Nat /\ v \in Nat /\ c = n * u + v
    BY <1>5
  <2> HIDE DEF u, v
  <2>2. c % n = v % n
    BY <1>2, <2>1, Multiple
  <2> QED BY <2>2 DEF v
<1> QED BY <1>2, <1>3, <1>4, <1>6 DEF w, k

\* The cycle k of the window of thread t.
LEMMA InWindow ==
    ASSUME NEW t \in 0 .. NumThreads - 1, NEW k \in 0 .. NumThreads
    PROVE  /\ FirstCycle(t) + k \in Cycles
           /\ (FirstCycle(t) + k) \div Window = WindowOf(t)
           /\ (FirstCycle(t) + k) % Window = k
<1> DEFINE n == NumThreads
           w == WindowOf(t)
<1>1. n \in Nat \ {0} /\ Window \in Nat \ {0} /\ Rotation = n * Window /\ Window > n /\ k \in 0 .. Window - 1
  BY WindowLength
<1>2. w \in 0 .. n - 1 /\ (t - 1) % n = w
  <2>1. CASE t = 0
    <3>1. (t - 1) % n = n - 1
      BY <1>1, <2>1
    <3> QED BY <1>1, <2>1, <3>1 DEF WindowOf
  <2>2. CASE t # 0
    <3>1. PICK x \in 0 .. n - 1 : x = t - 1
      BY <1>1, <2>2
    <3>2. x % n = x
      BY <1>1, TwoRounds
    <3> QED BY <2>2, <3>1, <3>2 DEF WindowOf
  <2> QED BY <2>1, <2>2
<1> HIDE DEF w
<1>3. FirstCycle(t) + k = Window * w + k
  BY <1>1, <1>2 DEF FirstCycle
<1>4. (Window * w + k) % Window = k /\ (Window * w + k) \div Window = w
  BY <1>1, <1>2, Quotient
<1>5. Window * w + k \in 0 .. n * Window - 1
  <2>1. PICK d \in Nat : n = w + 1 + d
    <3>1. n - w - 1 \in Nat /\ n = w + 1 + (n - w - 1)
      BY <1>1, <1>2
    <3> QED BY <3>1
  <2>2. (w + 1 + d) * Window = Window * w + Window + d * Window /\ d * Window >= 0 /\ Window * w >= 0
    BY <1>1, <1>2, <2>1
  <2> QED BY <1>1, <1>2, <2>1, <2>2
<1> QED BY <1>1, <1>3, <1>4, <1>5 DEF Cycles, w

\* What has one remainder has it still a step later.
LEMMA LaterRemainder ==
    ASSUME NEW m \in Nat \ {0}, NEW a \in Nat, NEW b \in Nat, a % m = b % m, NEW d \in Nat
    PROVE  (a + d) % m = (b + d) % m
<1>1. PICK x \in Nat, r \in 0 .. m - 1 : a = m * x + r /\ r = a % m
  BY Division
<1>2. PICK y \in Nat, s \in 0 .. m - 1 : b = m * y + s /\ s = b % m
  BY Division
<1>3. a + d = m * x + (r + d) /\ b + d = m * y + (r + d) /\ r + d \in Nat
  BY <1>1, <1>2
<1>4. (m * x + (r + d)) % m = (r + d) % m /\ (m * y + (r + d)) % m = (r + d) % m
  BY <1>3, Multiple
<1> QED BY <1>3, <1>4

\* Two numbers of one round with one remainder are one.
LEMMA SameRound ==
    ASSUME NEW m \in Nat \ {0}, NEW a \in Nat, NEW b \in Nat, a % m = b % m, a - b < m, b - a < m
    PROVE  a = b
<1>1. CASE a < b
  <2>1. b - a >= m
    BY <1>1, RoundApart
  <2> QED BY <2>1
<1>2. CASE b < a
  <2>1. a - b >= m
    BY <1>2, RoundApart
  <2> QED BY <2>1
<1> QED BY <1>1, <1>2

\* The thread whose window it is.
LEMMA ThreadOfWindow ==
    ASSUME NEW t \in 0 .. NumThreads - 1, NEW w \in 0 .. NumThreads - 1
    PROVE  t = (1 + w) % NumThreads <=> w = WindowOf(t)
<1>1. NumThreads \in Nat \ {0} /\ NumThreads >= 6
  BY WindowLength
<1>2. (1 + w) % NumThreads = IF 1 + w < NumThreads THEN 1 + w ELSE 1 + w - NumThreads
  <2>1. PICK x \in 0 .. 2 * NumThreads - 1 : x = 1 + w
    BY <1>1
  <2>2. x % NumThreads = IF x < NumThreads THEN x ELSE x - NumThreads
    BY <1>1, TwoRounds
  <2> QED BY <1>1, <2>1, <2>2
<1> QED BY <1>1, <1>2 DEF WindowOf

\* How long a window is open, by the cycles a single access does not take.
LEMMA OpenCycles ==
    /\ GetDelay(1) = Latency
    /\ Window - Latency \in 1 .. NumThreads
<1>1. NumThreads \in Nat \ {0} /\ Latency \in Nat \ {0}
  BY WheelConstants
<1>2. PICK q \in Nat \ {0} : Window = NumThreads * q + 1 /\ Latency <= NumThreads * q
                            /\ NumThreads * q <= Latency + NumThreads - 1
  BY WindowLength
<1> DEFINE p == NumThreads * q
<1>3. p \in Nat /\ Window = p + 1 /\ Latency <= p /\ p <= Latency + NumThreads - 1
  BY <1>1, <1>2
<1> HIDE DEF p
<1>4. Window - Latency \in 1 .. NumThreads
  BY <1>1, <1>3
<1>5. GetDelay(1) = Latency
  <2>1. Throughput \in Nat
    BY WheelConstants
  <2>2. Throughput * (1 - 1) = 0
    BY <2>1
  <2> QED BY <1>1, <2>2 DEF GetDelay
<1> QED BY <1>4, <1>5

\* Of the cycles in which a thread is `depth' cycles into the pipeline, the one
\* that is k = depth + 2 into its window is let in, and no other is: k may be
\* taken modulo the round, as far as the window is open there.
LEMMA OneCycleLetIn ==
    ASSUME NEW t \in 0 .. NumThreads - 1, NEW c \in Cycles,
           NEW depth \in {0, 4}, NEW k \in 0 .. Window - Latency,
           (k = depth + 2 /\ k < NumThreads) \/ (k = 0 /\ depth + 2 = NumThreads /\ Window - Latency < NumThreads),
           c % NumThreads = (1 + t + depth) % NumThreads
    PROVE  (t = (1 + c \div Window) % NumThreads /\ c % Window <= Window - GetDelay(1))
             <=> c = FirstCycle(t) + k
<1> DEFINE n == NumThreads
           w == c \div Window
           j == c % Window
<1>1. n \in Nat \ {0} /\ n >= 6 /\ Window \in Nat \ {0} /\ Window > n
  BY WindowLength
<1>2. w \in 0 .. n - 1 /\ j \in 0 .. Window - 1 /\ c % n = (w + j) % n
  BY WhereInWheel
<1>3. GetDelay(1) = Latency /\ Latency \in Nat \ {0} /\ Window - Latency \in 1 .. n
  BY OpenCycles, WheelConstants
<1>4. WindowOf(t) \in 0 .. n - 1
  BY <1>1 DEF WindowOf
<1>5. FirstCycle(t) + k \in Cycles /\ (FirstCycle(t) + k) \div Window = WindowOf(t)
      /\ (FirstCycle(t) + k) % Window = k
  <2>1. k \in 0 .. n
    BY <1>1, <1>3
  <2> QED BY <2>1, InWindow
<1>6. t = (1 + w) % n <=> w = WindowOf(t)
  BY <1>2, ThreadOfWindow
<1>7. ASSUME c = FirstCycle(t) + k
      PROVE  w = WindowOf(t) /\ j <= Window - Latency
  BY <1>5, <1>7
<1>8. ASSUME w = WindowOf(t), j <= Window - Latency
      PROVE  c = FirstCycle(t) + k
  <2> HIDE DEF w, j
  <2>1. (1 + t + depth) % n = (w + (depth + 2)) % n
    <3>1. CASE t = 0
      <4>1. w + (depth + 2) = n + (1 + t + depth) /\ 1 + t + depth \in Nat
        BY <1>1, <1>8, <3>1 DEF WindowOf
      <4>2. (n * 1 + (1 + t + depth)) % n = (1 + t + depth) % n
        BY <1>1, <4>1, Multiple
      <4> QED BY <1>1, <4>1, <4>2
    <3>2. CASE t # 0
      BY <1>1, <1>8, <3>2 DEF WindowOf
    <3> QED BY <3>1, <3>2
  <2>2. (w + j) % n = (w + (depth + 2)) % n
    BY <1>2, <2>1
  <2>3. w + j \in Nat /\ w + (depth + 2) \in Nat
    BY <1>2
  <2>4. j = k
    <3>1. CASE k = depth + 2 /\ k < n
      <4>1. (w + j) - (w + k) < n /\ (w + k) - (w + j) < n
        BY <1>1, <1>2, <1>3, <1>8, <3>1
      <4>2. w + j = w + k
        BY <1>1, <2>2, <2>3, <3>1, <4>1, SameRound
      <4> QED BY <1>2, <4>2
    <3>2. CASE k = 0 /\ depth + 2 = n /\ Window - Latency < n
      <4>1. (w + n) % n = w % n
        <5>1. (n * 1 + w) % n = w % n
          BY <1>1, <1>2, Multiple
        <5> QED BY <1>1, <1>2, <5>1
      <4>2. (w + j) - w < n /\ w - (w + j) < n
        BY <1>1, <1>2, <1>3, <1>8, <3>2
      <4>3. (w + j) % n = w % n
        BY <2>2, <3>2, <4>1
      <4>4. w \in Nat
        BY <1>1, <1>2
      <4>5. w + j = w
        BY <1>1, <2>3, <4>2, <4>3, <4>4, SameRound
      <4> QED BY <1>2, <3>2, <4>5
    <3> QED BY <3>1, <3>2
  <2>5. c = Window * w + j
    BY WhereInWheel DEF w, j
  <2>6. FirstCycle(t) + k = Window * w + k
    <3>1. FirstCycle(t) + k = Window * WindowOf(t) + k
      BY <1>5, WhereInWheel
    <3> QED BY <1>8, <3>1
  <2> QED BY <2>4, <2>5, <2>6
<1> QED BY <1>3, <1>6, <1>7, <1>8

-----------------------------------------------------------------------------
(* The wheel: the cycles in which a thread is answered                     *)

\* How deep in the pipeline a thread asks, and the cycle it is answered in.
Depths == {0, 4}
Slot(t, depth) == FirstCycle(t) + (IF depth = 0 THEN 2 ELSE 6 % NumThreads)

\* Active threads are hardware threads.
LEMMA HardwareThreads ==
    ASSUME NEW t \in Active
    PROVE  t \in 0 .. NumThreads - 1
BY WheelConstants

\* The memory stage comes around to a window as many cycles on as the thread is
\* deep in the pipeline, or where the window begins.
LEMMA SlotDepths ==
    ASSUME WindowMeetsStages, NEW depth \in Depths
    PROVE  \E k \in 0 .. Window - Latency :
              /\ k = IF depth = 0 THEN 2 ELSE 6 % NumThreads
              /\ k < NumThreads
              /\ \/ k = depth + 2
                 \/ k = 0 /\ depth + 2 = NumThreads /\ Window - Latency < NumThreads
<1>1. NumThreads \in Nat \ {0} /\ NumThreads >= 6 /\ Window \in Nat /\ Latency \in Nat
  BY WindowLength, WheelConstants
<1>2. Window - Latency \in 1 .. NumThreads
  BY OpenCycles
<1>3. 6 % NumThreads = IF NumThreads = 6 THEN 0 ELSE 6
  <2>1. PICK x \in 0 .. 2 * NumThreads - 1 : x = 6
    BY <1>1
  <2>2. x % NumThreads = IF x < NumThreads THEN x ELSE x - NumThreads
    BY <1>1, TwoRounds
  <2> QED BY <1>1, <2>1, <2>2
<1>4. CASE NumThreads = 6
  BY <1>1, <1>2, <1>3, <1>4 DEF WindowMeetsStages, Depths
<1>5. CASE NumThreads # 6
  <2>1. Window - Latency >= 6
    BY <1>5 DEF WindowMeetsStages
  <2> QED BY <1>1, <1>2, <1>3, <1>5, <2>1 DEF Depths
<1> QED BY <1>4, <1>5

\* The wheel lets a thread in in its slot and in no other cycle in which the
\* thread asks.
LEMMA LetInInSlot ==
    ASSUME WindowMeetsStages, NEW t \in Active, NEW depth \in Depths,
           cycle \in Cycles, InStage(t, depth)
    PROVE  IsScheduled(t) <=> cycle = Slot(t, depth)
<1>1. PICK k \in 0 .. Window - Latency :
              /\ k = IF depth = 0 THEN 2 ELSE 6 % NumThreads
              /\ k < NumThreads
              /\ \/ k = depth + 2
                 \/ k = 0 /\ depth + 2 = NumThreads /\ Window - Latency < NumThreads
  BY SlotDepths
<1>2. t \in 0 .. NumThreads - 1
  BY HardwareThreads
<1>3. cycle % NumThreads = (1 + t + depth) % NumThreads
  BY DEF InStage
<1>4. (t = (1 + cycle \div Window) % NumThreads /\ cycle % Window <= Window - GetDelay(1))
             <=> cycle = FirstCycle(t) + k
  BY <1>1, <1>2, <1>3, OneCycleLetIn DEF Depths
<1> QED BY <1>1, <1>4 DEF IsScheduled, CurrentThread, Slot

\* In its slot the thread is as deep in the pipeline as it asks.
LEMMA SlotInStage ==
    ASSUME WindowMeetsStages, NEW t \in Active, NEW depth \in Depths
    PROVE  Slot(t, depth) \in Cycles /\ Slot(t, depth) % NumThreads = (1 + t + depth) % NumThreads
<1> DEFINE n == NumThreads
<1>1. PICK k \in 0 .. Window - Latency :
              /\ k = IF depth = 0 THEN 2 ELSE 6 % NumThreads
              /\ k < NumThreads
              /\ \/ k = depth + 2
                 \/ k = 0 /\ depth + 2 = NumThreads /\ Window - Latency < NumThreads
  BY SlotDepths
<1>2. t \in 0 .. n - 1 /\ n \in Nat \ {0} /\ Window \in Nat \ {0} /\ n >= 6
  BY HardwareThreads, WindowLength
<1>3. Slot(t, depth) = FirstCycle(t) + k
  BY <1>1 DEF Slot
<1>4. FirstCycle(t) + k \in Cycles /\ (FirstCycle(t) + k) \div Window = WindowOf(t)
      /\ (FirstCycle(t) + k) % Window = k
  <2>1. k \in 0 .. n
    BY <1>1, <1>2
  <2> QED BY <1>2, <2>1, InWindow
<1>5. (FirstCycle(t) + k) % n = (WindowOf(t) + k) % n
  BY <1>4, WhereInWheel
<1>6. WindowOf(t) \in 0 .. n - 1
  BY <1>2 DEF WindowOf
<1>7. (WindowOf(t) + k) % n = (1 + t + depth) % n
  <2> DEFINE v == WindowOf(t)
             e == 1 + t + depth
  <2> SUFFICES (v + k) % n = e % n
    OBVIOUS
  <2>1. e \in Nat /\ v \in Nat /\ k \in Nat
    BY <1>2, <1>6 DEF Depths
  <2>2. \/ v + k = e
        \/ v + k = n * 1 + e
        \/ n * 1 + (v + k) = e
    BY <1>1, <1>2 DEF WindowOf, Depths
  <2> HIDE DEF v, e
  <2>3. CASE v + k = n * 1 + e
    <3>1. (n * 1 + e) % n = e % n
      BY <1>2, <2>1, Multiple
    <3> QED BY <2>3, <3>1
  <2>4. CASE n * 1 + (v + k) = e
    <3>1. v + k \in Nat
      BY <2>1
    <3>2. (n * 1 + (v + k)) % n = (v + k) % n
      BY <1>2, <3>1, Multiple
    <3> QED BY <2>4, <3>2
  <2> QED BY <2>2, <2>3, <2>4
<1> QED BY <1>3, <1>4, <1>5, <1>7

\* A rotation is a multiple of a round.
LEMMA AfterRotation ==
    ASSUME NEW c \in Nat
    PROVE  (c + Rotation) % NumThreads = c % NumThreads
<1>1. NumThreads \in Nat \ {0} /\ Window \in Nat /\ Rotation = NumThreads * Window
  BY WindowLength
<1>2. (NumThreads * Window + c) % NumThreads = c % NumThreads
  BY <1>1, Multiple
<1>3. c + Rotation = NumThreads * Window + c
  <2>1. Rotation \in Nat
    BY WindowLength
  <2> QED BY <1>1, <2>1
<1> QED BY <1>2, <1>3

\* The cycle after one, and the pipeline in it.
LEMMA NextCycle ==
    ASSUME NEW c \in Cycles
    PROVE  /\ (c + 1) % Rotation \in Cycles
           /\ (c + 1) % Rotation = IF c + 1 = Rotation THEN 0 ELSE c + 1
           /\ (c + 1) % Rotation # c
           /\ ((c + 1) % Rotation) % NumThreads = (c + 1) % NumThreads
<1>1. Rotation \in Nat \ {0} /\ NumThreads \in Nat \ {0} /\ Rotation > 1
  <2>1. NumThreads * Window >= NumThreads /\ NumThreads >= 6
    BY WindowLength, AtLeastOnce
  <2>2. Rotation = NumThreads * Window /\ Rotation \in Nat \ {0} /\ NumThreads \in Nat \ {0}
    BY WindowLength
  <2> QED BY <2>1, <2>2
<1>2. c \in 0 .. Rotation - 1
  BY DEF Cycles
<1>3. (c + 1) % Rotation = IF c + 1 = Rotation THEN 0 ELSE c + 1
  <2>1. PICK x \in 0 .. 2 * Rotation - 1 : x = c + 1
    BY <1>1, <1>2
  <2>2. x % Rotation = IF x < Rotation THEN x ELSE x - Rotation
    BY <1>1, TwoRounds
  <2> QED BY <1>1, <1>2, <2>1, <2>2
<1>4. CASE c + 1 = Rotation
  <2>1. 0 % NumThreads = (0 + Rotation) % NumThreads
    BY AfterRotation
  <2> QED BY <1>1, <1>2, <1>3, <1>4, <2>1 DEF Cycles
<1>5. CASE c + 1 # Rotation
  BY <1>1, <1>2, <1>3, <1>5 DEF Cycles
<1> QED BY <1>4, <1>5

\* A thread is a step deeper in the pipeline in the next cycle.
LEMMA DeeperNext ==
    ASSUME NEW c \in Cycles, NEW a \in Nat, c % NumThreads = a % NumThreads
    PROVE  ((c + 1) % Rotation) % NumThreads = (a + 1) % NumThreads
<1>1. NumThreads \in Nat \ {0} /\ c \in Nat
  BY WindowLength DEF Cycles
<1>2. PICK d \in Nat : d = 1
  OBVIOUS
<1>3. (c + d) % NumThreads = (a + d) % NumThreads
  BY <1>1, LaterRemainder
<1> QED BY <1>2, <1>3, NextCycle

\* Two threads are never in one stage of the pipeline.
LEMMA OneInStage ==
    ASSUME NEW t \in Active, NEW u \in Active, NEW depth \in 0 .. 5,
           InStage(t, depth), InStage(u, depth)
    PROVE  t = u
<1>1. t \in 0 .. NumThreads - 1 /\ u \in 0 .. NumThreads - 1 /\ NumThreads \in Nat \ {0}
  BY HardwareThreads, WindowLength
<1>2. (1 + t + depth) % NumThreads = (1 + u + depth) % NumThreads
  BY DEF InStage
<1>3. 1 + t + depth \in Nat /\ 1 + u + depth \in Nat
      /\ (1 + t + depth) - (1 + u + depth) < NumThreads
      /\ (1 + u + depth) - (1 + t + depth) < NumThreads
  BY <1>1
<1>4. 1 + t + depth = 1 + u + depth
  BY <1>1, <1>2, <1>3, SameRound
<1> QED BY <1>1, <1>4

\* How deep a thread is, to a round.
LEMMA OneDepth ==
    ASSUME NEW t \in Active, NEW d \in Nat, NEW e \in Nat, InStage(t, d), InStage(t, e),
           d - e < NumThreads, e - d < NumThreads
    PROVE  d = e
<1>1. t \in 0 .. NumThreads - 1 /\ NumThreads \in Nat \ {0}
  BY HardwareThreads, WindowLength
<1>2. (1 + t + d) % NumThreads = (1 + t + e) % NumThreads
  BY DEF InStage
<1>3. 1 + t + d \in Nat /\ 1 + t + e \in Nat
      /\ (1 + t + d) - (1 + t + e) < NumThreads /\ (1 + t + e) - (1 + t + d) < NumThreads
  BY <1>1
<1>4. 1 + t + d = 1 + t + e
  BY <1>1, <1>2, <1>3, SameRound
<1> QED BY <1>1, <1>4

-----------------------------------------------------------------------------
(* The wheel: its answers                                                  *)

\* No access but the one that is turned away finds the wheel unclean.
LEMMA Answers ==
    ASSUME NEW t, NEW words \in Nat \ {0}, NEW stalled \in BOOLEAN,
           accessing = FALSE, remaining \in Nat, IsStalled(t, words, stalled)
    PROVE  accessing' = FALSE /\ remaining' \in Nat /\ (stalled <=> ~IsScheduled(t))
<1>1. GetDelay(words) \in Nat \ {0}
  <2>1. Latency \in Nat \ {0} /\ Throughput \in Nat /\ words - 1 \in Nat
    BY WheelConstants
  <2>2. Throughput * (words - 1) \in Nat
    BY <2>1
  <2> QED BY <2>1, <2>2 DEF GetDelay
<1>2. CASE Refused(t)
  BY <1>2 DEF IsStalled, Refused, wheel, IsScheduled
<1>3. CASE ~Refused(t)
  <2>1. remaining' = GetDelay(words) /\ accessing' = (remaining' <= 0) /\ stalled = accessing'
    BY <1>3 DEF IsStalled
  <2>2. ~(GetDelay(words) <= 0)
    BY <1>1
  <2>3. IsScheduled(t)
    BY <1>3 DEF Refused
  <2> QED BY <1>1, <2>1, <2>2, <2>3
<1> QED BY <1>2, <1>3

\* An instruction that is not stalled is on its way through the pipeline.
InFlight(t) ==
    \E d \in 0 .. 5 :
        /\ InStage(t, d)
        /\ d = 0 => stage = "count"
        /\ d = 5 => stage = "except"

\* A thread is stalled on an instruction in main memory, or on the data of one.
Stalls(t) ==
    /\ inst[t] # NoInst /\ ~fetchStalled[t] /\ ~memStalled[t] => InFlight(t)
    /\ fetchStalled[t] => inst[t] # NoInst /\ inst[t].code = "main" /\ ~memStalled[t]
    /\ memStalled[t] => inst[t] # NoInst /\ inst[t].data = "main"

FlightInv == WheelTypeOK /\ accessing = FALSE /\ \A t \in Active : Stalls(t)

\* So it is for a fetch or a load.
LEMMA AnswersWord ==
    ASSUME FlightInv, NEW t, NEW stalled \in BOOLEAN, IsStalled(t, 1, stalled)
    PROVE  accessing' = FALSE /\ remaining' \in Nat /\ (stalled <=> ~IsScheduled(t))
<1>1. accessing = FALSE /\ remaining \in Nat
  BY DEF FlightInv, WheelTypeOK
<1>2. PICK words \in Nat \ {0} : words = 1
  OBVIOUS
<1>3. IsStalled(t, words, stalled)
  BY <1>2
<1> QED BY <1>1, <1>3, Answers

\* When a behaviour starts, nothing is in flight.
LEMMA FlightInit == WheelInit => FlightInv
<1> SUFFICES ASSUME WheelInit
             PROVE  FlightInv
  OBVIOUS
<1>1. Rotation \in Nat \ {0} /\ 1 \in 0 .. Rotation - 1
  <2>1. NumThreads * Window >= NumThreads /\ NumThreads >= 6
    BY WindowLength, AtLeastOnce
  <2>2. Rotation = NumThreads * Window /\ Rotation \in Nat \ {0} /\ NumThreads \in Nat \ {0}
    BY WindowLength
  <2> QED BY <2>1, <2>2
<1>2. WheelTypeOK
  BY <1>1 DEF WheelInit, WheelTypeOK
<1>3. \A t \in Active : Stalls(t)
  BY DEF WheelInit, Stalls
<1> QED BY <1>2, <1>3 DEF FlightInv, WheelInit

\* Instructions are no value but NoInst and those of the programs.
LEMMA Instructions ==
    ASSUME NEW t \in Active, NEW i \in Programs[t]
    PROVE  i # NoInst /\ i.code \in {"spm", "main"} /\ i.data \in {"none", "spm", "main", "dma"}
BY WheelConstants

\* What is on its way stays so while neither the clock nor the fetch stage moves.
LEMMA StillInFlight ==
    ASSUME NEW t \in Active, InFlight(t), UNCHANGED cycle, stage # "count", stage # "except"
    PROVE  InFlight(t)'
BY DEF InFlight, InStage

\* An instruction that commits leaves the pipeline, and no other is at its end.
LEMMA FlightExcept == FlightInv /\ Except => FlightInv'
<1> SUFFICES ASSUME FlightInv, Except
             PROVE  FlightInv'
  OBVIOUS
<1>1. UNCHANGED <<cycle, remaining, accessing, fetchStalled, memStalled, waited>> /\ stage' = "memory"
      /\ stage = "except"
  BY DEF Except, wheel, Goes
<1>2. ASSUME NEW t \in Active, Commits(t),
             inst' = [inst EXCEPT ![t] = NoInst],
             dma' = [dma EXCEPT ![t] = IF inst[t].data = "dma" THEN "BUSY" ELSE @]
      PROVE  FlightInv'
  <2>1. WheelTypeOK'
    <3>1. \A u \in Active : inst'[u] \in Programs[u] \union {NoInst}
      BY <1>2 DEF FlightInv, WheelTypeOK
    <3> QED BY <1>1, <1>2, <3>1 DEF FlightInv, WheelTypeOK
  <2>2. ASSUME NEW u \in Active
        PROVE  Stalls(u)'
    <3>1. CASE u = t
      <4>1. ~fetchStalled[t] /\ ~memStalled[t]
        BY <1>2 DEF Commits
      <4>2. inst'[t] = NoInst
        BY <1>2 DEF FlightInv, WheelTypeOK
      <4> QED BY <1>1, <3>1, <4>1, <4>2 DEF Stalls
    <3>2. CASE u # t
      <4>1. Stalls(u) /\ inst'[u] = inst[u]
        BY <1>2, <3>2 DEF FlightInv, WheelTypeOK
      <4>2. ASSUME InFlight(u)
            PROVE  InFlight(u)'
        <5>1. PICK d \in 0 .. 5 : InStage(u, d) /\ (d = 0 => stage = "count") /\ (d = 5 => stage = "except")
          BY <4>2 DEF InFlight
        <5>2. d # 0
          BY <1>1, <5>1
        <5>3. d # 5
          BY <1>2, <3>2, <5>1, OneInStage DEF Commits
        <5> QED BY <1>1, <5>1, <5>2, <5>3 DEF InFlight, InStage
      <4> QED BY <1>1, <4>1, <4>2 DEF Stalls
    <3> QED BY <3>1, <3>2
  <2> QED BY <1>1, <2>1, <2>2 DEF FlightInv
<1>3. ASSUME \A t \in Active : ~Commits(t), UNCHANGED <<inst, dma>>
      PROVE  FlightInv'
  <2>1. WheelTypeOK'
    BY <1>1, <1>3 DEF FlightInv, WheelTypeOK
  <2>2. ASSUME NEW u \in Active
        PROVE  Stalls(u)'
    <3>1. Stalls(u) /\ ~Commits(u)
      BY <1>3 DEF FlightInv
    <3>2. ASSUME InFlight(u), inst[u] # NoInst, ~fetchStalled[u], ~memStalled[u]
          PROVE  InFlight(u)'
      <4>1. PICK d \in 0 .. 5 : InStage(u, d) /\ (d = 0 => stage = "count") /\ (d = 5 => stage = "except")
        BY <3>2 DEF InFlight
      <4>2. d # 0
        BY <1>1, <4>1
      <4>3. d # 5
        BY <3>1, <3>2, <4>1 DEF Commits
      <4> QED BY <1>1, <4>1, <4>2, <4>3 DEF InFlight, InStage
    <3> QED BY <1>1, <1>3, <3>1, <3>2 DEF Stalls
  <2> QED BY <1>1, <2>1, <2>2 DEF FlightInv
<1> QED BY <1>2, <1>3 DEF Except

\* The memory controller only counts a delay down.
LEMMA FlightMemory == FlightInv /\ Memory => FlightInv'
<1> SUFFICES ASSUME FlightInv, Memory
             PROVE  FlightInv'
  OBVIOUS
<1>1. UNCHANGED <<cycle, accessing, inst, fetchStalled, memStalled, dma, waited>>
      /\ stage = "memory" /\ stage' = "dma"
  BY DEF Memory, Goes
<1>2. remaining' \in Nat
  BY DEF Memory, FlightInv, WheelTypeOK
<1>3. WheelTypeOK'
  BY <1>1, <1>2 DEF FlightInv, WheelTypeOK
<1>4. ASSUME NEW u \in Active
      PROVE  Stalls(u)'
  BY <1>1, StillInFlight DEF FlightInv, Stalls
<1> QED BY <1>1, <1>3, <1>4 DEF FlightInv

\* Transfers leave the wheel clean.
LEMMA FlightDma == FlightInv /\ Dma => FlightInv'
<1> SUFFICES ASSUME FlightInv, Dma
             PROVE  FlightInv'
  OBVIOUS
<1>1. UNCHANGED <<cycle, inst, fetchStalled, memStalled, waited>>
      /\ stage = "dma" /\ stage' = "mem"
  BY DEF Dma, Goes
<1>2. accessing' = FALSE /\ remaining' \in Nat
  <2>1. accessing = FALSE /\ remaining \in Nat /\ BurstWords \in Nat \ {0}
    BY WheelConstants DEF FlightInv, WheelTypeOK
  <2> QED BY <2>1, Answers DEF Dma, wheel
<1>3. dma' \in [Active -> {"IDLE", "BUSY"}]
  BY DEF Dma, FlightInv, WheelTypeOK
<1>4. WheelTypeOK'
  BY <1>1, <1>2, <1>3 DEF FlightInv, WheelTypeOK
<1>5. ASSUME NEW u \in Active
      PROVE  Stalls(u)'
  BY <1>1, StillInFlight DEF FlightInv, Stalls
<1> QED BY <1>2, <1>4, <1>5 DEF FlightInv

\* An instruction whose data are there goes on from the memory stage.
LEMMA FlightMem == FlightInv /\ Mem => FlightInv'
<1> SUFFICES ASSUME FlightInv, Mem
             PROVE  FlightInv'
  OBVIOUS
<1>1. UNCHANGED <<cycle, inst, fetchStalled, dma>> /\ stage = "mem" /\ stage' = "fetch"
  BY DEF Mem, Goes
<1>2. ASSUME NEW t \in Active, NEW stalled \in BOOLEAN, AsksForData(t), IsStalled(t, 1, stalled),
             memStalled' = [memStalled EXCEPT ![t] = stalled],
             waited' = [waited EXCEPT ![t] = IF stalled THEN @ + 1 ELSE 0]
      PROVE  FlightInv'
  <2>1. accessing' = FALSE /\ remaining' \in Nat
    BY <1>2, AnswersWord
  <2>2. waited' \in [Active -> Nat]
    BY <1>2 DEF FlightInv, WheelTypeOK
  <2>3. WheelTypeOK'
    BY <1>1, <1>2, <2>1, <2>2 DEF FlightInv, WheelTypeOK
  <2>4. ASSUME NEW u \in Active
        PROVE  Stalls(u)'
    <3>1. CASE u = t
      <4>1. inst[t] # NoInst /\ ~fetchStalled[t] /\ inst[t].data = "main" /\ InStage(t, 4)
        BY <1>2 DEF AsksForData
      <4>2. InFlight(t)'
        BY <1>1, <4>1 DEF InFlight, InStage
      <4> QED BY <1>1, <3>1, <4>1, <4>2 DEF Stalls
    <3>2. CASE u # t
      <4>1. memStalled'[u] = memStalled[u]
        BY <1>2, <3>2 DEF FlightInv, WheelTypeOK
      <4> QED BY <1>1, <4>1, StillInFlight DEF FlightInv, Stalls
    <3> QED BY <3>1, <3>2
  <2> QED BY <2>1, <2>3, <2>4 DEF FlightInv
<1>3. ASSUME UNCHANGED <<wheel, memStalled, waited>>
      PROVE  FlightInv'
  <2>1. WheelTypeOK' /\ accessing' = FALSE
    BY <1>1, <1>3 DEF FlightInv, WheelTypeOK, wheel
  <2>2. ASSUME NEW u \in Active
        PROVE  Stalls(u)'
    BY <1>1, <1>3, StillInFlight DEF FlightInv, Stalls
  <2> QED BY <2>1, <2>2 DEF FlightInv
<1> QED BY <1>2, <1>3 DEF Mem

\* An instruction that is fetched enters the pipeline.
LEMMA FlightFetch == FlightInv /\ Fetch => FlightInv'
<1> SUFFICES ASSUME FlightInv, Fetch
             PROVE  FlightInv'
  OBVIOUS
<1>1. UNCHANGED <<cycle, memStalled, dma>> /\ stage = "fetch" /\ stage' = "count"
  BY DEF Fetch, Goes
<1>2. ASSUME NEW t \in Active, InStage(t, 0), ~memStalled[t], NEW i \in Programs[t],
             fetchStalled[t] => i = inst[t], FetchInst(t, i)
      PROVE  FlightInv'
  <2>1. PICK stalled \in BOOLEAN :
           /\ fetchStalled' = [fetchStalled EXCEPT ![t] = stalled]
           /\ stalled => i.code = "main"
           /\ \/ IsStalled(t, 1, stalled) /\ waited' = [waited EXCEPT ![t] = IF stalled THEN @ + 1 ELSE 0]
              \/ UNCHANGED <<wheel, waited>>
    <3>1. CASE i.code = "main"
      BY <1>2, <3>1 DEF FetchInst
    <3>2. CASE i.code # "main"
      BY <1>2, <3>2 DEF FetchInst
    <3> QED BY <3>1, <3>2
  <2>2. accessing' = FALSE /\ remaining' \in Nat
    <3>1. CASE IsStalled(t, 1, stalled)
      BY <3>1, AnswersWord
    <3>2. CASE UNCHANGED <<wheel, waited>>
      BY <3>2 DEF FlightInv, WheelTypeOK, wheel
    <3> QED BY <2>1, <3>1, <3>2
  <2>3. waited' \in [Active -> Nat] /\ fetchStalled' \in [Active -> BOOLEAN]
    BY <2>1 DEF FlightInv, WheelTypeOK
  <2>4. inst' = [inst EXCEPT ![t] = i]
    BY <1>2 DEF FetchInst
  <2>5. WheelTypeOK'
    <3>1. DOMAIN inst' = Active /\ \A u \in Active : inst'[u] \in Programs[u] \union {NoInst}
      BY <2>4 DEF FlightInv, WheelTypeOK
    <3> QED BY <1>1, <2>2, <2>3, <3>1 DEF FlightInv, WheelTypeOK
  <2>6. ASSUME NEW u \in Active
        PROVE  Stalls(u)'
    <3>1. CASE u = t
      <4>1. inst'[t] = i /\ i # NoInst
        BY <2>4, Instructions DEF FlightInv, WheelTypeOK
      <4>2. InFlight(t)'
        BY <1>1, <1>2 DEF InFlight, InStage
      <4>3. fetchStalled'[t] = stalled
        BY <2>1 DEF FlightInv, WheelTypeOK
      <4> QED BY <1>1, <1>2, <2>1, <3>1, <4>1, <4>2, <4>3 DEF Stalls
    <3>2. CASE u # t
      <4>1. inst'[u] = inst[u] /\ fetchStalled'[u] = fetchStalled[u]
        BY <2>1, <2>4, <3>2 DEF FlightInv, WheelTypeOK
      <4> QED BY <1>1, <4>1, StillInFlight DEF FlightInv, Stalls
    <3> QED BY <3>1, <3>2
  <2> QED BY <2>2, <2>5, <2>6 DEF FlightInv
<1>3. ASSUME UNCHANGED <<wheel, inst, fetchStalled, waited>>
      PROVE  FlightInv'
  <2>1. WheelTypeOK' /\ accessing' = FALSE
    BY <1>1, <1>3 DEF FlightInv, WheelTypeOK, wheel
  <2>2. ASSUME NEW u \in Active
        PROVE  Stalls(u)'
    BY <1>1, <1>3, StillInFlight DEF FlightInv, Stalls
  <2> QED BY <2>1, <2>2 DEF FlightInv
<1> QED BY <1>2, <1>3 DEF Fetch

\* With the clock, everything in flight is one cycle further.
LEMMA FlightCount == FlightInv /\ Count => FlightInv'
<1> SUFFICES ASSUME FlightInv, Count
             PROVE  FlightInv'
  OBVIOUS
<1>1. UNCHANGED <<remaining, accessing, inst, fetchStalled, memStalled, dma, waited>>
      /\ stage = "count" /\ stage' = "except" /\ cycle' = (cycle + 1) % Rotation
  BY DEF Count, Goes, wheel
<1>2. cycle \in Cycles
  BY DEF FlightInv, WheelTypeOK, Cycles
<1>3. WheelTypeOK'
  <2>1. cycle' \in Cycles
    BY <1>1, <1>2, NextCycle
  <2> QED BY <1>1, <2>1 DEF FlightInv, WheelTypeOK, Cycles
<1>4. ASSUME NEW u \in Active
      PROVE  Stalls(u)'
  <2>1. ASSUME InFlight(u)
        PROVE  InFlight(u)'
    <3>1. PICK d \in 0 .. 5 : InStage(u, d) /\ (d = 5 => stage = "except")
      BY <2>1 DEF InFlight
    <3>2. d \in 0 .. 4
      BY <1>1, <3>1
    <3>3. PICK a \in Nat : a = 1 + u + d
      BY HardwareThreads
    <3>4. cycle' % NumThreads = (a + 1) % NumThreads
      BY <1>1, <1>2, <3>1, <3>3, DeeperNext DEF InStage
    <3>5. a + 1 = 1 + u + (d + 1)
      <4>1. u \in Nat
        BY HardwareThreads
      <4> QED BY <3>2, <3>3, <4>1
    <3>6. InStage(u, d + 1)'
      BY <3>4, <3>5 DEF InStage
    <3> QED BY <1>1, <3>2, <3>6 DEF InFlight
  <2> QED BY <1>1, <2>1 DEF FlightInv, Stalls
<1> QED BY <1>1, <1>3, <1>4 DEF FlightInv

\* Every call of a cycle keeps it so.
LEMMA FlightStep == FlightInv /\ [WheelNext]_wheelVars => FlightInv'
<1> SUFFICES ASSUME FlightInv, [WheelNext]_wheelVars
             PROVE  FlightInv'
  OBVIOUS
<1>1. CASE UNCHANGED wheelVars
  BY <1>1 DEF wheelVars, wheel, FlightInv, WheelTypeOK, Stalls, InFlight, InStage
<1> QED
  BY <1>1, FlightExcept, FlightMemory, FlightDma, FlightMem, FlightFetch, FlightCount DEF WheelNext

\* What is in flight is what the stages say, and no access leaves the wheel
\* unclean for another.
THEOREM FlightHolds == WheelSpec => []FlightInv
BY FlightInit, FlightStep, PTL DEF WheelSpec

-----------------------------------------------------------------------------
(* The wheel implements the time-triggered memory                          *)

FetchSlots == [t \in Active |-> FirstCycle(t) + 2]
DataSlots == [t \in Active |-> FirstCycle(t) + (6 % NumThreads)]

\* The wheel starts as the memory does.
LEMMA StartTimed == WheelInit => T!TimeInit
BY DEF WheelInit, T!TimeInit

\* An instruction at the end of its way is committed; a fetch is answered by the
\* cycle and so are data.
LEMMA StepTimed ==
    ASSUME WindowMeetsStages, FlightInv, [WheelNext]_wheelVars
    PROVE  [T!TimeNext]_(T!memoryVars)
<1> USE DEF T!memoryVars
<1>0. cycle \in Cycles
  BY DEF FlightInv, WheelTypeOK, Cycles
<1>1. CASE Except
  BY <1>1 DEF Except, Commits, T!TimeNext, T!Commit
<1>2. CASE Memory
  BY <1>2 DEF Memory
<1>3. CASE Dma
  BY <1>3 DEF Dma
<1>4. CASE Mem
  <2>1. CASE UNCHANGED memStalled
    BY <1>4, <2>1 DEF Mem
  <2>2. CASE memStalled' # memStalled
    <3>1. PICK t \in Active, stalled \in BOOLEAN :
             /\ AsksForData(t)
             /\ IsStalled(t, 1, stalled)
             /\ memStalled' = [memStalled EXCEPT ![t] = stalled]
      BY <1>4, <2>2 DEF Mem
    <3>2. stalled <=> ~IsScheduled(t)
      BY <3>1, AnswersWord
    <3>3. InStage(t, 4)
      BY <3>1 DEF AsksForData
    <3>4. IsScheduled(t) <=> cycle = Slot(t, 4)
      BY <1>0, <3>3, LetInInSlot DEF Depths
    <3>5. stalled = (cycle # DataSlots[t])
      BY <3>2, <3>4 DEF DataSlots, Slot
    <3>6. T!DataAnswer(t)
      BY <1>4, <3>1, <3>5 DEF Mem, AsksForData, T!DataAnswer, DataSlots
    <3> QED BY <3>6 DEF T!TimeNext
  <2> QED BY <2>1, <2>2
<1>5. CASE Fetch
  <2>1. CASE UNCHANGED <<inst, fetchStalled>>
    BY <1>5, <2>1 DEF Fetch
  <2>2. CASE ~UNCHANGED <<inst, fetchStalled>>
    <3>0. PICK t \in Active : InStage(t, 0) /\ ~memStalled[t]
             /\ \E i \in Programs[t] : (fetchStalled[t] => i = inst[t]) /\ FetchInst(t, i)
      BY <1>5, <2>2 DEF Fetch
    <3>1. PICK i \in Programs[t] :
             InStage(t, 0) /\ ~memStalled[t] /\ (fetchStalled[t] => i = inst[t]) /\ FetchInst(t, i)
      BY <3>0
    <3>2. inst[t] = NoInst \/ fetchStalled[t]
      <4>1. ASSUME inst[t] # NoInst, ~fetchStalled[t]
            PROVE  FALSE
        <5>1. PICK d \in 0 .. 5 : InStage(t, d) /\ (d = 0 => stage = "count") /\ (d = 5 => stage = "except")
          BY <3>1, <4>1 DEF FlightInv, Stalls, InFlight
        <5>2. d \in 1 .. 4
          BY <1>5, <5>1 DEF Fetch, Goes
        <5>3. d = 0
          <6>1. NumThreads >= 6 /\ NumThreads \in Nat
            BY WheelConstants
          <6>2. d - 0 < NumThreads /\ 0 - d < NumThreads
            BY <5>2, <6>1
          <6> QED BY <3>1, <5>1, <6>2, OneDepth
        <5> QED BY <5>2, <5>3
      <4> QED BY <4>1
    <3>3. fetchStalled' = [fetchStalled EXCEPT ![t] = i.code = "main" /\ cycle # FetchSlots[t]]
      <4>1. CASE i.code = "main"
        <5>1. PICK stalled \in BOOLEAN :
                 IsStalled(t, 1, stalled) /\ fetchStalled' = [fetchStalled EXCEPT ![t] = stalled]
          BY <3>1, <4>1 DEF FetchInst
        <5>2. stalled <=> ~IsScheduled(t)
          BY <5>1, AnswersWord
        <5>3. IsScheduled(t) <=> cycle = Slot(t, 0)
          BY <1>0, <3>1, LetInInSlot DEF Depths
        <5>4. stalled = (i.code = "main" /\ cycle # FetchSlots[t])
          BY <4>1, <5>2, <5>3 DEF FetchSlots, Slot
        <5> QED BY <5>1, <5>4
      <4>2. CASE i.code # "main"
        <5>1. fetchStalled' = [fetchStalled EXCEPT ![t] = FALSE]
          BY <3>1, <4>2 DEF FetchInst
        <5> QED BY <4>2, <5>1
      <4> QED BY <4>1, <4>2
    <3>4. inst' = [inst EXCEPT ![t] = i] /\ UNCHANGED <<cycle, memStalled>>
      BY <1>5, <3>1 DEF Fetch, FetchInst
    <3>5. T!FetchAnswer(t)
      BY <3>1, <3>2, <3>3, <3>4 DEF T!FetchAnswer, FetchSlots
    <3> QED BY <3>5 DEF T!TimeNext
  <2> QED BY <2>1, <2>2
<1>6. CASE Count
  <2>1. cycle' # cycle
    BY <1>0, <1>6, NextCycle DEF Count
  <2> QED BY <1>6, <2>1 DEF Count, T!TimeNext, T!TimePasses
<1>7. CASE UNCHANGED wheelVars
  BY <1>7 DEF wheelVars
<1> QED BY <1>1, <1>2, <1>3, <1>4, <1>5, <1>6, <1>7 DEF WheelNext

\* Whatever the other threads and their transfers do, fetches and loads of a
\* thread are answered in two cycles of the rotation that are its own: the
\* time-triggered interface that wheeled_mem.h promises.
THEOREM MemoryIsTimed == WindowMeetsStages => (WheelSpec => TimeTriggered)
<1> SUFFICES ASSUME WindowMeetsStages
             PROVE  WheelSpec => TimeTriggered
  OBVIOUS
<1>1. FlightInv /\ [WheelNext]_wheelVars => [T!TimeNext]_(T!memoryVars)
  BY StepTimed
<1> QED BY <1>1, StartTimed, FlightHolds, PTL DEF WheelSpec, TimeTriggered, T!TimeTriggered

-----------------------------------------------------------------------------
(* The wheel: no thread waits for more than a rotation                     *)

\* The stages that follow the one in which a thread asks at that depth.
Asked(depth) == stage \in IF depth = 0 THEN {"count"} ELSE {"fetch", "count"}

\* The thread t was turned away s cycles ago, and is answered in e cycles.  It
\* has then waited for as many rounds as it was turned away, and no longer than
\* a rotation.
Waiting(t, depth, e, s) ==
    /\ e + s >= NumThreads
    /\ waited[t] * NumThreads + e + s <= Rotation
    /\ cycle + e \in {Slot(t, depth), Slot(t, depth) + Rotation}
    /\ InStage(t, depth + s)
    /\ s = 0 => Asked(depth)
    /\ s = NumThreads => ~Asked(depth)

WaitsFor(t, depth) == \E e \in Nat, s \in 0 .. NumThreads : Waiting(t, depth, e, s)

Waits(t) ==
    /\ ~fetchStalled[t] /\ ~memStalled[t] => waited[t] = 0
    /\ fetchStalled[t] => WaitsFor(t, 0)
    /\ memStalled[t] => WaitsFor(t, 4)

WaitInv == FlightInv /\ \A t \in Active : Waits(t)

\* A round later a thread is as deep again.
LEMMA RoundInStage ==
    ASSUME NEW t \in Active, NEW depth \in Nat
    PROVE  InStage(t, depth + NumThreads) <=> InStage(t, depth)
<1>1. t \in Nat /\ NumThreads \in Nat \ {0}
  BY HardwareThreads, WindowLength
<1>2. PICK a \in Nat : a = 1 + t + depth
  BY <1>1
<1>3. (NumThreads * 1 + a) % NumThreads = a % NumThreads
  BY <1>1, Multiple
<1>4. NumThreads * 1 + a = 1 + t + (depth + NumThreads)
  BY <1>1, <1>2
<1> QED BY <1>2, <1>3, <1>4 DEF InStage

\* One refusal more is one round more.
LEMMA OneRoundMore ==
    ASSUME NEW w \in Nat
    PROVE  w * NumThreads \in Nat /\ (w + 1) * NumThreads = w * NumThreads + NumThreads
BY WindowLength

\* A thread that is turned away for the first time is answered within the
\* rotation, in a round at the earliest.
LEMMA FirstRefusal ==
    ASSUME WindowMeetsStages, NEW t \in Active, NEW depth \in Depths,
           cycle \in Cycles, InStage(t, depth), cycle # Slot(t, depth)
    PROVE  \E e \in Nat :
              /\ e >= NumThreads /\ NumThreads + e <= Rotation
              /\ cycle + e \in {Slot(t, depth), Slot(t, depth) + Rotation}
<1> DEFINE z == Slot(t, depth)
<1>1. NumThreads \in Nat \ {0} /\ Rotation \in Nat \ {0} /\ cycle \in Nat /\ cycle < Rotation
  BY WindowLength DEF Cycles
<1>2. z \in Nat /\ z < Rotation /\ z % NumThreads = cycle % NumThreads
  BY <1>1, SlotInStage DEF InStage, Cycles
<1> HIDE DEF z
<1>3. (cycle + Rotation) % NumThreads = cycle % NumThreads /\ (z + Rotation) % NumThreads = z % NumThreads
  BY <1>1, <1>2, AfterRotation
<1>4. CASE cycle < z
  <2>1. z - cycle >= NumThreads
    BY <1>1, <1>2, <1>4, RoundApart
  <2>2. PICK c \in Nat : c = cycle + Rotation
    BY <1>1
  <2>3. z < c /\ z % NumThreads = c % NumThreads
    BY <1>1, <1>2, <1>3, <2>2
  <2>4. c - z >= NumThreads
    BY <1>1, <1>2, <2>3, RoundApart
  <2>5. z - cycle \in Nat /\ NumThreads + (z - cycle) <= Rotation /\ cycle + (z - cycle) = z
    BY <1>1, <1>2, <1>4, <2>2, <2>4
  <2> QED BY <2>1, <2>5 DEF z
<1>5. CASE z < cycle
  <2>1. cycle - z >= NumThreads
    BY <1>1, <1>2, <1>5, RoundApart
  <2>2. PICK y \in Nat : y = z + Rotation
    BY <1>1, <1>2
  <2>3. cycle < y /\ y % NumThreads = cycle % NumThreads
    BY <1>1, <1>2, <1>3, <2>2
  <2>4. y - cycle >= NumThreads
    BY <1>1, <2>3, RoundApart
  <2>5. y - cycle \in Nat /\ NumThreads + (y - cycle) <= Rotation /\ cycle + (y - cycle) = y
    BY <1>1, <1>2, <2>1, <2>2, <2>3
  <2> QED BY <2>2, <2>4, <2>5 DEF z
<1> QED BY <1>1, <1>2, <1>4, <1>5 DEF z

\* A thread that is turned away once more is a round nearer to its answer.
LEMMA NextRefusal ==
    ASSUME WindowMeetsStages, WheelTypeOK, NEW t \in Active, NEW depth \in Depths,
           InStage(t, depth), cycle # Slot(t, depth), WaitsFor(t, depth), ~Asked(depth)
    PROVE  \E e \in Nat :
              /\ e >= NumThreads /\ (waited[t] + 1) * NumThreads + e <= Rotation
              /\ cycle + e \in {Slot(t, depth), Slot(t, depth) + Rotation}
<1> DEFINE z == Slot(t, depth)
<1>1. NumThreads \in Nat \ {0} /\ Rotation \in Nat \ {0} /\ cycle \in Nat /\ cycle < Rotation
  BY WindowLength DEF WheelTypeOK
<1>2. z \in Nat /\ z < Rotation /\ z % NumThreads = cycle % NumThreads
  BY <1>1, SlotInStage DEF InStage, Cycles
<1>3. PICK e \in Nat, s \in 0 .. NumThreads : Waiting(t, depth, e, s)
  BY DEF WaitsFor
<1>4. s = NumThreads
  <2>1. s # 0 /\ InStage(t, depth + s)
    BY <1>3 DEF Waiting
  <2>2. CASE s < NumThreads
    <3>1. depth + s \in Nat /\ depth \in Nat /\ (depth + s) - depth < NumThreads /\ depth - (depth + s) < NumThreads
      BY <1>1, <2>2 DEF Depths
    <3>2. depth + s = depth
      BY <2>1, <3>1, OneDepth
    <3> QED BY <2>1, <3>1, <3>2
  <2> QED BY <1>1, <2>2
<1>5. cycle + e \in {z, z + Rotation} /\ waited[t] * NumThreads + e + s <= Rotation
  BY <1>3 DEF Waiting
<1>6. e >= NumThreads
  <2> HIDE DEF z
  <2>1. PICK c \in Nat : c = cycle + e
    BY <1>1
  <2>2. c % NumThreads = cycle % NumThreads
    <3>1. (z + Rotation) % NumThreads = z % NumThreads
      BY <1>2, AfterRotation
    <3> QED BY <1>2, <1>5, <2>1, <3>1
  <2>3. cycle < c
    BY <1>1, <1>2, <1>5, <2>1 DEF z
  <2>4. c - cycle >= NumThreads
    BY <1>1, <2>2, <2>3, RoundApart
  <2> QED BY <1>1, <2>1, <2>4
<1>7. (waited[t] + 1) * NumThreads + e <= Rotation
  <2>1. PICK w \in Nat : w = waited[t]
    BY DEF WheelTypeOK
  <2>2. PICK p \in Nat : p = w * NumThreads /\ (w + 1) * NumThreads = p + NumThreads
    BY OneRoundMore
  <2>3. p + e + NumThreads <= Rotation
    BY <1>4, <1>5, <2>1, <2>2
  <2>4. p + NumThreads + e <= Rotation
    BY <1>1, <2>3
  <2> QED BY <2>1, <2>2, <2>4
<1> QED BY <1>5, <1>6, <1>7

\* A thread that asks is answered in its slot, and waits from now on if it is not.
LEMMA AskAndWait ==
    ASSUME WindowMeetsStages, WaitInv, NEW t \in Active, NEW depth \in Depths, NEW stalled \in BOOLEAN,
           InStage(t, depth), ~Asked(depth), Asked(depth)', UNCHANGED cycle,
           IF depth = 0 THEN ~memStalled[t] ELSE ~fetchStalled[t],
           IsStalled(t, 1, stalled),
           waited' = [waited EXCEPT ![t] = IF stalled THEN @ + 1 ELSE 0]
    PROVE  IF stalled THEN WaitsFor(t, depth)' ELSE waited'[t] = 0
<1>1. WheelTypeOK /\ cycle \in Cycles /\ waited \in [Active -> Nat]
  BY DEF WaitInv, FlightInv, WheelTypeOK, Cycles
<1>2. waited'[t] = IF stalled THEN waited[t] + 1 ELSE 0
  BY <1>1
<1>3. ASSUME stalled
      PROVE  WaitsFor(t, depth)'
  <2>1. cycle # Slot(t, depth)
    <3>1. stalled <=> ~IsScheduled(t)
      BY AnswersWord DEF WaitInv
    <3>2. IsScheduled(t) <=> cycle = Slot(t, depth)
      BY <1>1, LetInInSlot
    <3> QED BY <1>3, <3>1, <3>2
  <2>2. PICK e \in Nat :
              /\ e >= NumThreads /\ (waited[t] + 1) * NumThreads + e <= Rotation
              /\ cycle + e \in {Slot(t, depth), Slot(t, depth) + Rotation}
    <3>1. CASE fetchStalled[t] \/ memStalled[t]
      <4>1. WaitsFor(t, depth)
        BY <3>1 DEF WaitInv, Waits, Depths
      <4> QED BY <1>1, <2>1, <4>1, NextRefusal
    <3>2. CASE ~fetchStalled[t] /\ ~memStalled[t]
      <4>1. waited[t] = 0
        BY <3>2 DEF WaitInv, Waits
      <4>2. (0 + 1) * NumThreads = NumThreads
        BY WindowLength
      <4>3. PICK e \in Nat :
              /\ e >= NumThreads /\ NumThreads + e <= Rotation
              /\ cycle + e \in {Slot(t, depth), Slot(t, depth) + Rotation}
        BY <1>1, <2>1, FirstRefusal
      <4> QED BY <4>1, <4>2, <4>3
    <3> QED BY <3>1, <3>2
  <2>3. waited'[t] * NumThreads + e + 0 <= Rotation
    <3>1. PICK p \in Nat : p = (waited[t] + 1) * NumThreads
      BY <1>1, OneRoundMore, WindowLength
    <3> QED BY <1>2, <1>3, <2>2, <3>1
  <2>4. NumThreads \in Nat \ {0} /\ e + 0 >= NumThreads
    BY <2>2, WindowLength
  <2>5. InStage(t, depth + 0)'
    BY DEF InStage, Depths
  <2>6. Waiting(t, depth, e, 0)'
    BY <2>2, <2>3, <2>4, <2>5 DEF Waiting, Slot, Asked, FirstCycle
  <2> QED BY <2>4, <2>6 DEF WaitsFor
<1> QED BY <1>2, <1>3

\* The clock brings a thread a cycle nearer to its answer.
LEMMA WaitTicks ==
    ASSUME WindowMeetsStages, WheelTypeOK, Count, NEW t \in Active, NEW depth \in Depths,
           WaitsFor(t, depth)
    PROVE  WaitsFor(t, depth)'
<1> DEFINE z == Slot(t, depth)
<1>1. NumThreads \in Nat \ {0} /\ Rotation \in Nat \ {0} /\ cycle \in Cycles /\ cycle \in Nat /\ cycle < Rotation
  BY WindowLength DEF WheelTypeOK, Cycles
<1>2. cycle' = (IF cycle + 1 = Rotation THEN 0 ELSE cycle + 1) /\ cycle' = (cycle + 1) % Rotation
      /\ UNCHANGED waited /\ Asked(depth) /\ ~Asked(depth)'
  BY <1>1, NextCycle DEF Count, Goes, Asked
<1>3. z \in Nat /\ z < Rotation
  BY <1>1, SlotInStage DEF Cycles
<1>4. PICK e \in Nat, s \in 0 .. NumThreads : Waiting(t, depth, e, s)
  BY DEF WaitsFor
<1>5. s < NumThreads
  BY <1>1, <1>2, <1>4 DEF Waiting
<1>6. e + s >= NumThreads /\ cycle + e \in {z, z + Rotation}
  BY <1>4 DEF Waiting
<1> HIDE DEF z
<1>7. e - 1 \in Nat /\ s + 1 \in 1 .. NumThreads /\ (e - 1) + (s + 1) = e + s
  BY <1>1, <1>5, <1>6
<1>8. cycle' + (e - 1) \in {z, z + Rotation}
  BY <1>1, <1>2, <1>3, <1>5, <1>6
<1>9. InStage(t, depth + (s + 1))'
  <2>1. t \in Nat /\ depth \in Nat
    BY HardwareThreads DEF Depths
  <2>2. PICK a \in Nat : a = 1 + t + (depth + s)
    BY <2>1
  <2>3. cycle' % NumThreads = (a + 1) % NumThreads
    BY <1>1, <1>2, <1>4, <2>2, DeeperNext DEF Waiting, InStage
  <2>4. a + 1 = 1 + t + (depth + (s + 1))
    BY <2>1, <2>2
  <2> QED BY <2>3, <2>4 DEF InStage
<1>10. waited'[t] * NumThreads + (e - 1) + (s + 1) <= Rotation
  <2>1. PICK p \in Nat : p = waited[t] * NumThreads
    BY OneRoundMore DEF WheelTypeOK
  <2>2. p + e + s <= Rotation
    BY <1>4, <2>1 DEF Waiting
  <2>3. p + (e - 1) + (s + 1) <= Rotation
    BY <1>7, <2>2
  <2> QED BY <1>2, <2>1, <2>3
<1>11. z = Slot(t, depth)'
  BY DEF z, Slot, FirstCycle
<1>12. Waiting(t, depth, e - 1, s + 1)'
  BY <1>2, <1>6, <1>7, <1>8, <1>9, <1>10, <1>11 DEF Waiting
<1> QED BY <1>7, <1>12 DEF WaitsFor

\* Nothing else changes what a thread waits for, unless it passes by the stage
\* in which it asks.
LEMMA WaitStays ==
    ASSUME NEW t \in Active, NEW depth \in Depths, WaitsFor(t, depth),
           UNCHANGED cycle, waited'[t] = waited[t],
           Asked(depth)' = Asked(depth) \/ (Asked(depth)' /\ ~InStage(t, depth))
    PROVE  WaitsFor(t, depth)'
<1>1. PICK e \in Nat, s \in 0 .. NumThreads : Waiting(t, depth, e, s)
  BY DEF WaitsFor
<1>2. s = NumThreads => InStage(t, depth)
  <2>1. depth \in Nat
    BY DEF Depths
  <2> QED BY <1>1, <2>1, RoundInStage DEF Waiting
<1>3. Waiting(t, depth, e, s)'
  BY <1>1, <1>2 DEF Waiting, InStage, Slot, FirstCycle
<1> QED BY <1>3 DEF WaitsFor

\* Nobody waits at the start.
LEMMA WaitInit == WheelInit => WaitInv
BY FlightInit DEF WheelInit, WaitInv, Waits

\* The stages in which no thread is answered.
LEMMA NoneAnswered ==
    ASSUME WaitInv, UNCHANGED <<cycle, fetchStalled, memStalled, waited>>,
           NEW t \in Active,
           \A depth \in Depths : Asked(depth)' = Asked(depth) \/ (Asked(depth)' /\ ~InStage(t, depth))
    PROVE  Waits(t)'
<1>1. Waits(t) /\ waited'[t] = waited[t] /\ 0 \in Depths /\ 4 \in Depths
  BY DEF WaitInv, Depths
<1> QED BY <1>1, WaitStays DEF Waits

\* A thread waits for one answer at a time.
LEMMA OneAnswer ==
    ASSUME FlightInv, NEW t \in Active
    PROVE  ~(fetchStalled[t] /\ memStalled[t]) /\ fetchStalled[t] \in BOOLEAN /\ memStalled[t] \in BOOLEAN
BY DEF FlightInv, WheelTypeOK, Stalls

\* The memory stage answers or turns away, or nobody has asked.
LEMMA WaitMem == WindowMeetsStages /\ WaitInv /\ FlightInv' /\ Mem => \A t \in Active : Waits(t)'
<1> SUFFICES ASSUME WindowMeetsStages, WaitInv, FlightInv', Mem, NEW u \in Active
             PROVE  Waits(u)'
  OBVIOUS
<1>1. UNCHANGED <<cycle, inst, fetchStalled, dma>> /\ stage = "mem" /\ stage' = "fetch"
  BY DEF Mem, Goes
<1>2. ~Asked(4) /\ Asked(4)' /\ ~Asked(0) /\ ~Asked(0)'
  BY <1>1 DEF Asked
<1>3. memStalled[u] => (InStage(u, 4) => AsksForData(u))
  BY DEF WaitInv, FlightInv, Stalls, AsksForData
<1>4. ASSUME NEW t \in Active, NEW stalled \in BOOLEAN, AsksForData(t), IsStalled(t, 1, stalled),
             memStalled' = [memStalled EXCEPT ![t] = stalled],
             waited' = [waited EXCEPT ![t] = IF stalled THEN @ + 1 ELSE 0]
      PROVE  Waits(u)'
  <2>1. CASE u = t
    <3>1. InStage(t, 4) /\ ~fetchStalled[t] /\ 4 \in Depths /\ 4 # 0
      BY <1>4 DEF AsksForData, Depths
    <3>2. IF stalled THEN WaitsFor(t, 4)' ELSE waited'[t] = 0
      BY <1>1, <1>2, <1>4, <3>1, AskAndWait
    <3>3. memStalled'[t] = stalled
      BY <1>4 DEF WaitInv, FlightInv, WheelTypeOK
    <3> QED BY <1>1, <2>1, <3>1, <3>2, <3>3 DEF Waits
  <2>2. CASE u # t
    <3>1. memStalled'[u] = memStalled[u] /\ waited'[u] = waited[u] /\ fetchStalled'[u] = fetchStalled[u]
      BY <1>1, <1>4, <2>2 DEF WaitInv, FlightInv, WheelTypeOK
    <3>2. ~InStage(u, 4)
      <4>1. InStage(t, 4)
        BY <1>4 DEF AsksForData
      <4> QED BY <2>2, <4>1, OneInStage
    <3>3. WaitsFor(u, 0) => WaitsFor(u, 0)'
      <4>1. Asked(0)' = Asked(0) /\ 0 \in Depths
        BY <1>1 DEF Asked, Depths
      <4> QED BY <1>1, <3>1, <4>1, WaitStays
    <3>4. WaitsFor(u, 4) => WaitsFor(u, 4)'
      <4>1. 4 \in Depths
        BY DEF Depths
      <4> QED BY <1>1, <1>2, <3>1, <3>2, <4>1, WaitStays
    <3> QED BY <3>1, <3>3, <3>4 DEF WaitInv, Waits
  <2> QED BY <2>1, <2>2
<1>5. ASSUME \A t \in Active : ~AsksForData(t), UNCHANGED <<wheel, memStalled, waited>>
      PROVE  Waits(u)'
  <2>1. WaitsFor(u, 0) => WaitsFor(u, 0)'
    <3>1. Asked(0)' = Asked(0) /\ 0 \in Depths
      BY <1>1 DEF Asked, Depths
    <3> QED BY <1>1, <1>5, <3>1, WaitStays
  <2>2. memStalled[u] /\ WaitsFor(u, 4) => WaitsFor(u, 4)'
    <3>1. 4 \in Depths
      BY DEF Depths
    <3> QED BY <1>1, <1>2, <1>3, <1>5, <3>1, WaitStays
  <2> QED BY <1>1, <1>5, <2>1, <2>2 DEF WaitInv, Waits
<1> QED BY <1>4, <1>5 DEF Mem

\* So does the fetch stage.
LEMMA WaitFetch == WindowMeetsStages /\ WaitInv /\ FlightInv' /\ Fetch => \A t \in Active : Waits(t)'
<1> SUFFICES ASSUME WindowMeetsStages, WaitInv, FlightInv', Fetch, NEW u \in Active
             PROVE  Waits(u)'
  OBVIOUS
<1>1. UNCHANGED <<cycle, memStalled, dma>> /\ stage = "fetch" /\ stage' = "count"
  BY DEF Fetch, Goes
<1>2. ~Asked(0) /\ Asked(0)' /\ Asked(4) /\ Asked(4)' /\ 0 \in Depths /\ 4 \in Depths
  BY <1>1 DEF Asked, Depths
<1>3. Waits(u) /\ ~(fetchStalled[u] /\ memStalled[u]) /\ ~(fetchStalled'[u] /\ memStalled'[u])
  BY DEF WaitInv, FlightInv, Stalls
<1>4. ASSUME waited'[u] = waited[u], fetchStalled'[u] = fetchStalled[u], fetchStalled[u] => ~InStage(u, 0)
      PROVE  Waits(u)'
  <2>1. fetchStalled[u] /\ WaitsFor(u, 0) => WaitsFor(u, 0)'
    BY <1>1, <1>2, <1>4, WaitStays
  <2>2. WaitsFor(u, 4) => WaitsFor(u, 4)'
    <3>1. Asked(4)' = Asked(4)
      BY <1>1 DEF Asked
    <3> QED BY <1>1, <1>2, <1>4, <3>1, WaitStays
  <2> QED BY <1>1, <1>3, <1>4, <2>1, <2>2 DEF Waits
<1>5. ASSUME NEW t \in Active, InStage(t, 0), ~memStalled[t], NEW i \in Programs[t],
             fetchStalled[t] => i = inst[t], FetchInst(t, i)
      PROVE  Waits(u)'
  <2>1. CASE u # t
    <3>1. waited'[u] = waited[u] /\ fetchStalled'[u] = fetchStalled[u]
      BY <1>5, <2>1 DEF FetchInst, WaitInv, FlightInv, WheelTypeOK
    <3>2. ~InStage(u, 0)
      BY <1>5, <2>1, OneInStage
    <3> QED BY <1>4, <3>1, <3>2
  <2>2. CASE u = t /\ i.code = "main"
    <3>1. PICK stalled \in BOOLEAN :
             /\ IsStalled(t, 1, stalled)
             /\ fetchStalled' = [fetchStalled EXCEPT ![t] = stalled]
             /\ waited' = [waited EXCEPT ![t] = IF stalled THEN @ + 1 ELSE 0]
      BY <1>5, <2>2 DEF FetchInst
    <3>2. IF stalled THEN WaitsFor(t, 0)' ELSE waited'[t] = 0
      BY <1>1, <1>2, <1>5, <3>1, AskAndWait
    <3>3. fetchStalled'[t] = stalled
      BY <3>1 DEF WaitInv, FlightInv, WheelTypeOK
    <3>4. ~memStalled'[t]
      BY <1>1, <1>5
    <3> QED BY <2>2, <3>2, <3>3, <3>4 DEF Waits
  <2>3. CASE u = t /\ i.code # "main"
    <3>1. ~fetchStalled[t]
      BY <1>5, <2>3 DEF WaitInv, FlightInv, Stalls
    <3>2. fetchStalled' = [fetchStalled EXCEPT ![t] = FALSE] /\ UNCHANGED waited
      BY <1>5, <2>3 DEF FetchInst
    <3>3. ~fetchStalled'[t] /\ ~memStalled'[t] /\ waited'[t] = 0
      BY <1>1, <1>3, <1>5, <2>3, <3>1, <3>2 DEF WaitInv, FlightInv, WheelTypeOK, Waits
    <3> QED BY <2>3, <3>3 DEF Waits
  <2> QED BY <2>1, <2>2, <2>3
<1>6. ASSUME \A t \in Active : InStage(t, 0) => memStalled[t], UNCHANGED <<wheel, inst, fetchStalled, waited>>
      PROVE  Waits(u)'
  <2>1. fetchStalled[u] => ~InStage(u, 0)
    BY <1>3, <1>6
  <2> QED BY <1>4, <1>6, <2>1
<1> QED BY <1>5, <1>6 DEF Fetch

\* Every call of a cycle keeps the bound.
LEMMA WaitStep == WindowMeetsStages /\ WaitInv /\ [WheelNext]_wheelVars => WaitInv'
<1> SUFFICES ASSUME WindowMeetsStages, WaitInv, [WheelNext]_wheelVars
             PROVE  WaitInv'
  OBVIOUS
<1>1. FlightInv'
  BY FlightStep DEF WaitInv
<1> SUFFICES ASSUME NEW u \in Active
             PROVE  Waits(u)'
  BY <1>1 DEF WaitInv
<1>2. CASE Except \/ Memory \/ Dma
  <2>1. UNCHANGED <<cycle, fetchStalled, memStalled, waited>>
        /\ stage \in {"except", "memory", "dma"} /\ stage' \in {"memory", "dma", "mem"}
    BY <1>2 DEF Except, Memory, Dma, Goes
  <2>2. \A depth \in Depths : Asked(depth)' = Asked(depth)
    BY <2>1 DEF Asked, Depths
  <2> QED BY <2>1, <2>2, NoneAnswered
<1>3. CASE Mem
  BY <1>1, <1>3, WaitMem
<1>4. CASE Fetch
  BY <1>1, <1>4, WaitFetch
<1>5. CASE Count
  <2>1. UNCHANGED <<fetchStalled, memStalled, waited>>
    BY <1>5 DEF Count
  <2>2. WheelTypeOK /\ Waits(u) /\ 0 \in Depths /\ 4 \in Depths
    BY DEF WaitInv, FlightInv, Depths
  <2>3. WaitsFor(u, 0) => WaitsFor(u, 0)'
    BY <1>5, <2>2, WaitTicks
  <2>4. WaitsFor(u, 4) => WaitsFor(u, 4)'
    BY <1>5, <2>2, WaitTicks
  <2> QED BY <2>1, <2>2, <2>3, <2>4 DEF Waits
<1>6. CASE UNCHANGED wheelVars
  <2>1. \A depth \in Depths : Asked(depth)' = Asked(depth)
    BY <1>6 DEF wheelVars, Asked
  <2> QED BY <1>6, <2>1, NoneAnswered DEF wheelVars
<1> QED BY <1>2, <1>3, <1>4, <1>5, <1>6 DEF WheelNext

\* Who is turned away is so for less than a rotation.
LEMMA WaitBounded == WaitInv => BoundedWait
<1> SUFFICES ASSUME WaitInv
             PROVE  BoundedWait
  OBVIOUS
<1>1. WheelTypeOK
  BY DEF WaitInv, FlightInv
<1>2. ASSUME NEW t \in Active
      PROVE  waited[t] * NumThreads < Rotation
  <2>1. NumThreads \in Nat \ {0} /\ Rotation \in Nat \ {0}
    BY WindowLength
  <2>2. CASE waited[t] = 0
    <3>1. 0 * NumThreads = 0
      BY <2>1
    <3> QED BY <2>1, <2>2, <3>1
  <2>3. CASE fetchStalled[t] \/ memStalled[t]
    <3>1. PICK depth \in Depths, e \in Nat, s \in 0 .. NumThreads : Waiting(t, depth, e, s)
      BY <2>3 DEF WaitInv, Waits, WaitsFor, Depths
    <3>2. PICK p \in Nat : p = waited[t] * NumThreads
      BY <1>1, OneRoundMore DEF WheelTypeOK
    <3> QED BY <2>1, <3>1, <3>2 DEF Waiting
  <2> QED BY <1>1, <2>2, <2>3 DEF WaitInv, Waits, WheelTypeOK
<1> QED BY <1>1, <1>2 DEF BoundedWait

\* is_scheduled turns no request away for as long as a rotation.
THEOREM WaitIsBounded == WindowMeetsStages => (WheelSpec => []BoundedWait)
<1> SUFFICES ASSUME WindowMeetsStages
             PROVE  WheelSpec => []BoundedWait
  OBVIOUS
<1>1. WaitInv /\ [WheelNext]_wheelVars => WaitInv'
  BY WaitStep
<1> QED BY <1>1, WaitInit, WaitBounded, PTL DEF WheelSpec
=============================================================================
