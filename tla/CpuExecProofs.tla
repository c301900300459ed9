--------------------------- MODULE CpuExecProofs ---------------------------
(***************************************************************************)
(* Proofs about CpuExec, for any number of CPUs, any lengths of their      *)
(* cycles, instructions and slices, and without the bound on the lag.      *)
(*                                                                         *)
(* The argument about time: when a CPU is given cycles it comes within     *)
(* half a cycle of the target (Rounding), and when it cuts the slice short *)
(* the target comes down to it, so at the end every CPU is at the target   *)
(* but for half a cycle, and no timer is overdue by more than the          *)
(* instruction that set it.  The argument about the lines follows from     *)
(* it: CPU 1 runs no further before the timer it has set has fired, so no  *)
(* two of its line changes are ever pending together.                      *)
(***************************************************************************)
EXTENDS CpuExec, SequenceFacts, TLAPS

-----------------------------------------------------------------------------
TimerRec == [at : Int, act : LineAct \cup {"timeslice", "trigger"}, cpu : 0 .. CpuCount]

Sorted(a) == \A i, j \in DOMAIN a : i < j => a[i].at <= a[j].at

SliceTypes ==
  /\ localtime \in [CPU -> Int]
  /\ target \in 0 .. SlicePeriod
  /\ cur \in 0 .. CpuCount + 1
  /\ left \in Nat
  /\ ran \in Nat

SuspTypes ==
  /\ suspend \in [CPU -> SUBSET Reason]
  /\ nextsuspend \in [CPU -> SUBSET Reason]
  /\ eatcycles \in [CPU -> BOOLEAN]
  /\ nexteatcycles \in [CPU -> BOOLEAN]
  /\ trigger \in [CPU -> 0 .. CpuCount]
  /\ \A c \in CPU : trigger[c] \in {0, c}
  /\ yielded \subseteq CPU
  /\ guarded \subseteq CPU
  /\ called \subseteq CPU
  /\ unreset \subseteq CPU

\* The timeslice timer is always there, and bounds the next slice.
Agenda ==
  /\ agenda \in Seq(TimerRec)
  /\ Len(agenda) <= MaxAgenda
  /\ Sorted(agenda)
  /\ \E t \in Range(agenda) : t.act = "timeslice"
  /\ \A t \in Range(agenda) :
       /\ t.act = "timeslice" => t.at <= SlicePeriod
       /\ t.act # "timeslice" => t.cpu \in CPU

\* The shape of a slice, and of the run of one CPU in it.
Slice ==
  /\ cur = 0 => target = 0
  /\ cur # 0 => target > 0
  /\ cur \notin CPU => left = 0 /\ ran = 0
  /\ left > 0 \/ ran > 0 => suspend[cur] = {}
  /\ left > 0 => ran + left = CyclesToRun(cur)

\* Where the CPUs are: those whose turn has passed are at the target, but for
\* half a cycle.
Reached ==
  \A c \in CPU \ yielded :
    /\ 2 * localtime[c] > -Cycle[c]
    /\ c < cur /\ suspend[c] = {} => 2 * (localtime[c] - target) > -Cycle[c]

\* Only a CPU that yielded is suspended without eating its cycles.
Eating ==
  \A c \in CPU \ yielded :
    /\ nextsuspend[c] # {} => nexteatcycles[c]
    /\ cur # 0 /\ suspend[c] # {} => eatcycles[c]

Now(c) == localtime[c] + ran * Cycle[c]
Span(c) == MaxCycles * Cycle[c]

\* How early the timers are, against the target and against the CPU that has
\* just set one.
OnTime ==
  yielded = {} =>
    \A t \in Range(agenda) : \E c \in CPU :
      \/ t.at >= target - Span(c)
      \/ c = cur /\ left = 0 /\ ran > 0 /\ t.at >= Now(c) - Span(c)

\* The timers of lines: one at a time, and CPU 1 is past it.
LineTimers ==
  /\ cur = 1 /\ (left > 0 \/ ran = 0) => \A t \in Range(agenda) : t.at >= target
  /\ \A t \in Range(agenda) :
       t.act \in LineAct => t.at <= IF cur = 1 THEN Now(1) ELSE localtime[1]
  /\ cur = 1 /\ left > 0 => \A t \in Range(agenda) : t.act \notin LineAct
  /\ \A s, t \in Range(agenda) : s.act \in LineAct /\ t.act \in LineAct => s = t

\* The suspension by a reset line: asked for in one batch of timers, in force
\* in the next slice, and lifted in a later batch only.
ResetLines ==
  /\ cur # 0 => \A c \in CPU : "RESET" \in nextsuspend[c] => "RESET" \in suspend[c]
  /\ \A t \in Range(agenda) :
       t.act = "clear_reset" /\ "RESET" \in nextsuspend[t.cpu]
         => "RESET" \in suspend[t.cpu]
  /\ \A c \in unreset : "RESET" \in nextsuspend[c]

\* A CPU that waits when the timers fire has been suspended for its trigger.
Waiting ==
  \A c \in CPU : "TRIGGER" \in nextsuspend[c] =>
    /\ trigger[c] = c
    /\ cur = 0 => "TRIGGER" \in suspend[c]

IInv ==
  /\ SliceTypes /\ SuspTypes
  /\ Agenda /\ OnTime /\ LineTimers
  /\ Slice /\ Reached /\ Eating
  /\ ResetLines /\ Waiting /\ WaitIsGuarded

-----------------------------------------------------------------------------
(***************************************************************************)
(* Arithmetic.                                                             *)
(***************************************************************************)

\* TIME_TO_CYCLES rounds to the nearest: what is run is within half a cycle of
\* what was asked.
LEMMA Rounding ==
  ASSUME NEW C \in Nat \ {0}, NEW t \in Int
  PROVE  LET q == (2 * t + C) \div (2 * C)
         IN  /\ q \in Int
             /\ 2 * (q * C) > 2 * t - C
             /\ 2 * (q * C) <= 2 * t + C
             /\ q > 0 <=> 2 * t >= C
             /\ t > 0 => q * C >= 0
  OBVIOUS

\* The same for the cycles of a CPU.
LEMMA CyclesFacts ==
  ASSUME SliceTypes, NEW c \in CPU
  PROVE  LET q == CyclesToRun(c)
         IN  /\ q \in Int
             /\ q * Cycle[c] \in Int
             /\ 2 * (localtime[c] + q * Cycle[c]) > 2 * target - Cycle[c]
             /\ 2 * (localtime[c] + q * Cycle[c]) <= 2 * target + Cycle[c]
             /\ q > 0 <=> 2 * (target - localtime[c]) >= Cycle[c]
             /\ localtime[c] < target => q * Cycle[c] >= 0
<1>1. Cycle[c] \in Nat \ {0} /\ localtime[c] \in Int /\ target \in Int
  BY CpuAssumption DEF SliceTypes
<1> DEFINE d == target - localtime[c]
           q == (2 * d + Cycle[c]) \div (2 * Cycle[c])
<1>2. d \in Int
  BY <1>1
<1>3. q = CyclesToRun(c)
  BY DEF CyclesToRun, TimeToCycles
<1>4. /\ q \in Int
      /\ 2 * (q * Cycle[c]) > 2 * d - Cycle[c]
      /\ 2 * (q * Cycle[c]) <= 2 * d + Cycle[c]
      /\ q > 0 <=> 2 * d >= Cycle[c]
      /\ d > 0 => q * Cycle[c] >= 0
  <2> HIDE DEF d
  <2>1. QED BY <1>1, <1>2, Rounding
<1> HIDE DEF q
<1>5. q * Cycle[c] \in Int
  BY <1>1, <1>4
<1>6. QED BY <1>1, <1>3, <1>4, <1>5

-----------------------------------------------------------------------------
(***************************************************************************)
(* The agenda.                                                             *)
(***************************************************************************)

\* What an agenda consists of.
LEMMA RecAt == \A t \in TimerRec : t.at \in Int
  BY DEF TimerRec

LEMMA AgendaElements ==
  ASSUME NEW a \in Seq(TimerRec)
  PROVE  /\ Len(a) \in Nat
         /\ DOMAIN a = 1 .. Len(a)
         /\ \A k \in 1 .. Len(a) : a[k] \in TimerRec /\ a[k].at \in Int
  BY LenProperties, ElementOfSeq, RecAt

\* Where a timer goes: behind all that are not later.
LEMMA PlaceFacts ==
  ASSUME agenda \in Seq(TimerRec), Sorted(agenda), NEW at \in Int
  PROVE  /\ PlaceOf(at) \in 1 .. Len(agenda) + 1
         /\ \A k \in 1 .. Len(agenda) : k < PlaceOf(at) <=> agenda[k].at <= at
<1> DEFINE L == Len(agenda)
           S == Later(at)
<1>1. /\ L \in Nat
      /\ DOMAIN agenda = 1 .. L
      /\ \A k \in 1 .. L : agenda[k] \in TimerRec /\ agenda[k].at \in Int
  BY AgendaElements
<1>2. S = {k \in 1 .. L : agenda[k].at > at}
  BY <1>1 DEF Later
<1>3. PlaceOf(at) = L + 1 - Cardinality(S)
  BY DEF PlaceOf
<1> HIDE DEF L, S
<1>4. CASE S = {}
  <2>1. PlaceOf(at) = L + 1
    BY <1>1, <1>3, <1>4, FS_EmptySet
  <2>2. QED BY <2>1, <1>1, <1>2, <1>4 DEF L
<1>5. CASE S # {}
  <2>0. S \subseteq Nat
    BY <1>1, <1>2
  <2>1. PICK p \in S : \A k \in S : p <= k
    BY <2>0, <1>5, NatMin
  <2>2. S = p .. L
    <3>1. p \in 1 .. L /\ agenda[p].at > at
      BY <2>1, <1>2
    <3>2. ASSUME NEW k \in p .. L PROVE k \in S
      <4>1. k \in 1 .. L /\ agenda[p].at <= agenda[k].at
        BY <3>1, <1>1 DEF Sorted
      <4>2. QED BY <4>1, <3>1, <1>1, <1>2
    <3>3. S \subseteq p .. L
      BY <2>1, <1>1, <1>2
    <3>4. QED BY <3>2, <3>3
  <2>3. Cardinality(S) = L - p + 1
    BY <2>1, <2>2, <1>1, <1>2, FS_Interval
  <2>4. PlaceOf(at) = p
    BY <2>1, <2>3, <1>1, <1>2, <1>3
  <2>5. QED BY <2>1, <2>2, <2>4, <1>1, <1>2 DEF L
<1>6. QED BY <1>4, <1>5

\* What setting a timer does to the agenda.
LEMMA PutFacts ==
  ASSUME agenda \in Seq(TimerRec), Sorted(agenda), NEW t \in TimerRec,
         NEW a, a = Put(agenda, PlaceOf(t.at), t)
  PROVE  /\ a \in Seq(TimerRec)
         /\ Len(a) = Len(agenda) + 1
         /\ Sorted(a)
         /\ Range(a) = Range(agenda) \cup {t}
         /\ PlaceOf(t.at) # 1 <=> agenda # <<>> /\ agenda[1].at <= t.at
         /\ PlaceOf(t.at) # 1 => a # <<>> /\ a[1] = agenda[1]
<1> DEFINE L == Len(agenda)
           p == PlaceOf(t.at)
<1>1. /\ L \in Nat
      /\ DOMAIN agenda = 1 .. L
      /\ \A k \in 1 .. L : agenda[k] \in TimerRec /\ agenda[k].at \in Int
      /\ t.at \in Int
  BY AgendaElements, RecAt
<1>2. /\ p \in 1 .. L + 1
      /\ \A k \in 1 .. L : k < p <=> agenda[k].at <= t.at
  BY <1>1, PlaceFacts
<1> HIDE DEF p
<1>3. /\ a \in Seq(TimerRec)
      /\ Len(a) = L + 1
      /\ a[p] = t
      /\ \A j \in 1 .. L + 1 :
           /\ j < p => a[j] = agenda[j]
           /\ j > p => a[j] = agenda[j - 1]
  <2>1. a = InsertAt(agenda, p, t)
    BY DEF Put, p
  <2>2. QED BY <2>1, <1>2, InsertAtFacts
<1>4. DOMAIN a = 1 .. L + 1
  BY <1>3, LenProperties
<1> HIDE DEF L
<1>5. Sorted(a)
  <2> SUFFICES ASSUME NEW i \in 1 .. L + 1, NEW j \in 1 .. L + 1, i < j
               PROVE  a[i].at <= a[j].at
    BY <1>4 DEF Sorted
  <2>1. CASE j < p
    <3>1. i \in 1 .. L /\ j \in 1 .. L
      BY <2>1, <1>1, <1>2
    <3>2. a[i] = agenda[i] /\ a[j] = agenda[j]
      BY <2>1, <1>1, <1>2, <1>3
    <3>3. QED BY <3>1, <3>2, <1>1 DEF Sorted
  <2>2. CASE j = p
    BY <2>2, <1>1, <1>2, <1>3
  <2>3. CASE i = p
    <3>1. j - 1 \in 1 .. L /\ ~(j - 1 < p) /\ a[j] = agenda[j - 1]
      BY <2>3, <1>1, <1>2, <1>3
    <3>2. QED BY <3>1, <2>3, <1>1, <1>2, <1>3
  <2>4. CASE i < p /\ j > p
    <3>1. j - 1 \in 1 .. L /\ i \in 1 .. L /\ i < j - 1
      BY <2>4, <1>1, <1>2
    <3>2. a[i] = agenda[i] /\ a[j] = agenda[j - 1]
      BY <2>4, <1>3
    <3>3. QED BY <3>1, <3>2, <1>1 DEF Sorted
  <2>5. CASE i > p
    <3>1. j - 1 \in 1 .. L /\ i - 1 \in 1 .. L /\ i - 1 < j - 1 /\ j > p
      BY <2>5, <1>1, <1>2
    <3>2. a[i] = agenda[i - 1] /\ a[j] = agenda[j - 1]
      BY <3>1, <2>5, <1>3
    <3>3. QED BY <3>1, <3>2, <1>1 DEF Sorted
  <2>6. QED BY <2>1, <2>2, <2>3, <2>4, <2>5, <1>1, <1>2
<1>6. Range(a) = Range(agenda) \cup {t}
  <2>1. ASSUME NEW j \in 1 .. L + 1 PROVE a[j] \in Range(agenda) \cup {t}
    <3>1. CASE j < p
      <4>1. j \in 1 .. L /\ a[j] = agenda[j]
        BY <3>1, <1>1, <1>2, <1>3
      <4>2. QED BY <4>1, <1>1 DEF Range
    <3>2. CASE j > p
      <4>1. j - 1 \in 1 .. L /\ a[j] = agenda[j - 1]
        BY <3>2, <1>1, <1>2, <1>3
      <4>2. QED BY <4>1, <1>1 DEF Range
    <3>3. QED BY <3>1, <3>2, <1>1, <1>2, <1>3
  <2>2. ASSUME NEW j \in 1 .. L PROVE agenda[j] \in Range(a)
    <3>1. CASE j < p
      <4>1. j \in 1 .. L + 1 /\ a[j] = agenda[j]
        BY <3>1, <1>1, <1>3
      <4>2. QED BY <4>1, <1>4 DEF Range
    <3>2. CASE ~(j < p)
      <4>1. j + 1 \in 1 .. L + 1 /\ j + 1 > p /\ (j + 1) - 1 = j
        BY <3>2, <1>1, <1>2
      <4>2. a[j + 1] = agenda[j]
        BY <4>1, <1>3
      <4>3. QED BY <4>1, <4>2, <1>4 DEF Range
    <3>3. QED BY <3>1, <3>2
  <2>3. t \in Range(a)
    BY <1>2, <1>3, <1>4 DEF Range
  <2>4. QED BY <2>1, <2>2, <2>3, <1>1, <1>4 DEF Range
<1>7. p # 1 <=> agenda # <<>> /\ agenda[1].at <= t.at
  <2>1. agenda # <<>> <=> L > 0
    BY <1>1, EmptySeq, LenProperties DEF L
  <2>2. QED BY <2>1, <1>1, <1>2
<1>8. p # 1 => a # <<>> /\ a[1] = agenda[1]
  <2>1. 1 \in DOMAIN a
    BY <1>1, <1>4
  <2>2. QED BY <2>1, <1>1, <1>2, <1>3
<1>9. QED BY <1>3, <1>5, <1>6, <1>7, <1>8 DEF L, p

\* The head is the earliest.
LEMMA HeadFacts ==
  ASSUME NEW a \in Seq(TimerRec), Sorted(a), a # <<>>
  PROVE  /\ Head(a) = a[1]
         /\ Head(a) \in Range(a)
         /\ \A t \in Range(a) : t \in TimerRec /\ Head(a).at <= t.at
<1>1. /\ Len(a) \in Nat \ {0}
      /\ DOMAIN a = 1 .. Len(a)
      /\ \A k \in 1 .. Len(a) : a[k] \in TimerRec /\ a[k].at \in Int
      /\ Head(a) = a[1]
  BY AgendaElements, EmptySeq, HeadTailProperties
<1>2. \A k \in 1 .. Len(a) : a[1].at <= a[k].at
  BY <1>1 DEF Sorted
<1>3. QED BY <1>1, <1>2 DEF Range

\* Firing the head keeps the others.
LEMMA TailFacts ==
  ASSUME NEW a \in Seq(TimerRec), Sorted(a), a # <<>>, NEW b, b = Tail(a)
  PROVE  /\ b \in Seq(TimerRec)
         /\ Len(b) = Len(a) - 1
         /\ Sorted(b)
         /\ Range(b) \subseteq Range(a)
         /\ Range(a) \subseteq Range(b) \cup {Head(a)}
<1>1. /\ b \in Seq(TimerRec)
      /\ Len(a) \in Nat \ {0}
      /\ Len(b) = Len(a) - 1
      /\ \A k \in 1 .. Len(b) : b[k] = a[k + 1]
      /\ Head(a) = a[1]
      /\ DOMAIN a = 1 .. Len(a)
  BY LenProperties, EmptySeq, HeadTailProperties
<1>2. DOMAIN b = 1 .. Len(a) - 1
  BY <1>1, LenProperties
<1>3. \A k \in 1 .. Len(a) - 1 : k + 1 \in DOMAIN a /\ b[k] = a[k + 1]
  BY <1>1
<1>4. Sorted(b)
  BY <1>1, <1>2, <1>3 DEF Sorted
<1>5. Range(b) \subseteq Range(a)
  BY <1>2, <1>3 DEF Range
<1>6. ASSUME NEW k \in DOMAIN a, k # 1 PROVE a[k] \in Range(b)
  <2>1. k - 1 \in DOMAIN b /\ (k - 1) + 1 = k
    BY <1>1, <1>2, <1>6
  <2>2. b[k - 1] = a[k]
    BY <2>1, <1>2, <1>3
  <2>3. QED BY <2>1, <2>2 DEF Range
<1>7. QED BY <1>1, <1>4, <1>5, <1>6 DEF Range

-----------------------------------------------------------------------------
(***************************************************************************)
(* Instructions.                                                           *)
(***************************************************************************)

LEMMA Product ==
  ASSUME NEW C \in Nat \ {0}, NEW a \in Nat, NEW b \in Nat
  PROVE  /\ a * C \in Nat
         /\ (a + b) * C = a * C + b * C
         /\ b > 0 => b * C >= C
         /\ a <= b => a * C <= b * C
  OBVIOUS

\* An instruction moves the local time on, by no more than the longest one;
\* while the CPU has cycles left it has not reached the target.
LEMMA InstructionFacts ==
  ASSUME IInv, NEW n \in 1 .. MaxCycles, NEW ends \in BOOLEAN, Instruction(n, ends)
  PROVE  /\ cur \in CPU /\ cur # 0 /\ left > 0 /\ suspend[cur] = {}
         /\ UNCHANGED <<localtime, target, cur>>
         /\ SliceTypes'
         /\ ran' > 0
         /\ Now(cur) \in Int /\ Now(cur)' \in Int
         /\ Now(cur) <= Now(cur)'
         /\ Now(cur)' - Span(cur) <= Now(cur)
         /\ left' > 0 => ~ends /\ ran' + left' = ran + left /\ Now(cur)' < target
<1>1. /\ cur \in CPU /\ cur # 0 /\ left > 0 /\ suspend[cur] = {}
      /\ UNCHANGED <<localtime, target, cur>>
  BY CpuAssumption DEF IInv, Slice, Instruction, CPU, SliceTypes
<1> DEFINE C == Cycle[cur]
<1>2. C \in Nat \ {0} /\ MaxCycles \in Nat /\ n \in Nat /\ n <= MaxCycles /\ n > 0
  BY <1>1, CpuAssumption
<1>3. left \in Nat /\ ran \in Nat /\ localtime[cur] \in Int /\ target \in Int
  BY <1>1 DEF IInv, SliceTypes
<1>4. /\ left' \in Nat /\ ran' = ran + n /\ ran' \in Nat /\ ran' > 0
      /\ left' > 0 => ~ends /\ left' = left - n /\ ran' + left' = ran + left
  BY <1>2, <1>3 DEF Instruction
<1>5. SliceTypes'
  BY <1>1, <1>4 DEF IInv, SliceTypes
<1>6. /\ ran * C \in Nat /\ n * C \in Nat
      /\ (ran + n) * C = ran * C + n * C
      /\ n * C <= MaxCycles * C
  BY <1>2, <1>3, Product
<1>7. /\ Now(cur) = localtime[cur] + ran * C
      /\ Now(cur)' = localtime[cur] + (ran + n) * C
      /\ Span(cur) = MaxCycles * C
      /\ Span(cur) \in Int
  <2>1. MaxCycles * C \in Nat
    BY <1>2, Product
  <2>2. QED BY <2>1, <1>1, <1>4 DEF Now, Span
<1>8. ASSUME left' > 0 PROVE Now(cur)' < target
  <2>1. ran' + left' = CyclesToRun(cur)
    BY <1>4, <1>8 DEF IInv, Slice, Instruction
  <2>2. 2 * (localtime[cur] + (ran' + left') * C) <= 2 * target + C
    BY <2>1, <1>1, CyclesFacts DEF IInv
  <2>3. (ran' + left') * C = ran' * C + left' * C /\ left' * C >= C /\ ran' * C \in Nat
        /\ left' * C \in Nat
    BY <1>2, <1>4, <1>8, Product
  <2>4. Now(cur)' = localtime[cur] + ran' * C
    BY <1>4, <1>7
  <2> HIDE DEF C
  <2>5. QED BY <2>2, <2>3, <2>4, <1>2, <1>3
<1>9. /\ Now(cur) \in Int /\ Now(cur)' \in Int
      /\ Now(cur) <= Now(cur)'
      /\ Now(cur)' - Span(cur) <= Now(cur)
  <2> HIDE DEF C
  <2>1. QED BY <1>3, <1>6, <1>7
<1>10. QED BY <1>1, <1>4, <1>5, <1>8, <1>9

\* While a CPU has cycles left, no timer is early with regard to the target.
LEMMA BeforeTheEnd ==
  ASSUME IInv, left > 0, yielded = {}, NEW t \in Range(agenda)
  PROVE  \E c \in CPU : t.at >= target - Span(c)
BY DEF IInv, OnTime, SliceTypes

\* An instruction that sets no timer.
LEMMA QuietInstruction ==
  ASSUME IInv, NEW n \in 1 .. MaxCycles, NEW ends \in BOOLEAN, Instruction(n, ends),
         UNCHANGED <<suspend, agenda>>, yielded \subseteq yielded'
  PROVE  /\ SliceTypes' /\ Slice' /\ Reached'
         /\ Agenda' /\ OnTime' /\ LineTimers'
<1>1. /\ cur \in CPU /\ cur # 0 /\ left > 0 /\ suspend[cur] = {}
      /\ UNCHANGED <<localtime, target, cur>>
      /\ SliceTypes'
      /\ ran' > 0
      /\ left' > 0 => ran' + left' = ran + left
  BY InstructionFacts
<1>2. Slice'
  BY <1>1 DEF IInv, Slice, CyclesToRun
<1>3. Reached'
  BY <1>1 DEF IInv, Reached
<1>4. Agenda'
  BY DEF IInv, Agenda
<1>5. OnTime'
  <2> SUFFICES ASSUME yielded' = {}, NEW t \in Range(agenda)
               PROVE  \E c \in CPU : t.at >= target - Span(c)
    BY <1>1 DEF OnTime, Span
  <2>1. yielded = {}
    OBVIOUS
  <2>2. QED BY <2>1, <1>1, BeforeTheEnd
<1>6. LineTimers'
  <2>1. ran' # 0
    BY <1>1 DEF SliceTypes
  <2>2. QED BY <1>1, <2>1 DEF IInv, LineTimers
<1>7. QED BY <1>1, <1>2, <1>3, <1>4, <1>5, <1>6

\* An instruction that sets a timer: it ends the run if the timer becomes the
\* first, so a CPU that runs on has set it for the target or later.
LEMMA TimerInstruction ==
  ASSUME IInv, NEW n \in 1 .. MaxCycles, NEW ends \in BOOLEAN, Instruction(n, ends),
         UNCHANGED suspend, yielded \subseteq yielded',
         NEW t \in TimerRec, t.act # "timeslice", t.cpu \in CPU,
         Len(agenda) < MaxAgenda,
         agenda' = Put(agenda, PlaceOf(t.at), t),
         t.at >= Now(cur),
         PlaceOf(t.at) = 1 => ends,
         t.act \in LineAct => cur = 1 /\ t.at <= Now(cur)'
  PROVE  /\ SliceTypes' /\ Slice' /\ Reached'
         /\ Agenda' /\ OnTime' /\ LineTimers'
         /\ Range(agenda') = Range(agenda) \cup {t}
<1>1. /\ cur \in CPU /\ cur # 0 /\ left > 0 /\ suspend[cur] = {}
      /\ UNCHANGED <<localtime, target, cur>>
      /\ SliceTypes'
      /\ ran' > 0
      /\ left' > 0 => ran' + left' = ran + left
  BY InstructionFacts
<1>2. /\ Now(cur) \in Int /\ Now(cur)' \in Int
      /\ Now(cur)' - Span(cur) <= Now(cur)
      /\ left' > 0 => ~ends /\ Now(cur)' < target
  BY InstructionFacts
<1>3. /\ t.at \in Int /\ target \in Int /\ Len(agenda) \in Nat /\ MaxAgenda \in Nat
      /\ agenda \in Seq(TimerRec)
  BY AgendaElements, RecAt, CpuAssumption DEF IInv, Agenda, SliceTypes
<1>4. Span(cur) \in Int
  BY <1>1, CpuAssumption DEF Span
<1>5. /\ agenda' \in Seq(TimerRec)
      /\ Len(agenda') = Len(agenda) + 1
      /\ Sorted(agenda')
      /\ Range(agenda') = Range(agenda) \cup {t}
      /\ PlaceOf(t.at) # 1 => agenda # <<>> /\ agenda[1].at <= t.at
  BY PutFacts DEF IInv, Agenda
<1>6. ASSUME left' > 0 PROVE agenda[1] \in Range(agenda) /\ agenda[1].at <= t.at
                             /\ agenda[1].at \in Int
  <2>1. agenda # <<>> /\ agenda[1].at <= t.at
    BY <1>2, <1>5, <1>6
  <2>2. Head(agenda) = agenda[1] /\ Head(agenda) \in Range(agenda) /\ Head(agenda) \in TimerRec
    BY <2>1, HeadFacts DEF IInv, Agenda
  <2>3. QED BY <2>1, <2>2, RecAt
<1>7. Slice'
  BY <1>1 DEF IInv, Slice, CyclesToRun
<1>8. Reached'
  BY <1>1 DEF IInv, Reached
<1>9. Agenda'
  BY <1>3, <1>5 DEF IInv, Agenda
<1>10. left' \in Nat /\ ran' \in Nat
  BY <1>1 DEF SliceTypes
<1>11. OnTime'
  <2>1. ASSUME yielded' = {}, NEW s \in Range(agenda)
        PROVE  \E c \in CPU : s.at >= target - Span(c)
    BY <2>1, <1>1, BeforeTheEnd
  <2>2. ASSUME yielded' = {}, left' > 0
        PROVE  \E c \in CPU : t.at >= target - Span(c)
    <3>1. PICK c \in CPU : agenda[1].at >= target - Span(c)
      BY <2>1, <2>2, <1>6
    <3>2. Span(c) \in Int
      BY CpuAssumption DEF Span
    <3>3. QED BY <3>1, <3>2, <2>2, <1>3, <1>6
  <2>3. ASSUME left' = 0 PROVE t.at >= Now(cur)' - Span(cur)
    BY <1>2, <1>3, <1>4
  <2>4. ASSUME yielded' = {}, NEW s \in Range(agenda')
        PROVE  \E c \in CPU : \/ s.at >= target - Span(c)
                              \/ c = cur /\ left' = 0 /\ ran' > 0 /\ s.at >= Now(cur)' - Span(c)
    <3>1. CASE s \in Range(agenda)
      BY <3>1, <2>1, <2>4
    <3>2. CASE s = t /\ left' > 0
      BY <3>2, <2>2, <2>4
    <3>3. CASE s = t /\ left' = 0
      BY <3>3, <2>3, <1>1
    <3>4. QED BY <3>1, <3>2, <3>3, <1>5, <1>10
  <2>5. \A c : Span(c)' = Span(c)
    BY DEF Span
  <2>6. cur' = cur /\ target' = target
    BY <1>1
  <2>7. QED BY <2>4, <2>5, <2>6, <1>1 DEF OnTime, Now
<1>12. LineTimers'
  <2>1. ASSUME cur = 1, left' > 0 PROVE t.at >= target /\ t.act \notin LineAct
    <3>1. agenda[1].at >= target
      BY <2>1, <1>1, <1>6 DEF IInv, LineTimers
    <3>2. QED BY <3>1, <2>1, <1>2, <1>3, <1>6
  <2>2. ASSUME t.act \in LineAct, NEW s \in Range(agenda) PROVE s.act \notin LineAct
    BY <2>2, <1>1 DEF IInv, LineTimers
  <2>3. ASSUME NEW s \in Range(agenda'), s.act \in LineAct
        PROVE  s.at <= IF cur = 1 THEN Now(1)' ELSE localtime[1]
    <3>1. CASE s = t
      BY <3>1, <2>3, <1>1 DEF Now
    <3>2. CASE s \in Range(agenda)
      BY <3>2, <2>3, <1>1 DEF IInv, LineTimers
    <3>3. QED BY <3>1, <3>2, <1>5
  <2>4. ran' # 0
    BY <1>1, <1>10
  <2>5. cur = 1 /\ left' > 0 =>
          \A s \in Range(agenda') : s.at >= target /\ s.act \notin LineAct
    BY <2>1, <1>1, <1>5 DEF IInv, LineTimers
  <2>6. \A s, u \in Range(agenda') : s.act \in LineAct /\ u.act \in LineAct => s = u
    BY <2>2, <1>5 DEF IInv, LineTimers
  <2>7. QED BY <2>3, <2>4, <2>5, <2>6, <1>1 DEF LineTimers, Now
<1>13. QED BY <1>1, <1>5, <1>7, <1>8, <1>9, <1>11, <1>12

-----------------------------------------------------------------------------
(***************************************************************************)
(* Suspensions.  Calm is what the calls that suspend and resume CPUs for   *)
(* SPIN, TRIGGER and HALT leave as it is: the resets, and a CPU that waits *)
(* has its own trigger.                                                    *)
(***************************************************************************)
Calm ==
  /\ SuspTypes' /\ Eating'
  /\ \A c \in CPU : "RESET" \in nextsuspend'[c] <=> "RESET" \in nextsuspend[c]
  /\ \A c \in CPU : "TRIGGER" \in nextsuspend'[c] => trigger'[c] = c
  /\ unreset' = unreset

\* Nobody waits who did not wait before, or only CPU c.
NoNewWait == \A c \in CPU : "TRIGGER" \in nextsuspend'[c] => "TRIGGER" \in nextsuspend[c]

LEMMA SuspendFacts ==
  ASSUME IInv, NEW c \in CPU, NEW r \in Reason \ {"RESET", "TRIGGER"},
         \/ CpunumSuspend(c, r, TRUE)
         \/ CpunumResume(c, r) /\ UNCHANGED <<nexteatcycles, yielded>>,
         UNCHANGED <<cur, suspend, eatcycles, trigger, guarded, called, unreset>>
  PROVE  Calm /\ NoNewWait /\ yielded' = yielded
<1>1. /\ nextsuspend' \in [CPU -> SUBSET Reason]
      /\ nexteatcycles' \in [CPU -> BOOLEAN]
      /\ yielded' = yielded
  <2>1. CASE CpunumSuspend(c, r, TRUE)
    BY <2>1 DEF IInv, SuspTypes, CpunumSuspend
  <2>2. CASE CpunumResume(c, r) /\ UNCHANGED <<nexteatcycles, yielded>>
    BY <2>2 DEF IInv, SuspTypes, CpunumResume
  <2>3. QED BY <2>1, <2>2
<1>2. \A d \in CPU : /\ "RESET" \in nextsuspend'[d] <=> "RESET" \in nextsuspend[d]
                     /\ "TRIGGER" \in nextsuspend'[d] <=> "TRIGGER" \in nextsuspend[d]
  BY DEF IInv, SuspTypes, CpunumSuspend, CpunumResume
<1>3. SuspTypes'
  BY <1>1 DEF IInv, SuspTypes
<1>4. ASSUME NEW d \in CPU \ yielded, nextsuspend'[d] # {} PROVE nexteatcycles'[d]
  <2>1. CASE CpunumSuspend(c, r, TRUE)
    BY <2>1, <1>4 DEF IInv, SuspTypes, Eating, CpunumSuspend
  <2>2. CASE CpunumResume(c, r) /\ UNCHANGED <<nexteatcycles, yielded>>
    BY <2>2, <1>4 DEF IInv, SuspTypes, Eating, CpunumResume
  <2>3. QED BY <2>1, <2>2
<1>5. Eating'
  BY <1>1, <1>4 DEF IInv, Eating
<1>6. QED BY <1>1, <1>2, <1>3, <1>5 DEF IInv, Waiting, Calm, NoNewWait

\* cpu_trigger only lifts waits.
LEMMA TriggerFacts ==
  ASSUME IInv, NEW t \in CPU, CpuTrigger(t),
         UNCHANGED <<cur, yielded, guarded, unreset>>
  PROVE  /\ Calm /\ NoNewWait
         /\ suspend' = suspend
         /\ \A c \in CPU : suspend[c] # {} /\ trigger[c] = t
                             => "TRIGGER" \notin nextsuspend'[c]
<1> DEFINE woken == {c \in CPU : suspend[c] # {} /\ trigger[c] = t}
<1>1. /\ nextsuspend' = [c \in CPU |-> IF c \in woken THEN nextsuspend[c] \ {"TRIGGER"}
                                                      ELSE nextsuspend[c]]
      /\ trigger' = [c \in CPU |-> IF c \in woken THEN 0 ELSE trigger[c]]
      /\ called' \subseteq called \cup CPU
      /\ UNCHANGED <<suspend, eatcycles, nexteatcycles>>
  BY DEF CpuTrigger
<1> HIDE DEF woken
<1>2. nextsuspend' \in [CPU -> SUBSET Reason]
  BY <1>1 DEF IInv, SuspTypes
<1>3. trigger' \in [CPU -> 0 .. CpuCount] /\ \A c \in CPU : trigger'[c] \in {0, c}
  <2>1. 0 \in 0 .. CpuCount
    BY CpuAssumption
  <2>2. QED BY <2>1, <1>1 DEF IInv, SuspTypes
<1>4. SuspTypes'
  BY <1>1, <1>2, <1>3 DEF IInv, SuspTypes
<1>5. Eating'
  BY <1>1 DEF IInv, Eating
<1>6. \A c \in CPU : /\ "RESET" \in nextsuspend'[c] <=> "RESET" \in nextsuspend[c]
                     /\ "TRIGGER" \in nextsuspend'[c]
                          => "TRIGGER" \in nextsuspend[c] /\ c \notin woken
  BY <1>1
<1>7. \A c \in CPU : "TRIGGER" \in nextsuspend'[c] => trigger'[c] = c
  BY <1>1, <1>6 DEF IInv, Waiting
<1>8. Calm /\ NoNewWait
  BY <1>4, <1>5, <1>6, <1>7 DEF Calm, NoNewWait
<1>9. QED BY <1>1, <1>6, <1>8 DEF woken

\* A wait of the executing CPU.
LEMMA SpinFacts ==
  ASSUME IInv, cur \in CPU, NEW eat \in BOOLEAN, SpinUntilTrigger(cur, eat),
         UNCHANGED <<cur, unreset>>, guarded' \subseteq guarded \cup {cur}
  PROVE  /\ Calm
         /\ suspend' = suspend
         /\ yielded \subseteq yielded'
         /\ \A c \in CPU \ {cur} :
              "TRIGGER" \in nextsuspend'[c] => "TRIGGER" \in nextsuspend[c]
<1>1. /\ nextsuspend' = [nextsuspend EXCEPT ![cur] = @ \cup {"TRIGGER"}]
      /\ nexteatcycles' = [nexteatcycles EXCEPT ![cur] = eat]
      /\ yielded' = IF eat THEN yielded ELSE yielded \cup {cur}
      /\ trigger' = [trigger EXCEPT ![cur] = cur]
      /\ called' = called \ {cur}
      /\ UNCHANGED <<suspend, eatcycles>>
  BY DEF SpinUntilTrigger, CpunumSuspend
<1>2. nextsuspend' \in [CPU -> SUBSET Reason] /\ nexteatcycles' \in [CPU -> BOOLEAN]
  BY <1>1 DEF IInv, SuspTypes, Reason
<1>3. trigger' \in [CPU -> 0 .. CpuCount] /\ \A c \in CPU : trigger'[c] \in {0, c}
  <2>1. cur \in 0 .. CpuCount
    BY CpuAssumption DEF CPU
  <2>2. QED BY <2>1, <1>1 DEF IInv, SuspTypes
<1>4. yielded \subseteq yielded' /\ yielded' \subseteq CPU
  BY <1>1 DEF IInv, SuspTypes
<1>5. SuspTypes'
  BY <1>1, <1>2, <1>3, <1>4 DEF IInv, SuspTypes
<1>6. ASSUME NEW d \in CPU \ yielded', nextsuspend'[d] # {} PROVE nexteatcycles'[d]
  <2>1. CASE d = cur
    <3>1. eat = TRUE
      BY <2>1, <1>1, <1>6
    <3>2. QED BY <3>1, <2>1, <1>1 DEF IInv, SuspTypes
  <2>2. CASE d # cur
    BY <2>2, <1>1, <1>4, <1>6 DEF IInv, SuspTypes, Eating
  <2>3. QED BY <2>1, <2>2
<1>7. Eating'
  BY <1>1, <1>4, <1>6 DEF IInv, Eating
<1>8. \A c \in CPU : /\ "RESET" \in nextsuspend'[c] <=> "RESET" \in nextsuspend[c]
                     /\ c # cur => nextsuspend'[c] = nextsuspend[c] /\ trigger'[c] = trigger[c]
                     /\ c = cur => trigger'[c] = c
  BY <1>1 DEF IInv, SuspTypes
<1>9. \A c \in CPU : "TRIGGER" \in nextsuspend'[c] => trigger'[c] = c
  BY <1>8 DEF IInv, Waiting
<1>10. QED BY <1>1, <1>4, <1>5, <1>7, <1>8, <1>9 DEF Calm

\* Nothing about suspensions changes.
LEMMA NoSuspension ==
  ASSUME IInv, UNCHANGED <<cur, suspendVars, history>>
  PROVE  Calm /\ NoNewWait /\ suspend' = suspend /\ yielded' = yielded
BY DEF IInv, SuspTypes, Eating, Waiting, Calm, NoNewWait, suspendVars, history

\* In the middle of a slice nothing else is asked of a step.
LEMMA MiddleOfSlice ==
  ASSUME IInv, Calm, UNCHANGED <<cur, suspend>>, cur # 0, Agenda',
         \A t \in Range(agenda') : t \in Range(agenda) \/ t.act # "timeslice"
  PROVE  ResetLines' /\ Waiting'
<1>1. ASSUME NEW t \in Range(agenda'), t.act = "clear_reset", "RESET" \in nextsuspend'[t.cpu]
      PROVE  "RESET" \in suspend[t.cpu]
  <2>1. t.cpu \in CPU
    BY <1>1 DEF Agenda
  <2>2. QED BY <2>1, <1>1 DEF IInv, ResetLines, Calm
<1>2. ResetLines'
  BY <1>1 DEF IInv, ResetLines, Calm, SuspTypes
<1>3. Waiting'
  BY DEF Calm, Waiting
<1>4. QED BY <1>2, <1>3

\* Guards stay while nobody starts to wait and no timer fires.
LEMMA GuardsStay ==
  ASSUME WaitIsGuarded, SuspTypes, NoNewWait, guarded' = guarded,
         agenda' = agenda
  PROVE  WaitIsGuarded'
BY DEF WaitIsGuarded, SuspTypes, NoNewWait

\* A guard is a timer.
LEMMA GuardTimer ==
  WaitIsGuarded <=>
    \A c \in guarded : "TRIGGER" \in nextsuspend[c] =>
      \E t \in Range(agenda) : t.act = "trigger" /\ t.cpu = c
BY DEF WaitIsGuarded, Range

-----------------------------------------------------------------------------
(***************************************************************************)
(* The instructions keep the invariant.                                    *)
(***************************************************************************)
LEMMA ComputeIInv ==
  ASSUME IInv, Compute
  PROVE  IInv'
<1>1. PICK n \in 1 .. MaxCycles : Instruction(n, FALSE)
  BY DEF Compute
<1>2. UNCHANGED <<cur, suspendVars, agenda, history>> /\ cur # 0
  BY <1>1, InstructionFacts DEF Compute
<1>3. Calm /\ NoNewWait /\ suspend' = suspend /\ yielded' = yielded
  BY <1>2, NoSuspension
<1>4. /\ SliceTypes' /\ Slice' /\ Reached'
      /\ Agenda' /\ OnTime' /\ LineTimers'
  BY <1>1, <1>2, <1>3, QuietInstruction
<1>5. ResetLines' /\ Waiting' /\ WaitIsGuarded'
  BY <1>2, <1>3, <1>4, MiddleOfSlice, GuardsStay DEF IInv, history
<1>6. QED BY <1>3, <1>4, <1>5 DEF IInv, Calm

LEMMA WaitIInv ==
  ASSUME IInv, Wait
  PROVE  IInv'
<1>1. PICK n \in 1 .. MaxCycles : Instruction(n, TRUE)
  BY DEF Wait
<1>2. PICK eat \in BOOLEAN : SpinUntilTrigger(cur, eat)
  BY DEF Wait
<1>3. /\ cur \in CPU /\ cur # 0 /\ UNCHANGED <<cur, agenda, unreset>>
      /\ guarded' = guarded \ {cur}
  BY <1>1, InstructionFacts DEF Wait
<1>4. /\ Calm /\ suspend' = suspend /\ yielded \subseteq yielded'
      /\ \A c \in CPU \ {cur} :
           "TRIGGER" \in nextsuspend'[c] => "TRIGGER" \in nextsuspend[c]
  BY <1>2, <1>3, SpinFacts
<1>5. /\ SliceTypes' /\ Slice' /\ Reached'
      /\ Agenda' /\ OnTime' /\ LineTimers'
  BY <1>1, <1>3, <1>4, QuietInstruction
<1>6. ResetLines' /\ Waiting'
  BY <1>3, <1>4, <1>5, MiddleOfSlice
<1>7. WaitIsGuarded'
  BY <1>3, <1>4 DEF IInv, SuspTypes, WaitIsGuarded
<1>8. QED BY <1>4, <1>5, <1>6, <1>7 DEF IInv, Calm

LEMMA TriggerIInv ==
  ASSUME IInv, Trigger
  PROVE  IInv'
<1>1. PICK n \in 1 .. MaxCycles : Instruction(n, TRUE)
  BY DEF Trigger
<1>2. PICK t \in CPU : CpuTrigger(t)
  BY DEF Trigger
<1>3. cur # 0 /\ UNCHANGED <<cur, agenda, yielded, guarded, unreset>>
  BY <1>1, InstructionFacts DEF Trigger
<1>4. Calm /\ NoNewWait /\ suspend' = suspend
  BY <1>2, <1>3, TriggerFacts
<1>5. /\ SliceTypes' /\ Slice' /\ Reached'
      /\ Agenda' /\ OnTime' /\ LineTimers'
  BY <1>1, <1>3, <1>4, QuietInstruction
<1>6. ResetLines' /\ Waiting' /\ WaitIsGuarded'
  BY <1>3, <1>4, <1>5, MiddleOfSlice, GuardsStay DEF IInv
<1>7. QED BY <1>4, <1>5, <1>6 DEF IInv, Calm

LEMMA SuspendOtherIInv ==
  ASSUME IInv, SuspendOther
  PROVE  IInv'
<1>1. PICK n \in 1 .. MaxCycles : Instruction(n, TRUE)
  BY DEF SuspendOther
<1>2. PICK c \in CPU \ {1} :
         \/ CpunumSuspend(c, "SPIN", TRUE)
         \/ CpunumResume(c, "SPIN") /\ UNCHANGED <<nexteatcycles, yielded>>
  BY DEF SuspendOther
<1>3. /\ cur # 0
      /\ UNCHANGED <<cur, suspend, eatcycles, trigger, agenda, guarded, called, unreset>>
  BY <1>1, InstructionFacts DEF SuspendOther
<1>4. Calm /\ NoNewWait /\ yielded' = yielded
  <2>1. "SPIN" \in Reason \ {"RESET", "TRIGGER"}
    BY DEF Reason
  <2>2. QED BY <2>1, <1>2, <1>3, SuspendFacts
<1>5. /\ SliceTypes' /\ Slice' /\ Reached'
      /\ Agenda' /\ OnTime' /\ LineTimers'
  BY <1>1, <1>3, <1>4, QuietInstruction
<1>6. ResetLines' /\ Waiting' /\ WaitIsGuarded'
  BY <1>3, <1>4, <1>5, MiddleOfSlice, GuardsStay DEF IInv
<1>7. QED BY <1>4, <1>5, <1>6 DEF IInv, Calm

\* A local time a timer may be set for.
LEMMA LocalNowFacts ==
  ASSUME IInv, NEW n \in 1 .. MaxCycles, NEW ends \in BOOLEAN, Instruction(n, ends),
         NEW now \in LocalNow(n)
  PROVE  now \in Int /\ now >= Now(cur) /\ now <= Now(cur)'
<1>1. /\ cur \in CPU /\ UNCHANGED <<localtime, cur>>
      /\ Now(cur) \in Int /\ Now(cur)' \in Int /\ Now(cur) <= Now(cur)'
  BY InstructionFacts
<1>2. ran' = ran + n
  BY DEF Instruction
<1>3. now = Now(cur) \/ now = Now(cur)'
  BY <1>1, <1>2 DEF LocalNow, Now
<1>4. QED BY <1>1, <1>3

\* A timer set by an instruction, as Interrupt and Line do.
LEMMA SetTimerIInv ==
  ASSUME IInv, UNCHANGED <<suspendVars, history>>,
         NEW n \in 1 .. MaxCycles, NEW now \in LocalNow(n), NEW c \in CPU,
         NEW act \in LineAct \cup {"trigger"}, SetTimer(n, now, act, c),
         act \in LineAct => cur = 1
  PROVE  IInv'
<1> DEFINE t == Timer(now, act, c)
           ends == PlaceOf(now) = 1
<1>1. ends \in BOOLEAN /\ Instruction(n, ends)
  BY DEF SetTimer
<1>2. cur \in CPU /\ cur # 0 /\ UNCHANGED <<cur, suspend, yielded, guarded>>
  BY <1>1, InstructionFacts DEF suspendVars, history
<1>3. now \in Int /\ now >= Now(cur) /\ now <= Now(cur)'
  BY <1>1, LocalNowFacts
<1>4. /\ t \in TimerRec /\ t.at = now /\ t.act = act /\ t.cpu = c /\ t.act # "timeslice"
  <2>1. c \in 0 .. CpuCount
    BY CpuAssumption DEF CPU
  <2>2. QED BY <2>1, <1>3 DEF Timer, TimerRec, LineAct
<1>5. Len(agenda) < MaxAgenda /\ agenda' = Put(agenda, PlaceOf(t.at), t)
  BY <1>4 DEF SetTimer
<1> HIDE DEF t
<1>6. /\ SliceTypes' /\ Slice' /\ Reached'
      /\ Agenda' /\ OnTime' /\ LineTimers'
      /\ Range(agenda') = Range(agenda) \cup {t}
  BY <1>1, <1>2, <1>3, <1>4, <1>5, TimerInstruction
<1>7. Calm /\ NoNewWait
  BY <1>2, NoSuspension
<1>8. ResetLines' /\ Waiting'
  BY <1>2, <1>4, <1>6, <1>7, MiddleOfSlice
<1>9. WaitIsGuarded'
  <2>1. ASSUME NEW d \in guarded, "TRIGGER" \in nextsuspend'[d]
        PROVE  \E u \in Range(agenda') : u.act = "trigger" /\ u.cpu = d
    <3>1. "TRIGGER" \in nextsuspend[d]
      BY <2>1, <1>7 DEF IInv, SuspTypes, NoNewWait
    <3>2. PICK u \in Range(agenda) : u.act = "trigger" /\ u.cpu = d
      BY <3>1, GuardTimer DEF IInv
    <3>3. QED BY <3>2, <1>6
  <2>2. QED BY <2>1, <1>2 DEF WaitIsGuarded, Range
<1>10. QED BY <1>6, <1>7, <1>8, <1>9 DEF IInv, Calm

LEMMA InterruptIInv ==
  ASSUME IInv, Interrupt
  PROVE  IInv'
<1>1. PICK n \in 1 .. MaxCycles, c \in CPU : \E now \in LocalNow(n) :
         SetTimer(n, now, "trigger", c)
  BY DEF Interrupt
<1>2. PICK now \in LocalNow(n) : SetTimer(n, now, "trigger", c)
  BY <1>1
<1>3. UNCHANGED <<suspendVars, history>>
  BY DEF Interrupt
<1>4. QED BY <1>2, <1>3, SetTimerIInv DEF LineAct

LEMMA LineIInv ==
  ASSUME IInv, Line
  PROVE  IInv'
<1>1. PICK n \in 1 .. MaxCycles, c \in CPU \ {1}, act \in LineAct :
         \E now \in LocalNow(n) : SetTimer(n, now, act, c)
  BY DEF Line
<1>2. PICK now \in LocalNow(n) : SetTimer(n, now, act, c)
  BY <1>1
<1>3. UNCHANGED <<suspendVars, history>> /\ cur = 1
  BY DEF Line, Executes
<1>4. QED BY <1>2, <1>3, SetTimerIInv

\* A guarded wait sets the timer that ends it.
LEMMA GuardedWaitIInv ==
  ASSUME IInv, GuardedWait
  PROVE  IInv'
<1>1. PICK n \in 1 .. MaxCycles : \E now \in LocalNow(n) :
         /\ Len(agenda) < MaxAgenda
         /\ agenda' = Put(agenda, PlaceOf(now + Guard), Timer(now + Guard, "trigger", cur))
         /\ Instruction(n, TRUE)
  BY DEF GuardedWait
<1>2. PICK now \in LocalNow(n) :
         /\ Len(agenda) < MaxAgenda
         /\ agenda' = Put(agenda, PlaceOf(now + Guard), Timer(now + Guard, "trigger", cur))
         /\ Instruction(n, TRUE)
  BY <1>1
<1> DEFINE t == Timer(now + Guard, "trigger", cur)
<1>3. cur \in CPU /\ cur # 0 /\ UNCHANGED cur /\ Now(cur) \in Int
  BY <1>2, InstructionFacts
<1>4. now \in Int /\ now >= Now(cur)
  BY <1>2, LocalNowFacts
<1>5. /\ t \in TimerRec /\ t.at = now + Guard /\ t.act = "trigger" /\ t.cpu = cur
      /\ t.at >= Now(cur)
  <2>1. cur \in 0 .. CpuCount /\ now + Guard \in Int /\ now + Guard >= Now(cur)
    BY <1>3, <1>4, CpuAssumption DEF CPU
  <2>2. QED BY <2>1 DEF Timer, TimerRec
<1>6. Len(agenda) < MaxAgenda /\ agenda' = Put(agenda, PlaceOf(t.at), t)
  BY <1>2, <1>5
<1> HIDE DEF t
<1>7. /\ SpinUntilTrigger(cur, TRUE) /\ guarded' = guarded \cup {cur}
      /\ UNCHANGED unreset
  BY DEF GuardedWait
<1>8. /\ Calm /\ suspend' = suspend /\ yielded \subseteq yielded'
      /\ \A c \in CPU \ {cur} :
           "TRIGGER" \in nextsuspend'[c] => "TRIGGER" \in nextsuspend[c]
  BY <1>3, <1>7, SpinFacts
<1>9. /\ SliceTypes' /\ Slice' /\ Reached'
      /\ Agenda' /\ OnTime' /\ LineTimers'
      /\ Range(agenda') = Range(agenda) \cup {t}
  <2>1. t.act # "timeslice" /\ t.act \notin LineAct
    BY <1>5 DEF LineAct
  <2>2. QED BY <2>1, <1>2, <1>3, <1>5, <1>6, <1>8, TimerInstruction
<1>10. ResetLines' /\ Waiting'
  BY <1>3, <1>5, <1>8, <1>9, MiddleOfSlice
<1>11. WaitIsGuarded'
  <2>1. ASSUME NEW c \in guarded', "TRIGGER" \in nextsuspend'[c]
        PROVE  \E u \in Range(agenda') : u.act = "trigger" /\ u.cpu = c
    <3>1. CASE c = cur
      BY <3>1, <1>5, <1>9
    <3>2. CASE c # cur
      <4>1. c \in guarded /\ c \in CPU
        BY <3>2, <1>7 DEF IInv, SuspTypes
      <4>2. "TRIGGER" \in nextsuspend[c]
        BY <4>1, <3>2, <2>1, <1>8
      <4>3. PICK u \in Range(agenda) : u.act = "trigger" /\ u.cpu = c
        BY <4>1, <4>2, GuardTimer DEF IInv
      <4>4. QED BY <4>3, <1>9
    <3>3. QED BY <3>1, <3>2
  <2>2. QED BY <2>1 DEF WaitIsGuarded, Range
<1>12. QED BY <1>8, <1>9, <1>10, <1>11 DEF IInv, Calm

-----------------------------------------------------------------------------
(***************************************************************************)
(* Firing the timers between two slices.                                   *)
(***************************************************************************)

\* There is a timer, and between slices no CPU has cycles left or used.
LEMMA HeadOfAgenda ==
  ASSUME IInv
  PROVE  /\ agenda # <<>>
         /\ Head(agenda) \in Range(agenda) /\ Head(agenda) \in TimerRec
         /\ Head(agenda).at \in Int
         /\ Head(agenda) = agenda[1]
         /\ \A t \in Range(agenda) : t \in TimerRec /\ t.at \in Int /\ Head(agenda).at <= t.at
         /\ Head(agenda).act # "timeslice" => Head(agenda).cpu \in CPU
<1>1. agenda # <<>>
  BY DEF IInv, Agenda, Range
<1>2. QED BY <1>1, HeadFacts, RecAt DEF IInv, Agenda

\* A timer other than the timeslice has fired.
LEMMA FiredFacts ==
  ASSUME IInv, cur = 0, agenda' = Tail(agenda), Head(agenda).act # "timeslice",
         UNCHANGED <<sliceVars, suspend>>, yielded \subseteq yielded'
  PROVE  /\ SliceTypes' /\ Slice' /\ Reached'
         /\ Agenda' /\ OnTime' /\ LineTimers'
         /\ Range(agenda') \subseteq Range(agenda)
         /\ Range(agenda) \subseteq Range(agenda') \cup {Head(agenda)}
<1>1. /\ agenda' \in Seq(TimerRec)
      /\ Len(agenda') = Len(agenda) - 1
      /\ Sorted(agenda')
      /\ Range(agenda') \subseteq Range(agenda)
      /\ Range(agenda) \subseteq Range(agenda') \cup {Head(agenda)}
  BY HeadOfAgenda, TailFacts DEF IInv, Agenda
<1>2. UNCHANGED <<localtime, target, cur, left, ran, suspend>>
  BY DEF sliceVars
<1>3. Len(agenda) \in Nat /\ MaxAgenda \in Nat
  BY AgendaElements, CpuAssumption DEF IInv, Agenda
<1>4. Agenda'
  BY <1>1, <1>3 DEF IInv, Agenda
<1>5. SliceTypes' /\ Slice' /\ Reached'
  BY <1>2 DEF IInv, SliceTypes, Slice, Reached, CyclesToRun
<1>6. OnTime'
  BY <1>1, <1>2 DEF IInv, OnTime, Now, Span
<1>7. LineTimers'
  BY <1>1, <1>2 DEF IInv, LineTimers, Now
<1>8. QED BY <1>1, <1>4, <1>5, <1>6, <1>7

LEMMA BetweenSlices ==
  ASSUME IInv, Calm, NoNewWait, UNCHANGED <<cur, suspend>>, cur = 0, Agenda',
         \A t \in Range(agenda') : t \in Range(agenda) \/ t.act = "timeslice"
  PROVE  ResetLines' /\ Waiting'
<1>1. ASSUME NEW t \in Range(agenda'), t.act = "clear_reset", "RESET" \in nextsuspend'[t.cpu]
      PROVE  "RESET" \in suspend[t.cpu]
  <2>1. t.cpu \in CPU /\ t \in Range(agenda)
    BY <1>1 DEF Agenda
  <2>2. QED BY <2>1, <1>1 DEF IInv, ResetLines, Calm
<1>2. ResetLines'
  BY <1>1 DEF IInv, ResetLines, Calm, SuspTypes
<1>3. Waiting'
  BY DEF IInv, Calm, NoNewWait, Waiting
<1>4. QED BY <1>2, <1>3

\* Guards stay while no trigger fires.
LEMMA GuardsAfter ==
  ASSUME IInv, NoNewWait, guarded' = guarded,
         \A u \in Range(agenda) : u.act = "trigger" => u \in Range(agenda')
  PROVE  WaitIsGuarded'
<1>1. ASSUME NEW d \in guarded, "TRIGGER" \in nextsuspend'[d]
      PROVE  \E u \in Range(agenda') : u.act = "trigger" /\ u.cpu = d
  <2>1. "TRIGGER" \in nextsuspend[d]
    BY <1>1 DEF IInv, SuspTypes, NoNewWait
  <2>2. PICK u \in Range(agenda) : u.act = "trigger" /\ u.cpu = d
    BY <2>1, GuardTimer DEF IInv
  <2>3. QED BY <2>2
<1>2. QED BY <1>1 DEF WaitIsGuarded, Range

LEMMA FireTimesliceIInv ==
  ASSUME IInv, FireTimeslice
  PROVE  IInv'
<1> DEFINE at == Head(agenda).at + SlicePeriod
           t == Timer(at, "timeslice", 0)
           a == Put(agenda, PlaceOf(at), t)
<1>1. /\ cur = 0 /\ Head(agenda).at < 1 /\ Head(agenda).act = "timeslice"
      /\ agenda' = Tail(a)
      /\ UNCHANGED <<suspendVars, sliceVars, history>>
  BY DEF FireTimeslice, Due
<1>2. at \in Int /\ at > Head(agenda).at /\ at <= SlicePeriod /\ SlicePeriod \in Nat
  BY <1>1, HeadOfAgenda, CpuAssumption
<1>3. t \in TimerRec /\ t.at = at /\ t.act = "timeslice"
  <2>1. 0 \in 0 .. CpuCount
    BY CpuAssumption
  <2>2. QED BY <2>1, <1>2 DEF Timer, TimerRec
<1>4. a = Put(agenda, PlaceOf(t.at), t)
  BY <1>3
<1> HIDE DEF t, a
<1>5. /\ a \in Seq(TimerRec)
      /\ Len(a) = Len(agenda) + 1
      /\ Sorted(a)
      /\ Range(a) = Range(agenda) \cup {t}
      /\ PlaceOf(t.at) # 1 <=> agenda # <<>> /\ agenda[1].at <= t.at
      /\ PlaceOf(t.at) # 1 => a # <<>> /\ a[1] = agenda[1]
  BY <1>3, <1>4, PutFacts DEF IInv, Agenda
<1>6. a # <<>> /\ a[1] = Head(agenda)
  BY <1>2, <1>3, <1>5, HeadOfAgenda
<1>7. Head(a) = Head(agenda)
  BY <1>5, <1>6, HeadFacts
<1>8. /\ agenda' \in Seq(TimerRec)
      /\ Len(agenda') = Len(a) - 1
      /\ Sorted(agenda')
      /\ Range(agenda') \subseteq Range(a)
      /\ Range(a) \subseteq Range(agenda') \cup {Head(agenda)}
  BY <1>1, <1>5, <1>6, <1>7, TailFacts
<1>9. t \in Range(agenda') /\ Range(agenda') \subseteq Range(agenda) \cup {t}
  <2>1. t # Head(agenda)
    BY <1>2, <1>3, HeadOfAgenda
  <2>2. QED BY <2>1, <1>5, <1>8
<1>10. UNCHANGED <<localtime, target, cur, left, ran, suspend>> /\ UNCHANGED <<yielded, guarded>>
  BY <1>1 DEF sliceVars, suspendVars, history
<1>11. Agenda'
  <2>1. Len(agenda) \in Nat
    BY AgendaElements DEF IInv, Agenda
  <2>2. QED BY <2>1, <1>2, <1>3, <1>5, <1>8, <1>9 DEF IInv, Agenda
<1>12. SliceTypes' /\ Slice' /\ Reached'
  BY <1>10 DEF IInv, SliceTypes, Slice, Reached, CyclesToRun
<1>13. OnTime'
  <2>1. ASSUME yielded = {}, NEW s \in Range(agenda)
        PROVE  \E c \in CPU : s.at >= target - Span(c)
    BY <1>1, <2>1 DEF IInv, OnTime, CPU
  <2>2. ASSUME yielded = {} PROVE \E c \in CPU : t.at >= target - Span(c)
    <3>1. PICK c \in CPU : Head(agenda).at >= target - Span(c)
      BY <2>1, <2>2, HeadOfAgenda
    <3>2. Span(c) \in Int /\ target \in Int
      BY CpuAssumption DEF Span, IInv, SliceTypes
    <3>3. QED BY <3>1, <3>2, <1>2, <1>3, HeadOfAgenda
  <2>3. QED BY <2>1, <2>2, <1>9, <1>10 DEF OnTime, Span
<1>14. LineTimers'
  <2>1. t.act \notin LineAct
    BY <1>3 DEF LineAct
  <2>2. QED BY <2>1, <1>1, <1>9, <1>10 DEF IInv, LineTimers
<1>15. Calm /\ NoNewWait
  BY <1>1, <1>10, NoSuspension
<1>16. ResetLines' /\ Waiting'
  BY <1>1, <1>3, <1>9, <1>10, <1>11, <1>15, BetweenSlices
<1>17. WaitIsGuarded'
  <2>1. \A u \in Range(agenda) : u.act = "trigger" => u \in Range(agenda')
    BY <1>1, <1>5, <1>8
  <2>2. QED BY <2>1, <1>10, <1>15, GuardsAfter
<1>18. QED BY <1>11, <1>12, <1>13, <1>14, <1>15, <1>16, <1>17 DEF IInv, Calm

\* A trigger that fires finds its CPU suspended, so no wait outlives its guard.
LEMMA FireTriggerIInv ==
  ASSUME IInv, FireTrigger
  PROVE  IInv'
<1> DEFINE d == Head(agenda).cpu
<1>1. /\ cur = 0 /\ Head(agenda).act = "trigger" /\ agenda' = Tail(agenda)
      /\ CpuTrigger(d) /\ UNCHANGED <<sliceVars, yielded, guarded, unreset>>
  BY DEF FireTrigger, Fires, Due
<1>2. d \in CPU
  BY <1>1, HeadOfAgenda
<1>3. UNCHANGED <<cur, yielded, guarded, unreset>>
  BY <1>1 DEF sliceVars
<1> HIDE DEF d
<1>4. /\ Calm /\ NoNewWait /\ suspend' = suspend
      /\ \A c \in CPU : suspend[c] # {} /\ trigger[c] = d => "TRIGGER" \notin nextsuspend'[c]
  BY <1>1, <1>2, <1>3, TriggerFacts
<1>5. /\ SliceTypes' /\ Slice' /\ Reached'
      /\ Agenda' /\ OnTime' /\ LineTimers'
      /\ Range(agenda') \subseteq Range(agenda)
      /\ Range(agenda) \subseteq Range(agenda') \cup {Head(agenda)}
  BY <1>1, <1>3, <1>4, FiredFacts
<1>6. ResetLines' /\ Waiting'
  BY <1>1, <1>3, <1>4, <1>5, BetweenSlices
<1>7. ASSUME NEW c \in guarded, "TRIGGER" \in nextsuspend'[c]
      PROVE  \E u \in Range(agenda') : u.act = "trigger" /\ u.cpu = c
  <2>1. c \in CPU /\ "TRIGGER" \in nextsuspend[c]
    BY <1>4, <1>7 DEF IInv, SuspTypes, NoNewWait
  <2>2. trigger[c] = c /\ "TRIGGER" \in suspend[c]
    BY <2>1, <1>1 DEF IInv, Waiting
  <2>3. c # d
    BY <2>1, <2>2, <1>4, <1>7
  <2>4. PICK u \in Range(agenda) : u.act = "trigger" /\ u.cpu = c
    BY <2>1, GuardTimer DEF IInv
  <2>5. u # Head(agenda)
    BY <2>3, <2>4 DEF d
  <2>6. QED BY <2>4, <2>5, <1>5
<1>8. WaitIsGuarded'
  BY <1>3, <1>7 DEF WaitIsGuarded, Range
<1>9. QED BY <1>4, <1>5, <1>6, <1>8 DEF IInv, Calm

\* The halt line.
LEMMA FireHaltIInv ==
  ASSUME IInv, FireHalt \/ FireUnhalt
  PROVE  IInv'
<1> DEFINE d == Head(agenda).cpu
<1>1. /\ cur = 0 /\ Head(agenda).act \in {"halt", "unhalt"} /\ agenda' = Tail(agenda)
      /\ UNCHANGED sliceVars
      /\ \/ CpunumSuspend(d, "HALT", TRUE)
         \/ CpunumResume(d, "HALT") /\ UNCHANGED <<nexteatcycles, yielded>>
      /\ UNCHANGED <<suspend, eatcycles, trigger, guarded, called, unreset>>
  BY DEF FireHalt, FireUnhalt, Fires, Due, history
<1>2. d \in CPU /\ "HALT" \in Reason \ {"RESET", "TRIGGER"}
  BY <1>1, HeadOfAgenda DEF Reason
<1>3. UNCHANGED cur
  BY <1>1 DEF sliceVars
<1> HIDE DEF d
<1>4. Calm /\ NoNewWait /\ yielded' = yielded
  BY <1>1, <1>2, <1>3, SuspendFacts
<1>5. /\ SliceTypes' /\ Slice' /\ Reached'
      /\ Agenda' /\ OnTime' /\ LineTimers'
      /\ Range(agenda') \subseteq Range(agenda)
      /\ Range(agenda) \subseteq Range(agenda') \cup {Head(agenda)}
  BY <1>1, <1>4, FiredFacts
<1>6. ResetLines' /\ Waiting'
  BY <1>1, <1>3, <1>4, <1>5, BetweenSlices
<1>7. WaitIsGuarded'
  BY <1>1, <1>4, <1>5, GuardsAfter
<1>8. QED BY <1>4, <1>5, <1>6, <1>7 DEF IInv, Calm

\* The reset line: asserted, no release of it is pending; released, the CPU has
\* been suspended for it.
LEMMA FireResetIInv ==
  ASSUME IInv, FireResetAssert \/ FireResetClear
  PROVE  IInv'
<1> DEFINE d == Head(agenda).cpu
<1>1. /\ cur = 0 /\ Head(agenda).act \in {"assert_reset", "clear_reset"}
      /\ agenda' = Tail(agenda)
      /\ UNCHANGED <<sliceVars, suspend, eatcycles, trigger, guarded, called>>
  BY DEF FireResetAssert, FireResetClear, Fires, Due
<1>2. d \in CPU /\ Head(agenda) \in Range(agenda)
  BY <1>1, HeadOfAgenda
<1>3. \A t \in Range(agenda) : t.act = "clear_reset" => t = Head(agenda)
  BY <1>1, <1>2 DEF IInv, LineTimers, LineAct
<1>4. UNCHANGED cur
  BY <1>1 DEF sliceVars
<1>5. CASE FireResetAssert
  <2>1. /\ Head(agenda).act = "assert_reset"
        /\ nextsuspend' = [nextsuspend EXCEPT ![d] = @ \cup {"RESET"}]
        /\ nexteatcycles' = [nexteatcycles EXCEPT ![d] = TRUE]
        /\ yielded' = yielded
        /\ unreset' = unreset \cup {d}
    BY <1>5 DEF FireResetAssert, Fires, CpunumSuspend
  <2> HIDE DEF d
  <2>2. /\ nextsuspend' \in [CPU -> SUBSET Reason]
        /\ nexteatcycles' \in [CPU -> BOOLEAN]
        /\ "RESET" \in nextsuspend'[d] /\ nexteatcycles'[d]
        /\ \A c \in CPU : /\ "TRIGGER" \in nextsuspend'[c] <=> "TRIGGER" \in nextsuspend[c]
                          /\ "RESET" \in nextsuspend[c] => "RESET" \in nextsuspend'[c]
                          /\ c # d => /\ nextsuspend'[c] = nextsuspend[c]
                                      /\ nexteatcycles'[c] = nexteatcycles[c]
    BY <2>1, <1>2 DEF IInv, SuspTypes, Reason
  <2>3. SuspTypes'
    BY <2>1, <2>2, <1>1, <1>2 DEF IInv, SuspTypes
  <2>4. Eating'
    BY <2>1, <2>2, <1>1, <1>4 DEF IInv, Eating
  <2>5. /\ SliceTypes' /\ Slice' /\ Reached'
        /\ Agenda' /\ OnTime' /\ LineTimers'
        /\ Range(agenda') \subseteq Range(agenda)
        /\ Range(agenda) \subseteq Range(agenda') \cup {Head(agenda)}
    BY <2>1, <1>1, FiredFacts
  <2>6. ResetLines'
    <3>1. \A t \in Range(agenda') : t.act # "clear_reset"
      BY <2>1, <2>5, <1>3
    <3>2. \A c \in unreset' : "RESET" \in nextsuspend'[c]
      BY <2>1, <2>2 DEF IInv, SuspTypes, ResetLines
    <3>3. QED BY <3>1, <3>2, <1>1, <1>4 DEF ResetLines
  <2>7. Waiting'
    BY <2>2, <1>1, <1>4 DEF IInv, Waiting
  <2>8. WaitIsGuarded'
    BY <2>1, <2>2, <2>5, <1>1, GuardsAfter DEF NoNewWait
  <2>9. QED BY <2>3, <2>4, <2>5, <2>6, <2>7, <2>8 DEF IInv
<1>6. CASE FireResetClear
  <2>1. /\ Head(agenda).act = "clear_reset"
        /\ nextsuspend' = [nextsuspend EXCEPT ![d] = @ \ {"RESET"}]
        /\ nexteatcycles' = nexteatcycles
        /\ yielded' = yielded
        /\ unreset' = IF "RESET" \in suspend[d] THEN unreset \ {d} ELSE unreset
    BY <1>6 DEF FireResetClear, Fires, CpunumResume
  <2>2. "RESET" \in nextsuspend[d] => "RESET" \in suspend[d]
    BY <2>1, <1>2 DEF IInv, ResetLines
  <2>3. \A t \in Range(agenda) : t.act = "clear_reset" => t.cpu = d
    BY <1>3
  <2> HIDE DEF d
  <2>4. /\ nextsuspend' \in [CPU -> SUBSET Reason]
        /\ "RESET" \notin nextsuspend'[d]
        /\ \A c \in CPU : /\ "TRIGGER" \in nextsuspend'[c] <=> "TRIGGER" \in nextsuspend[c]
                          /\ nextsuspend'[c] \subseteq nextsuspend[c]
                          /\ c # d => nextsuspend'[c] = nextsuspend[c]
    BY <2>1, <1>2 DEF IInv, SuspTypes
  <2>5. unreset' \subseteq unreset /\ d \notin unreset'
    BY <2>1, <2>2 DEF IInv, ResetLines
  <2>6. SuspTypes'
    BY <2>1, <2>4, <2>5, <1>1 DEF IInv, SuspTypes
  <2>7. Eating'
    BY <2>1, <2>4, <1>1, <1>4 DEF IInv, Eating
  <2>8. /\ SliceTypes' /\ Slice' /\ Reached'
        /\ Agenda' /\ OnTime' /\ LineTimers'
        /\ Range(agenda') \subseteq Range(agenda)
        /\ Range(agenda) \subseteq Range(agenda') \cup {Head(agenda)}
    BY <2>1, <1>1, FiredFacts
  <2>9. ResetLines'
    <3>1. \A t \in Range(agenda') : t.act = "clear_reset" => "RESET" \notin nextsuspend'[t.cpu]
      BY <2>3, <2>4, <2>8
    <3>2. \A c \in unreset' : "RESET" \in nextsuspend'[c]
      BY <2>4, <2>5 DEF IInv, SuspTypes, ResetLines
    <3>3. QED BY <3>1, <3>2, <1>1, <1>4 DEF ResetLines
  <2>10. Waiting'
    BY <2>4, <1>1, <1>4 DEF IInv, Waiting
  <2>11. WaitIsGuarded'
    BY <2>1, <2>4, <2>8, <1>1, GuardsAfter DEF NoNewWait
  <2>12. QED BY <2>6, <2>7, <2>8, <2>9, <2>10, <2>11 DEF IInv
<1>7. QED BY <1>5, <1>6

-----------------------------------------------------------------------------
(***************************************************************************)
(* The slice.                                                              *)
(***************************************************************************)

\* Nothing is counted of a CPU that has used no cycles.
LEMMA NowAtRest ==
  ASSUME SliceTypes, ran = 0, NEW c \in CPU
  PROVE  Now(c) = localtime[c]
<1>1. Cycle[c] \in Nat /\ localtime[c] \in Int
  BY CpuAssumption DEF SliceTypes
<1>2. 0 * Cycle[c] = 0
  BY <1>1
<1>3. QED BY <1>1, <1>2 DEF Now

LEMMA FirstCpu == 1 \in CPU /\ \A c \in CPU : Span(c) \in Nat
<1>1. 1 \in CPU
  BY CpuAssumption DEF CPU
<1>2. ASSUME NEW c \in CPU PROVE Span(c) \in Nat
  <2>1. MaxCycles \in Nat /\ Cycle[c] \in Nat \ {0}
    BY CpuAssumption
  <2>2. QED BY <2>1, Product DEF Span
<1>3. QED BY <1>1, <1>2

LEMMA BeginSliceIInv ==
  ASSUME IInv, BeginSlice
  PROVE  IInv'
<1>1. /\ cur = 0 /\ ~(Head(agenda).at < 1)
      /\ target' = Head(agenda).at /\ cur' = 1
      /\ suspend' = nextsuspend /\ eatcycles' = nexteatcycles
      /\ UNCHANGED <<localtime, nextsuspend, nexteatcycles, trigger, agenda, left, ran>>
      /\ UNCHANGED <<yielded, guarded, called, unreset>>
  BY DEF BeginSlice, Due, history
<1>2. /\ left = 0 /\ ran = 0 /\ CpuCount \in Nat \ {0} /\ SlicePeriod \in Nat
      /\ cur \notin CPU
  BY <1>1, CpuAssumption DEF IInv, Slice, CPU
<1>3. /\ Head(agenda).at \in Int
      /\ \A t \in Range(agenda) : t.at \in Int /\ Head(agenda).at <= t.at
  BY HeadOfAgenda
<1>4. target' \in 1 .. SlicePeriod
  <2>1. PICK t \in Range(agenda) : t.at <= SlicePeriod
    BY DEF IInv, Agenda
  <2>2. QED BY <2>1, <1>1, <1>2, <1>3
<1>5. SliceTypes'
  BY <1>1, <1>2, <1>4 DEF IInv, SliceTypes
<1>6. SuspTypes'
  BY <1>1 DEF IInv, SuspTypes
<1>7. Agenda'
  BY <1>1 DEF IInv, Agenda
<1>8. OnTime'
  <2>1. ASSUME NEW t \in Range(agenda) PROVE t.at >= target' - Span(1)
    BY <1>1, <1>3, FirstCpu
  <2>2. QED BY <2>1, <1>1, FirstCpu DEF OnTime, Span
<1>9. LineTimers'
  <2>1. Now(1)' = localtime[1]
    <3>1. Now(1)' = Now(1)
      BY <1>1 DEF Now
    <3>2. QED BY <3>1, <1>2, NowAtRest, FirstCpu DEF IInv
  <2>2. \A t \in Range(agenda) : t.at >= target'
    BY <1>1, <1>3
  <2>3. QED BY <2>1, <2>2, <1>1, <1>2 DEF IInv, LineTimers
<1>10. Slice'
  BY <1>1, <1>2, <1>4 DEF Slice
<1>11. Reached'
  <2>1. \A c \in CPU : ~(c < 1)
    BY DEF CPU
  <2>2. QED BY <2>1, <1>1 DEF IInv, Reached
<1>12. Eating'
  BY <1>1 DEF IInv, Eating
<1>13. ResetLines' /\ Waiting'
  BY <1>1 DEF IInv, ResetLines, Waiting
<1>14. WaitIsGuarded'
  BY <1>1 DEF IInv, WaitIsGuarded
<1>15. QED BY <1>5, <1>6, <1>7, <1>8, <1>9, <1>10, <1>11, <1>12, <1>13, <1>14 DEF IInv

\* A CPU that is given cycles is before the target, so CPU 1 has no change of a
\* line pending then.
LEMMA ExecuteIInv ==
  ASSUME IInv, Execute
  PROVE  IInv'
<1>1. /\ cur \in CPU /\ left = 0 /\ ran = 0
      /\ suspend[cur] = {} /\ CyclesToRun(cur) > 0
      /\ left' = CyclesToRun(cur)
      /\ UNCHANGED <<localtime, target, cur, ran, suspendVars, agenda, history>>
  BY DEF Execute, AtCpu, MayRun
<1>2. UNCHANGED <<suspend, nextsuspend, eatcycles, nexteatcycles, trigger>>
      /\ UNCHANGED <<yielded, guarded, called, unreset>>
  BY <1>1 DEF suspendVars, history
<1>3. left' \in Nat /\ left' > 0 /\ ran + left' = CyclesToRun(cur)
  BY <1>1, CyclesFacts DEF IInv
<1>4. SliceTypes'
  BY <1>1, <1>3 DEF IInv, SliceTypes
<1>5. SuspTypes' /\ Eating'
  BY <1>1, <1>2 DEF IInv, SuspTypes, Eating
<1>6. Agenda'
  BY <1>1 DEF IInv, Agenda
<1>7. OnTime'
  BY <1>1, <1>2 DEF IInv, OnTime, Span
<1>8. ASSUME cur = 1, NEW t \in Range(agenda) PROVE t.act \notin LineAct
  <2>1. t.at >= target /\ t.at \in Int
    BY <1>1, <1>8, HeadOfAgenda DEF IInv, LineTimers
  <2>2. t.act \in LineAct => t.at <= localtime[1]
    BY <1>1, <1>8, NowAtRest DEF IInv, LineTimers
  <2>3. localtime[1] < target
    <3>1. 2 * (target - localtime[1]) >= Cycle[1]
      BY <1>1, <1>8, CyclesFacts DEF IInv
    <3>2. Cycle[1] \in Nat \ {0} /\ localtime[1] \in Int /\ target \in Int
      BY CpuAssumption, FirstCpu DEF IInv, SliceTypes
    <3>3. QED BY <3>1, <3>2
  <2>4. localtime[1] \in Int /\ target \in Int
    BY FirstCpu DEF IInv, SliceTypes
  <2>5. QED BY <2>1, <2>2, <2>3, <2>4
<1>9. LineTimers'
  BY <1>1, <1>8 DEF IInv, LineTimers, Now
<1>10. Slice'
  <2>1. CyclesToRun(cur)' = CyclesToRun(cur)
    BY <1>1 DEF CyclesToRun
  <2>2. QED BY <2>1, <1>1, <1>2, <1>3 DEF IInv, Slice
<1>11. Reached'
  BY <1>1, <1>2 DEF IInv, Reached
<1>12. ResetLines' /\ Waiting'
  BY <1>1, <1>2 DEF IInv, ResetLines, Waiting
<1>13. WaitIsGuarded'
  BY <1>1, <1>2 DEF IInv, WaitIsGuarded
<1>14. QED BY <1>4, <1>5, <1>6, <1>7, <1>9, <1>10, <1>11, <1>12, <1>13 DEF IInv

\* A CPU that is passed over is suspended, or at the target already.
LEMMA PassIInv ==
  ASSUME IInv, Pass
  PROVE  IInv'
<1>1. /\ cur \in CPU /\ left = 0 /\ ran = 0
      /\ ~(suspend[cur] = {} /\ CyclesToRun(cur) > 0)
      /\ cur' = cur + 1
      /\ UNCHANGED <<localtime, target, left, ran, suspendVars, agenda, history>>
  BY DEF Pass, AtCpu, MayRun
<1>2. UNCHANGED <<suspend, nextsuspend, eatcycles, nexteatcycles, trigger>>
      /\ UNCHANGED <<yielded, guarded, called, unreset>>
  BY <1>1 DEF suspendVars, history
<1>3. cur \in 1 .. CpuCount /\ cur' \in 2 .. CpuCount + 1 /\ cur # 0 /\ cur' # 0 /\ cur' # 1
  BY <1>1, CpuAssumption DEF CPU
<1>4. SliceTypes'
  BY <1>1, <1>3 DEF IInv, SliceTypes
<1>5. SuspTypes' /\ Eating'
  BY <1>1, <1>2, <1>3 DEF IInv, SuspTypes, Eating
<1>6. Agenda'
  BY <1>1 DEF IInv, Agenda
<1>7. OnTime'
  BY <1>1, <1>2 DEF IInv, OnTime, Span
<1>8. LineTimers'
  <2>1. Now(1) = localtime[1]
    BY <1>1, NowAtRest, FirstCpu DEF IInv
  <2>2. QED BY <2>1, <1>1, <1>3 DEF IInv, LineTimers
<1>9. Slice'
  BY <1>1, <1>2, <1>3 DEF IInv, Slice
<1>10. Reached'
  <2> SUFFICES ASSUME NEW c \in CPU \ yielded
               PROVE  /\ 2 * localtime[c] > -Cycle[c]
                      /\ c < cur + 1 /\ suspend[c] = {}
                           => 2 * (localtime[c] - target) > -Cycle[c]
    BY <1>1, <1>2 DEF Reached
  <2>1. 2 * localtime[c] > -Cycle[c]
        /\ (c < cur /\ suspend[c] = {} => 2 * (localtime[c] - target) > -Cycle[c])
    BY DEF IInv, Reached
  <2>2. ASSUME c = cur, suspend[c] = {} PROVE 2 * (localtime[c] - target) > -Cycle[c]
    <3>1. ~(2 * (target - localtime[c]) >= Cycle[c])
      BY <2>2, <1>1, CyclesFacts DEF IInv
    <3>2. Cycle[c] \in Nat \ {0} /\ localtime[c] \in Int /\ target \in Int
      BY CpuAssumption DEF IInv, SliceTypes
    <3>3. QED BY <3>1, <3>2
  <2>3. c < cur + 1 => c < cur \/ c = cur
    BY <1>3 DEF CPU
  <2>4. QED BY <2>1, <2>2, <2>3
<1>11. ResetLines' /\ Waiting'
  BY <1>1, <1>2, <1>3 DEF IInv, ResetLines, Waiting
<1>12. WaitIsGuarded'
  BY <1>1, <1>2 DEF IInv, WaitIsGuarded
<1>13. QED BY <1>4, <1>5, <1>6, <1>7, <1>8, <1>9, <1>10, <1>11, <1>12 DEF IInv

\* A CPU that has run is at the target, or takes the target down to itself.
LEMMA ExecuteDoneIInv ==
  ASSUME IInv, ExecuteDone
  PROVE  IInv'
<1> DEFINE now == localtime[cur] + ran * Cycle[cur]
<1>1. /\ cur \in CPU /\ left = 0 /\ ran > 0
      /\ localtime' = [localtime EXCEPT ![cur] = now]
      /\ target' = IF now < target /\ now > 0 THEN now ELSE target
      /\ ran' = 0 /\ cur' = cur + 1
      /\ UNCHANGED <<left, suspendVars, agenda, history>>
  BY DEF ExecuteDone
<1>2. UNCHANGED <<suspend, nextsuspend, eatcycles, nexteatcycles, trigger>>
      /\ UNCHANGED <<yielded, guarded, called, unreset>>
  BY <1>1 DEF suspendVars, history
<1>3. cur \in 1 .. CpuCount /\ cur' \in 2 .. CpuCount + 1 /\ cur # 0 /\ cur' # 0 /\ cur' # 1
  BY <1>1, CpuAssumption DEF CPU
<1>4. /\ Cycle[cur] \in Nat \ {0} /\ localtime[cur] \in Int
      /\ target \in 1 .. SlicePeriod /\ SlicePeriod \in Nat
  <2>1. Cycle[cur] \in Nat \ {0} /\ SlicePeriod \in Nat
    BY <1>1, CpuAssumption
  <2>2. localtime[cur] \in Int /\ target \in 0 .. SlicePeriod
    BY <1>1 DEF IInv, SliceTypes
  <2>3. target > 0
    BY <1>3 DEF IInv, Slice
  <2>4. QED BY <2>1, <2>2, <2>3
<1>5. now \in Int /\ now >= localtime[cur] + Cycle[cur] /\ now = Now(cur)
  <2>1. ran \in Nat
    BY DEF IInv, SliceTypes
  <2>2. ran * Cycle[cur] \in Nat /\ ran * Cycle[cur] >= Cycle[cur]
    BY <2>1, <1>1, <1>4, Product
  <2>3. QED BY <2>2, <1>4 DEF Now
<1> HIDE DEF now
<1>6. target' \in 1 .. SlicePeriod /\ target' <= target
  BY <1>1, <1>4, <1>5
<1>7. /\ localtime' \in [CPU -> Int]
      /\ localtime'[cur] = now
      /\ \A c \in CPU : c # cur => localtime'[c] = localtime[c]
  BY <1>1, <1>5 DEF IInv, SliceTypes
<1>8. SliceTypes'
  BY <1>1, <1>3, <1>6, <1>7 DEF IInv, SliceTypes
<1>9. SuspTypes' /\ Eating'
  BY <1>1, <1>2, <1>3 DEF IInv, SuspTypes, Eating
<1>10. Agenda'
  BY <1>1 DEF IInv, Agenda
<1>11. ASSUME cur \notin yielded PROVE now > 0
  <2>1. 2 * localtime[cur] > -Cycle[cur]
    BY <1>1, <1>11 DEF IInv, Reached
  <2>2. QED BY <2>1, <1>4, <1>5
<1>12. ASSUME cur \notin yielded PROVE target' <= now
  BY <1>1, <1>4, <1>5, <1>11, <1>12
<1>13. OnTime'
  <2>1. ASSUME yielded = {}, NEW t \in Range(agenda)
        PROVE  \E c \in CPU : t.at >= target' - Span(c)
    <3>1. PICK c \in CPU : \/ t.at >= target - Span(c)
                           \/ c = cur /\ t.at >= Now(c) - Span(c)
      BY <2>1 DEF IInv, OnTime
    <3>2. Span(c) \in Nat /\ t.at \in Int
      BY FirstCpu, HeadOfAgenda
    <3>3. t.at >= target' - Span(c)
      BY <3>1, <3>2, <2>1, <1>4, <1>5, <1>6, <1>12
    <3>4. QED BY <3>3
  <2>2. QED BY <2>1, <1>1, <1>2 DEF OnTime, Span
<1>14. LineTimers'
  <2>1. (IF cur = 1 THEN Now(1) ELSE localtime[1]) = localtime'[1]
    BY <1>5, <1>7, FirstCpu
  <2>2. QED BY <2>1, <1>1, <1>3 DEF IInv, LineTimers
<1>15. Slice'
  <2>1. ran' = 0 /\ left' = 0 /\ target' > 0
    BY <1>1, <1>6
  <2>2. QED BY <2>1, <1>3 DEF Slice
<1>16. Reached'
  <2> SUFFICES ASSUME NEW c \in CPU \ yielded
               PROVE  /\ 2 * localtime'[c] > -Cycle[c]
                      /\ c < cur + 1 /\ suspend[c] = {}
                           => 2 * (localtime'[c] - target') > -Cycle[c]
    BY <1>1, <1>2 DEF Reached
  <2>1. /\ 2 * localtime[c] > -Cycle[c]
        /\ c < cur /\ suspend[c] = {} => 2 * (localtime[c] - target) > -Cycle[c]
    BY DEF IInv, Reached
  <2>2. Cycle[c] \in Nat \ {0} /\ localtime[c] \in Int /\ target \in Int /\ target' \in Int
    BY <1>4, <1>6, CpuAssumption DEF IInv, SliceTypes
  <2>3. CASE c = cur
    <3>1. localtime'[c] = now /\ now > 0 /\ target' <= now
      BY <2>3, <1>7, <1>11, <1>12
    <3>2. QED BY <3>1, <2>2, <1>5
  <2>4. CASE c # cur
    <3>1. localtime'[c] = localtime[c] /\ (c < cur + 1 => c < cur)
      BY <2>4, <1>3, <1>7 DEF CPU
    <3>2. QED BY <3>1, <2>1, <2>2, <1>6
  <2>5. QED BY <2>3, <2>4
<1>17. ResetLines' /\ Waiting'
  BY <1>1, <1>2, <1>3 DEF IInv, ResetLines, Waiting
<1>18. WaitIsGuarded'
  BY <1>1, <1>2 DEF IInv, WaitIsGuarded
<1>19. QED BY <1>8, <1>9, <1>10, <1>13, <1>14, <1>15, <1>16, <1>17, <1>18 DEF IInv

\* One timer, moved.
LEMMA MovedTimer ==
  ASSUME NEW t \in TimerRec, NEW d \in Int
  PROVE  [t EXCEPT !.at = @ - d] = [at |-> t.at - d, act |-> t.act, cpu |-> t.cpu]
BY DEF TimerRec

\* Moving the time moves all timers alike.
LEMMA ShiftFacts ==
  ASSUME NEW a \in Seq(TimerRec), Sorted(a), NEW d \in Int,
         NEW b, b = [k \in DOMAIN a |-> [at |-> a[k].at - d, act |-> a[k].act,
                                         cpu |-> a[k].cpu]]
  PROVE  /\ b \in Seq(TimerRec)
         /\ Len(b) = Len(a)
         /\ Sorted(b)
         /\ \A k \in DOMAIN b :
              /\ a[k] \in Range(a) /\ a[k].at \in Int
              /\ b[k] = [at |-> a[k].at - d, act |-> a[k].act, cpu |-> a[k].cpu]
         /\ DOMAIN b = DOMAIN a
<1>1. /\ Len(a) \in Nat /\ DOMAIN a = 1 .. Len(a)
      /\ \A k \in 1 .. Len(a) : a[k] \in TimerRec /\ a[k].at \in Int
  BY AgendaElements
<1>2. DOMAIN b = DOMAIN a
  OBVIOUS
<1>3. \A k \in 1 .. Len(a) :
        /\ b[k] = [at |-> a[k].at - d, act |-> a[k].act, cpu |-> a[k].cpu]
        /\ b[k].at = a[k].at - d
  BY <1>1
<1>4. \A k \in 1 .. Len(a) : b[k] \in TimerRec
  BY <1>1, <1>3 DEF TimerRec
<1>5. b \in [1 .. Len(a) -> TimerRec]
  BY <1>1, <1>4
<1>6. b \in Seq(TimerRec) /\ Len(b) = Len(a)
  BY <1>1, <1>5, SeqDef, LenProperties
<1>7. ASSUME NEW i \in 1 .. Len(a), NEW j \in 1 .. Len(a), i < j
      PROVE  b[i].at <= b[j].at
  <2>1. a[i].at <= a[j].at /\ a[i].at \in Int /\ a[j].at \in Int
    BY <1>1, <1>7 DEF Sorted
  <2>2. b[i].at = a[i].at - d /\ b[j].at = a[j].at - d
    BY <1>3
  <2>3. QED BY <2>1, <2>2
<1>8. QED BY <1>1, <1>2, <1>3, <1>6, <1>7 DEF Range, Sorted

\* At the end of a slice every CPU is at the target: it has run up to it, or
\* eats what is missing.
LEMMA EndSliceIInv ==
  ASSUME IInv, EndSlice
  PROVE  IInv'
<1> DEFINE moved(c) == localtime[c] - target
                         + (IF Eats(c) THEN CyclesToRun(c) * Cycle[c] ELSE 0)
<1>1. /\ cur = CpuCount + 1
      /\ localtime' = [c \in CPU |-> moved(c)]
      /\ agenda' = [k \in DOMAIN agenda |-> [agenda[k] EXCEPT !.at = @ - target]]
      /\ suspend' = nextsuspend /\ eatcycles' = nexteatcycles
      /\ target' = 0 /\ cur' = 0
      /\ UNCHANGED <<left, ran, nextsuspend, nexteatcycles, trigger>>
      /\ UNCHANGED <<yielded, guarded, called, unreset>>
  BY DEF EndSlice, history
<1>2. /\ CpuCount \in Nat \ {0} /\ cur \notin CPU /\ cur # 0 /\ cur # 1
      /\ \A c \in CPU : c < cur
  BY <1>1, CpuAssumption DEF CPU
<1>3. left = 0 /\ ran = 0 /\ target \in 0 .. SlicePeriod /\ target \in Nat
      /\ SlicePeriod \in Nat
  BY <1>2, CpuAssumption DEF IInv, Slice, SliceTypes
<1>4. ASSUME NEW c \in CPU
      PROVE  /\ moved(c) \in Int
             /\ moved(c) >= localtime[c] - target
             /\ Eats(c) => 2 * moved(c) > -Cycle[c]
             /\ localtime[c] \in Int /\ Cycle[c] \in Nat \ {0}
  <2>1. localtime[c] \in Int /\ Cycle[c] \in Nat \ {0}
    BY CpuAssumption DEF IInv, SliceTypes
  <2>2. CASE Eats(c)
    <3> DEFINE eaten == CyclesToRun(c) * Cycle[c]
    <3>1. /\ eaten \in Int
          /\ 2 * (localtime[c] + eaten) > 2 * target - Cycle[c]
          /\ eaten >= 0
      BY <2>2, CyclesFacts DEF IInv, Eats
    <3>2. moved(c) = localtime[c] - target + eaten
      BY <2>2
    <3> HIDE DEF eaten, moved
    <3>3. QED BY <3>1, <3>2, <2>1, <1>3
  <2>3. CASE ~Eats(c)
    <3>1. moved(c) = localtime[c] - target
      BY <2>1, <2>3, <1>3
    <3> HIDE DEF moved
    <3>2. QED BY <3>1, <2>1, <2>3, <1>3
  <2>4. QED BY <2>2, <2>3
<1>5. \A c \in CPU : localtime'[c] = moved(c)
  BY <1>1
<1>6. localtime' \in [CPU -> Int]
  BY <1>1, <1>4
<1>7. ASSUME NEW c \in CPU, ~Eats(c) PROVE moved(c) = localtime[c] - target
  BY <1>3, <1>4, <1>7
<1> HIDE DEF moved
<1>8. SliceTypes'
  <2>1. 0 \in 0 .. SlicePeriod /\ 0 \in 0 .. CpuCount + 1
    BY <1>2, <1>3
  <2>2. QED BY <2>1, <1>1, <1>6 DEF IInv, SliceTypes
<1>9. SuspTypes'
  BY <1>1 DEF IInv, SuspTypes
<1>10. /\ agenda' \in Seq(TimerRec)
       /\ Len(agenda') = Len(agenda)
       /\ Sorted(agenda')
       /\ DOMAIN agenda' = DOMAIN agenda
       /\ \A k \in DOMAIN agenda' :
            /\ agenda[k] \in Range(agenda) /\ agenda[k].at \in Int
            /\ agenda'[k].at = agenda[k].at - target
            /\ agenda'[k].act = agenda[k].act
            /\ agenda'[k].cpu = agenda[k].cpu
            /\ agenda'[k] = [at |-> agenda[k].at - target, act |-> agenda[k].act,
                             cpu |-> agenda[k].cpu]
  <2> DEFINE b == agenda'
  <2>1. agenda \in Seq(TimerRec) /\ Sorted(agenda) /\ target \in Int
    BY <1>3 DEF IInv, Agenda
  <2>2. b = [k \in DOMAIN agenda |-> [at |-> agenda[k].at - target, act |-> agenda[k].act,
                                     cpu |-> agenda[k].cpu]]
    <3>1. \A k \in DOMAIN agenda :
            [agenda[k] EXCEPT !.at = @ - target]
              = [at |-> agenda[k].at - target, act |-> agenda[k].act, cpu |-> agenda[k].cpu]
      BY <2>1, AgendaElements, MovedTimer
    <3>2. QED BY <3>1, <1>1
  <2> HIDE DEF b
  <2>3. /\ b \in Seq(TimerRec)
        /\ Len(b) = Len(agenda)
        /\ Sorted(b)
        /\ \A k \in DOMAIN b :
             /\ agenda[k] \in Range(agenda) /\ agenda[k].at \in Int
             /\ b[k] = [at |-> agenda[k].at - target, act |-> agenda[k].act,
                        cpu |-> agenda[k].cpu]
        /\ DOMAIN b = DOMAIN agenda
    BY <2>1, <2>2, ShiftFacts
  <2>4. \A k \in DOMAIN b : /\ b[k].at = agenda[k].at - target
                            /\ b[k].act = agenda[k].act
                            /\ b[k].cpu = agenda[k].cpu
    BY <2>3
  <2>5. QED BY <2>3, <2>4 DEF b, Sorted
<1>11. Agenda'
  <2>1. PICK k \in DOMAIN agenda : agenda[k].act = "timeslice"
    BY DEF IInv, Agenda, Range
  <2>2. agenda'[k] \in Range(agenda') /\ agenda'[k].act = "timeslice"
    BY <2>1, <1>10 DEF Range
  <2>3. ASSUME NEW t \in Range(agenda')
        PROVE  /\ t.act = "timeslice" => t.at <= SlicePeriod
               /\ t.act # "timeslice" => t.cpu \in CPU
    <3>1. PICK j \in DOMAIN agenda' : t = agenda'[j]
      BY DEF Range
    <3>2. /\ agenda[j].act = "timeslice" => agenda[j].at <= SlicePeriod
          /\ agenda[j].act # "timeslice" => agenda[j].cpu \in CPU
      BY <1>10 DEF IInv, Agenda
    <3>3. QED BY <3>1, <3>2, <1>3, <1>10
  <2>4. QED BY <2>2, <2>3, <1>10 DEF IInv, Agenda
<1>12. OnTime'
  <2>1. ASSUME yielded = {}, NEW k \in DOMAIN agenda'
        PROVE  \E c \in CPU : agenda'[k].at >= 0 - Span(c)
    <3>1. PICK c \in CPU : agenda[k].at >= target - Span(c)
      BY <2>1, <1>3, <1>10 DEF IInv, OnTime
    <3>2. Span(c) \in Nat
      BY FirstCpu
    <3>3. agenda'[k].at >= 0 - Span(c)
      BY <3>1, <3>2, <1>3, <1>10
    <3>4. QED BY <3>3
  <2>2. QED BY <2>1, <1>1 DEF OnTime, Span, Range
<1>13. LineTimers'
  <2>1. ASSUME NEW t \in Range(agenda'), t.act \in LineAct PROVE t.at <= localtime'[1]
    <3>1. PICK k \in DOMAIN agenda' : t = agenda'[k]
      BY DEF Range
    <3>2. agenda[k].at <= localtime[1]
      BY <3>1, <2>1, <1>2, <1>10 DEF IInv, LineTimers
    <3>3. QED BY <3>1, <3>2, <1>3, <1>4, <1>5, <1>10, FirstCpu
  <2>2. ASSUME NEW s \in Range(agenda'), NEW t \in Range(agenda'),
               s.act \in LineAct, t.act \in LineAct
        PROVE  s = t
    <3>1. PICK j \in DOMAIN agenda' : s = agenda'[j]
      BY DEF Range
    <3>2. PICK k \in DOMAIN agenda' : t = agenda'[k]
      BY DEF Range
    <3>3. agenda[j] = agenda[k]
      BY <3>1, <3>2, <2>2, <1>10 DEF IInv, LineTimers
    <3>4. QED BY <3>1, <3>2, <3>3, <1>10
  <2>3. QED BY <2>1, <2>2, <1>1 DEF LineTimers
<1>14. Slice'
  BY <1>1, <1>3 DEF Slice
<1>15. Reached'
  <2>1. ASSUME NEW c \in CPU \ yielded PROVE 2 * localtime'[c] > -Cycle[c]
    <3>1. CASE Eats(c)
      BY <3>1, <1>4, <1>5
    <3>2. CASE ~Eats(c)
      <4>1. localtime'[c] = localtime[c] - target
        BY <3>2, <1>5, <1>7
      <4>2. CASE suspend[c] = {}
        <5>1. 2 * (localtime[c] - target) > -Cycle[c]
          BY <4>2, <1>2 DEF IInv, Reached
        <5>2. QED BY <4>1, <5>1
      <4>3. CASE suspend[c] # {}
        <5>1. eatcycles[c]
          BY <4>3, <1>2 DEF IInv, Eating
        <5>2. ~(localtime[c] < target)
          BY <5>1, <4>3, <3>2 DEF Eats
        <5>3. localtime[c] \in Int /\ Cycle[c] \in Nat \ {0}
          BY <1>4
        <5>4. QED BY <5>2, <5>3, <4>1, <1>3
      <4>4. QED BY <4>2, <4>3
    <3>3. QED BY <3>1, <3>2
  <2>2. \A c \in CPU : ~(c < 0)
    BY DEF CPU
  <2>3. QED BY <2>1, <2>2, <1>1 DEF Reached
<1>16. Eating'
  BY <1>1 DEF IInv, Eating
<1>17. ResetLines'
  <2>1. ASSUME NEW t \in Range(agenda'), "RESET" \in nextsuspend'[t.cpu]
        PROVE  "RESET" \in suspend'[t.cpu]
    BY <2>1, <1>1
  <2>2. QED BY <2>1, <1>1 DEF IInv, ResetLines
<1>18. Waiting'
  BY <1>1 DEF IInv, Waiting
<1>19. WaitIsGuarded'
  <2>1. ASSUME NEW c \in guarded, "TRIGGER" \in nextsuspend[c]
        PROVE  \E k \in DOMAIN agenda' : agenda'[k].act = "trigger" /\ agenda'[k].cpu = c
    <3>1. PICK k \in DOMAIN agenda : agenda[k].act = "trigger" /\ agenda[k].cpu = c
      BY <2>1 DEF IInv, WaitIsGuarded
    <3>2. QED BY <3>1, <1>10
  <2>2. QED BY <2>1, <1>1 DEF WaitIsGuarded
<1>20. QED BY <1>8, <1>9, <1>11, <1>12, <1>13, <1>14, <1>15, <1>16, <1>17, <1>18, <1>19 DEF IInv

-----------------------------------------------------------------------------
(***************************************************************************)
(* The theorems.                                                           *)
(***************************************************************************)
LEMMA InitIInv == Init => IInv
<1> SUFFICES ASSUME Init PROVE IInv
  OBVIOUS
<1> DEFINE t == Timer(SlicePeriod, "timeslice", 0)
<1>1. /\ CpuCount \in Nat \ {0} /\ SlicePeriod \in Nat \ {0} /\ MaxAgenda \in Nat \ {0}
      /\ \A c \in CPU : Cycle[c] \in Nat \ {0}
      /\ 0 \in 0 .. CpuCount /\ 0 \notin CPU
  BY CpuAssumption DEF CPU
<1>2. t \in TimerRec /\ t.at = SlicePeriod /\ t.act = "timeslice" /\ t.act \notin LineAct
      /\ t.act # "clear_reset"
  BY <1>1 DEF Timer, TimerRec, LineAct
<1>3. agenda = <<t>>
  BY DEF Init
<1> HIDE DEF t
<1>4. /\ agenda \in Seq(TimerRec) /\ Len(agenda) = 1 /\ DOMAIN agenda = 1 .. 1
      /\ agenda[1] = t
  BY <1>2, <1>3
<1>5. Range(agenda) = {t}
  BY <1>4 DEF Range
<1>6. Sorted(agenda)
  BY <1>4 DEF Sorted
<1>7. SliceTypes
  <2>1. 0 \in 0 .. SlicePeriod /\ 0 \in 0 .. CpuCount + 1
    BY <1>1
  <2>2. QED BY <2>1 DEF Init, SliceTypes
<1>8. SuspTypes
  BY <1>1 DEF Init, SuspTypes, Reason
<1>9. Agenda
  BY <1>1, <1>2, <1>4, <1>5, <1>6 DEF Agenda
<1>10. OnTime
  <2>1. t.at >= 0 - Span(1)
    BY <1>1, <1>2, FirstCpu
  <2>2. QED BY <2>1, <1>5, FirstCpu DEF OnTime, Init
<1>11. LineTimers
  BY <1>2, <1>5 DEF Init, LineTimers
<1>12. Slice
  BY DEF Init, Slice
<1>13. Reached
  <2>1. \A c \in CPU : ~(c < 0) /\ localtime[c] = 0
    BY DEF Init, CPU
  <2>2. \A c \in CPU : 2 * 0 > -Cycle[c]
    BY <1>1
  <2>3. QED BY <2>1, <2>2 DEF Init, Reached
<1>14. Eating
  BY DEF Init, Eating
<1>15. ResetLines /\ Waiting
  BY <1>2, <1>5 DEF Init, ResetLines, Waiting
<1>16. WaitIsGuarded
  BY DEF Init, WaitIsGuarded
<1>17. QED BY <1>7, <1>8, <1>9, <1>10, <1>11, <1>12, <1>13, <1>14, <1>15, <1>16 DEF IInv

LEMMA NextIInv == IInv /\ [Next]_vars => IInv'
<1> SUFFICES ASSUME IInv, [Next]_vars PROVE IInv'
  OBVIOUS
<1>1. CASE Fire
  BY <1>1, FireTimesliceIInv, FireTriggerIInv, FireHaltIInv, FireResetIInv DEF Fire
<1>2. CASE Instructions
  BY <1>2, ComputeIInv, WaitIInv, TriggerIInv, GuardedWaitIInv, InterruptIInv,
     LineIInv, SuspendOtherIInv DEF Instructions
<1>3. CASE Timeslice
  BY <1>3, BeginSliceIInv, ExecuteIInv, PassIInv, ExecuteDoneIInv, EndSliceIInv
  DEF Timeslice
<1>4. CASE UNCHANGED vars
  <2>1. /\ UNCHANGED <<localtime, target, cur, left, ran, agenda>>
        /\ UNCHANGED <<suspend, nextsuspend, eatcycles, nexteatcycles, trigger>>
        /\ UNCHANGED <<yielded, guarded, called, unreset>>
    BY <1>4 DEF vars, suspendVars, sliceVars, history
  <2>2. SliceTypes' /\ SuspTypes' /\ Agenda'
    BY <2>1 DEF IInv, SliceTypes, SuspTypes, Agenda
  <2>3. OnTime' /\ LineTimers' /\ Slice'
    BY <2>1 DEF IInv, OnTime, LineTimers, Slice, Now, Span, CyclesToRun
  <2>4. Reached' /\ Eating' /\ ResetLines' /\ Waiting' /\ WaitIsGuarded'
    BY <2>1 DEF IInv, Reached, Eating, ResetLines, Waiting, WaitIsGuarded
  <2>5. QED BY <2>2, <2>3, <2>4 DEF IInv
<1>5. QED BY <1>1, <1>2, <1>3, <1>4 DEF Next

\* The inductive invariant: where the CPUs, the timers, the reset lines and the
\* waits are at every point of a slice and between slices.
THEOREM SchedulerInvariance == Spec => []IInv
BY InitIInv, NextIInv, PTL DEF Spec

\* Types of the scheduler. The target never exceeds timeslice_period, because
\* the timeslice timer is always pending, and no CPU waits for the trigger of
\* another.
THEOREM SchedulerTypeCorrect == Spec => []TypeOK
<1>1. IInv => TypeOK
  <2> SUFFICES ASSUME IInv PROVE TypeOK
    OBVIOUS
  <2>1. Len(agenda) \in 1 .. MaxAgenda
    <3>1. Len(agenda) \in Nat /\ Len(agenda) # 0 /\ MaxAgenda \in Nat
      BY HeadOfAgenda, AgendaElements, EmptySeq, CpuAssumption DEF IInv, Agenda
    <3>2. QED BY <3>1 DEF IInv, Agenda
  <2>2. QED BY <2>1 DEF IInv, SliceTypes, SuspTypes, TypeOK
<1>2. QED BY <1>1, SchedulerInvariance, PTL

\* cpu_timeslice: after a slice every CPU that never yielded has reached the
\* time to which the slice was cut down, to half a cycle of its own.
THEOREM NoCpuIsLate == Spec => []NoCpuFallsBehind
<1>1. IInv => NoCpuFallsBehind
  BY DEF IInv, Reached, NoCpuFallsBehind
<1>2. QED BY <1>1, SchedulerInvariance, PTL

\* timer_adjust_global_time: while no CPU has yielded, no timer is overdue by
\* more than an instruction when the timers fire.
THEOREM TimersAreOnTime == Spec => []TimersFireOnTime
<1>1. IInv => TimersFireOnTime
  <2> SUFFICES ASSUME IInv, cur = 0, yielded = {}, NEW k \in DOMAIN agenda
               PROVE  \E c \in CPU : agenda[k].at >= -(MaxCycles * Cycle[c])
    BY DEF TimersFireOnTime
  <2>1. agenda[k] \in Range(agenda) /\ target = 0 /\ cur \notin CPU
    BY DEF Range, IInv, Slice, CPU
  <2>2. PICK c \in CPU : agenda[k].at >= target - Span(c)
    BY <2>1 DEF IInv, OnTime
  <2>3. Span(c) \in Nat /\ agenda[k].at \in Int
    BY <2>1, FirstCpu, HeadOfAgenda
  <2>4. agenda[k].at >= -Span(c)
    BY <2>1, <2>2, <2>3
  <2>5. QED BY <2>4 DEF Span
<1>2. QED BY <1>1, SchedulerInvariance, PTL

\* reset_callback: a CPU does not run between the release of its reset line and
\* its reset, for any number of CPUs with lines driven by the first.
THEOREM ReleasedCpuIsReset == Spec => []ReleasedCpuWasReset
<1>1. IInv => ReleasedCpuWasReset
  BY DEF IInv, ResetLines, ReleasedCpuWasReset
<1>2. QED BY <1>1, SchedulerInvariance, PTL

\* cpu_trigger: the guard of a wait in rfranco.c is pending as long as the CPU
\* waits.
THEOREM GuardEndsTheWait == Spec => []WaitIsGuarded
<1>1. IInv => WaitIsGuarded
  BY DEF IInv
<1>2. QED BY <1>1, SchedulerInvariance, PTL

=============================================================================
