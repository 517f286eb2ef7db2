------------------------ MODULE LoopEngine_proof ------------------------
(***************************************************************************)
(* What the recorder promises, for any slots, blocks, tails and lengths of *)
(* pulse, any way to align and to subdivide it, and any set of commands.   *)
(*                                                                         *)
(* One loop at most is recorded or overdubbed, and what plays is stored    *)
(* and read inside.  Neither is inductive alone: a recording that ends     *)
(* sets a loop's position from the pulse, so the pulse must be inside its  *)
(* beat and its cycle (Beating), and a loop must have its frames before    *)
(* it sounds (Provided, Inside).                                           *)
(*                                                                         *)
(* No frame ends what nobody asked to stop: until somebody does, nothing   *)
(* is left of an earlier stop, neither a downbeat waited for nor a tail, a *)
(* target or a fade (Unasked).                                             *)
(*                                                                         *)
(* A synchronised recording that is asked to stop once has the frames of   *)
(* its beats: at every frame it has those since its downbeat (Beaten), or  *)
(* never gets one more (Stuck), and once asked the orders that end it at   *)
(* its last beat and the tail (Due).                                       *)
(*                                                                         *)
(* The beats of every synchronised loop divide the long cycle, those of a  *)
(* recording from when it is asked to stop (Covered, Uncommitted).         *)
(*                                                                         *)
(* The proof is built as the model is: for each operator on the engine a   *)
(* lemma (...Gives) says what it keeps, and a handler that calls others    *)
(* cites theirs.  That a frame keeps it in every slot, one after the       *)
(* other, is shown by the least slot it would fail at (Least).             *)
(***************************************************************************)
EXTENDS LoopEngine, FiniteSetTheorems, WellFoundedInduction, TLAPS

\* The least-number principle, for a set given as such: it stands in for induction.
LEMMA Least ==
  ASSUME NEW n \in Nat, NEW T \in SUBSET (0..n), T # {}
  PROVE  \E m \in T : \A x \in T : m <= x
<1> DEFINE Upto(m) == {x \in T : x <= m}
           F == {Upto(m) : m \in T}
<1>1. IsFiniteSet(0..n) /\ IsFiniteSet(T)
  <2>1. 0 \in Int /\ n \in Int
    OBVIOUS
  <2>2. IsFiniteSet(0..n)
    BY <2>1, FS_Interval
  <2> QED BY <2>2, FS_Subset
<1>2. F \subseteq FiniteSubsetsOf(T)
  BY <1>1, FS_Subset DEF FiniteSubsetsOf
<1>3. F # {}
  OBVIOUS
<1>4. IsWellFoundedOn(StrictSubsetOrdering(T), FiniteSubsetsOf(T))
  BY FS_StrictSubsetOrderingWellFounded
<1>5. PICK U \in F : \A V \in F : ~(<<V, U>> \in StrictSubsetOrdering(T))
  BY <1>2, <1>3, <1>4, WFMin
<1>6. PICK m \in T : U = Upto(m)
  OBVIOUS
<1>7. ASSUME NEW x \in T, x < m PROVE FALSE
  <2> x \in Int /\ m \in Int /\ \A y \in T : y \in Int
    OBVIOUS
  <2>a. Upto(x) \in F
    OBVIOUS
  <2>b. Upto(x) \subseteq Upto(m)
    <3>1. ASSUME NEW y \in T, y <= x PROVE y <= m
      <4>1. y \in Int
        OBVIOUS
      <4> QED BY <1>7, <3>1, <4>1
    <3> QED BY <3>1
  <2>c. m \in Upto(m) /\ m \notin Upto(x)
    <3>1. m <= m /\ ~(m <= x)
      BY <1>7
    <3> QED BY <3>1
  <2>1. Upto(x) \in F /\ Upto(x) \subseteq Upto(m) /\ m \in Upto(m) /\ m \notin Upto(x)
    BY <2>a, <2>b, <2>c
  <2>2. <<Upto(x), U>> \in StrictSubsetOrdering(T)
    BY <1>6, <2>1 DEF StrictSubsetOrdering
  <2> QED
    BY <1>5, <2>1, <2>2
<1>8. m \in Int /\ \A x \in T : x \in Int
  OBVIOUS
<1>9. \A x \in T : m <= x
  BY <1>7, <1>8
<1> QED
  BY <1>9

SlotsFrom(e, n, f) == /\ DOMAIN f = 0..n /\ f[0] = e
                      /\ \A k \in 1..n : f[k] = SlotFrame(f[k - 1], k)

LEMMA SlotsInTurn ==
  ASSUME NEW e, NEW n \in Nat
  PROVE  \E f : SlotsFrom(e, n, f)
<1> DEFINE T == {k \in 0..n : ~ \E f : SlotsFrom(e, k, f)}
<1>1. CASE T = {}
  BY <1>1
<1>2. CASE T # {}
  <2>1. PICK m \in T : \A x \in T : m <= x
    <3> T \in SUBSET (0..n)
      OBVIOUS
    <3> HIDE DEF T
    <3> QED BY <1>2, Least
  <2>2. m # 0
    <3>1. SlotsFrom(e, 0, [k \in 0..0 |-> e])
      BY DEF SlotsFrom
    <3> QED BY <3>1
  <2>3. m - 1 \in 0..n /\ m - 1 \notin T
    BY <2>1, <2>2
  <2>4. PICK f : SlotsFrom(e, m - 1, f)
    BY <2>3
  <2> DEFINE g == [k \in 0..m |-> IF k = m THEN SlotFrame(f[m - 1], m) ELSE f[k]]
  <2>5. SlotsFrom(e, m, g)
    <3>1. m \in Nat /\ g[0] = e
      BY <2>2, <2>4 DEF SlotsFrom
    <3>2. ASSUME NEW k \in 1..m PROVE g[k] = SlotFrame(g[k - 1], k)
      <4>1. k - 1 \in 0..m /\ k \in 0..m /\ k - 1 # m
        BY <3>1
      <4>2. g[k - 1] = f[k - 1]
        BY <4>1
      <4>3. CASE k = m
        BY <4>1, <4>2, <4>3
      <4>4. CASE k # m
        <5>1. k \in 1..(m - 1)
          BY <3>1, <4>4
        <5>2. f[k] = SlotFrame(f[k - 1], k)
          BY <2>4, <5>1 DEF SlotsFrom
        <5> QED BY <4>1, <4>2, <4>4, <5>2
      <4> QED BY <4>3, <4>4
    <3> QED BY <3>1, <3>2 DEF SlotsFrom
  <2> QED BY <2>1, <2>5
<1> QED BY <1>1, <1>2

\* The last of them is what AllSlotsFrame makes of the engine.
LEMMA AllSlots ==
  ASSUME NEW e, NSlots \in Nat
  PROVE  \E f : SlotsFrom(e, NSlots, f) /\ AllSlotsFrame(e) = f[NSlots]
<1> DEFINE Def(f) == [n \in 0..NSlots |-> IF n = 0 THEN e ELSE SlotFrame(f[n - 1], n)]
           F == CHOOSE f : f = Def(f)
<1>1. PICK g : SlotsFrom(e, NSlots, g)
  BY SlotsInTurn
<1> DEFINE h == [n \in 0..NSlots |-> g[n]]
<1>2. h = Def(h)
  <2>1. ASSUME NEW n \in 0..NSlots PROVE h[n] = Def(h)[n]
    <3>1. CASE n = 0
      BY <1>1, <3>1 DEF SlotsFrom
    <3>2. CASE n # 0
      <4>1. n \in 1..NSlots /\ n - 1 \in 0..NSlots
        BY <3>2
      <4>2. g[n] = SlotFrame(g[n - 1], n)
        BY <1>1, <4>1 DEF SlotsFrom
      <4> QED BY <3>2, <4>1, <4>2
    <3> QED BY <3>1, <3>2
  <2> QED BY <2>1
<1>3. F = Def(F)
  BY <1>2
<1>4. AllSlotsFrame(e) = F[NSlots]
  BY DEF AllSlotsFrame
<1> HIDE DEF F
<1>5. SlotsFrom(e, NSlots, F)
  <2>1. DOMAIN F = 0..NSlots
    BY <1>3
  <2>2. F[0] = e
    BY <1>3
  <2>3. ASSUME NEW k \in 1..NSlots PROVE F[k] = SlotFrame(F[k - 1], k)
    BY <1>3
  <2> QED BY <2>1, <2>2, <2>3 DEF SlotsFrom
<1> QED BY <1>4, <1>5

--------------------------------------------------------------------------
(* Arithmetic                                                              *)

LEMMA EngineBounds ==
  /\ NSlots \in Nat \ {0} /\ BlockFrames \in Nat \ {0} /\ MaxBlocks \in Nat \ {0}
  /\ TailFrames \in Nat \ {0} /\ CallbackFrames \in Nat \ {0} /\ CopyFrames \in Nat \ {0}
  /\ Subdivision \in Nat \ {0}
  /\ ReadyBlocks \in Nat /\ BufferFrames \in Nat /\ SmoothFrames \in Nat /\ Alignment \in Nat
  /\ StartPulse \in Nat /\ MaxElapsed \in Nat /\ WorkerKeepsUp \in BOOLEAN
  /\ PulseLengths \subseteq Nat /\ TapGaps \subseteq Nat /\ ImportLengths \subseteq 1..BufferFrames
  /\ SmoothFrames < BlockFrames /\ SmoothFrames < BufferFrames
  /\ U32Max \in Nat \ {0} /\ ShortTap \in Nat
  BY EngineAssumption, PulseAssumption

LEMMA TimesGrows ==
  ASSUME NEW x \in Nat, NEW y \in Nat, NEW f \in Nat, x <= y
  PROVE  x * f <= y * f /\ x * f \in Nat /\ y * f \in Nat
<1>1. PICK z \in Nat : y = x + z
  <2>1. y - x \in Nat /\ y = x + (y - x)
    OBVIOUS
  <2> QED
    BY <2>1
<1>2. y * f = x * f + z * f /\ z * f \in Nat /\ x * f \in Nat
  BY <1>1
<1> QED
  BY <1>2

LEMMA Divided ==
  ASSUME NEW a \in Nat, NEW f \in Nat \ {0}
  PROVE  a \div f \in Nat /\ a % f \in Nat /\ a % f < f /\ a = (a \div f) * f + (a % f)
<1>1. a \div f \in Nat
  OBVIOUS
<1>2. a = f * (a \div f) + (a % f) /\ a % f \in 0..(f - 1)
  OBVIOUS
<1>3. f * (a \div f) = (a \div f) * f /\ (a \div f) * f \in Nat
  BY <1>1
<1> QED
  BY <1>1, <1>2, <1>3

\* The greatest common divisor exists, and divides both.
LEMMA GcdDivides ==
  ASSUME NEW m \in Nat \ {0}, NEW n \in Nat
  PROVE  Gcd(m, n) \in 1..m /\ m % Gcd(m, n) = 0 /\ n % Gcd(m, n) = 0
<1> DEFINE Divides(d) == m % d = 0 /\ n % d = 0
           D == {d \in 1..m : Divides(d)}
           T == {k \in 0..m : \E d \in D : k = m - d}
<1>1. 1 \in D
  <2>1. m % 1 = 0 /\ n % 1 = 0 /\ 1 \in 1..m
    <3>1. m % 1 \in 0..(1 - 1) /\ n % 1 \in 0..(1 - 1)
      OBVIOUS
    <3> QED BY <3>1
  <2> QED BY <2>1
<1> HIDE DEF Divides
<1>2. T # {} /\ T \in SUBSET (0..m)
  <2>1. m - 1 \in 0..m
    OBVIOUS
  <2>2. m - 1 \in T
    BY <1>1, <2>1
  <2> QED BY <2>2
<1> HIDE DEF T
<1>3. PICK k \in T : \A x \in T : k <= x
  BY <1>2, Least
<1>4. PICK d \in D : k = m - d
  BY DEF T
<1>5. ASSUME NEW c \in 1..m, Divides(c) PROVE c <= d
  <2>1. c \in D /\ m - c \in 0..m
    BY <1>5
  <2>2. m - c \in T
    BY <2>1 DEF T
  <2>3. k <= m - c
    BY <1>3, <2>2
  <2>4. d \in Int /\ c \in Int
    OBVIOUS
  <2> QED BY <1>4, <2>3, <2>4
<1>6. d \in 1..m /\ Divides(d)
  OBVIOUS
<1>7. Gcd(m, n) \in 1..m /\ Divides(Gcd(m, n))
  BY <1>5, <1>6 DEF Gcd, Divides
<1> QED BY <1>7 DEF Divides

\* The least common multiple is no less than what it is a multiple of.
LEMMA CycleGrows ==
  ASSUME NEW m \in Nat \ {0}, NEW n \in Nat \ {0}
  PROVE  (m \div Gcd(m, n)) * n \in Nat /\ (m \div Gcd(m, n)) * n >= m
<1> DEFINE g == Gcd(m, n)
           q == m \div g
<1>1. g \in Nat \ {0} /\ m % g = 0 /\ n % g = 0
  BY GcdDivides
<1> HIDE DEF g
<1>2. q \in Nat /\ m = q * g + (m % g)
  BY <1>1, Divided
<1>3. n \div g \in Nat /\ n = (n \div g) * g + (n % g)
  BY <1>1, Divided
<1> DEFINE r == n \div g
<1> HIDE DEF q, r
<1>4. m = q * g /\ n = r * g
  <2>1. q * g \in Nat /\ r * g \in Nat
    BY <1>1, <1>2, <1>3 DEF r
  <2> QED BY <1>1, <1>2, <1>3, <2>1 DEF r
<1>5. r \in Nat /\ r # 0
  <2>1. r \in Nat
    BY <1>3 DEF r
  <2>2. r = 0 => r * g = 0
    BY <1>1
  <2> QED BY <1>4, <2>1, <2>2
<1>6. g <= n
  <2>1. 1 * g <= r * g
    BY <1>1, <1>5, TimesGrows
  <2> QED BY <1>1, <1>4, <2>1
<1>7. g * q <= n * q /\ n * q \in Nat
  BY <1>1, <1>2, <1>6, TimesGrows
<1>8. g * q = q * g /\ n * q = q * n
  BY <1>1, <1>2
<1>9. q * n \in Nat /\ q * n >= m
  BY <1>4, <1>7, <1>8
<1> QED BY <1>9 DEF q, g

\* A multiple of b.
LEMMA Multiple ==
  ASSUME NEW k \in Nat, NEW b \in Nat \ {0}
  PROVE  k * b \in Nat /\ (k * b) % b = 0
<1> DEFINE a == k * b
           q == a \div b
           r == a % b
<1>1. a \in Nat
  OBVIOUS
<1>2. q \in Nat /\ r \in Nat /\ r < b /\ a = q * b + r
  BY <1>1, Divided
<1>3. a = k * b
  OBVIOUS
<1> HIDE DEF a, q, r
<1>4. q * b \in Nat
  BY <1>2
<1>5. CASE k <= q
  <2>1. k * b <= q * b
    BY <1>2, <1>5, TimesGrows
  <2> QED BY <1>1, <1>2, <1>3, <1>4, <2>1 DEF a, r
<1>6. CASE ~(k <= q)
  <2>1. q + 1 <= k /\ q + 1 \in Nat
    BY <1>2, <1>6
  <2>2. (q + 1) * b <= k * b
    BY <2>1, TimesGrows
  <2>3. (q + 1) * b = q * b + b
    BY <1>2
  <2> QED BY <1>1, <1>2, <1>3, <1>4, <2>2, <2>3
<1> QED BY <1>5, <1>6

\* The least common multiple is a multiple of both, and of whatever one of them is one of.
LEMMA CycleCovers ==
  ASSUME NEW m \in Nat \ {0}, NEW n \in Nat \ {0}
  PROVE  LET most == (m \div Gcd(m, n)) * n
         IN most % n = 0 /\ \A c \in Nat \ {0} : m % c = 0 => most % c = 0
<1> DEFINE g == Gcd(m, n)
           q == m \div g
           r == n \div g
<1>1. g \in Nat \ {0} /\ m % g = 0 /\ n % g = 0
  BY GcdDivides
<1> HIDE DEF g
<1>2. q \in Nat /\ m = q * g + (m % g) /\ r \in Nat /\ n = r * g + (n % g)
  BY <1>1, Divided
<1> HIDE DEF q, r
<1>3. m = q * g /\ n = r * g
  <2>1. q * g \in Nat /\ r * g \in Nat
    BY <1>1, <1>2
  <2> QED BY <1>1, <1>2, <2>1
<1>4. q * n = r * m
  <2>1. q * (r * g) = r * (q * g)
    BY <1>1, <1>2
  <2> QED BY <1>3, <2>1
<1>5. (q * n) % n = 0
  BY <1>2, Multiple
<1>6. ASSUME NEW c \in Nat \ {0}, m % c = 0 PROVE (q * n) % c = 0
  <2> DEFINE x == m \div c
  <2>1. x \in Nat /\ m = x * c + (m % c)
    BY Divided
  <2> HIDE DEF x
  <2>2. m = x * c
    <3>1. x * c \in Nat
      BY <2>1
    <3> QED BY <1>6, <2>1, <3>1
  <2>3. r * (x * c) = (r * x) * c /\ r * x \in Nat
    BY <1>2, <2>1
  <2>4. ((r * x) * c) % c = 0
    BY <2>3, Multiple
  <2> QED BY <1>4, <2>2, <2>3, <2>4
<1> QED BY <1>5, <1>6 DEF q, g

--------------------------------------------------------------------------
(* Engines                                                                 *)

Modes == {"Empty", "Recording", "Overdubbing", "Playing", "Muted"}
LoopRecords ==
  [mode : Modes, len : Nat, position : Nat, blocks : 0..MaxBlocks, buffer : {0, BufferFrames},
   offset : Nat, synced : BOOLEAN, beats : Nat, alignment : Nat, ending : Nat, jump : Nat, heard : Nat]
Recorders ==
  [slot : 0..NSlots, waitStart : BOOLEAN, waitStop : BOOLEAN, tail : Nat, late : BOOLEAN,
   phase : Nat, elapsed : Nat, target : Nat, skip : Nat,
   justify : BOOLEAN, beats : Nat, extended : BOOLEAN]
Pulses ==
  [frames : Nat, position : Nat, longCount : Nat, longLength : Nat,
   active : BOOLEAN, armed : BOOLEAN, suppressed : BOOLEAN]
Engines ==
  [loops : [LoopSlots -> LoopRecords], rec : Recorders, pulse : Pulses, ready : Nat]

\* Every block taken is replaced at once, so that no Record is refused its first.
Supplied == WorkerKeepsUp /\ ReadyBlocks > 0

\* The clock is inside its beat and its cycle.
Beating(p) ==
  /\ p \in Pulses /\ p.position < p.frames
  /\ p.longCount < p.longLength /\ p.longLength <= U32Max

\* What plays has frames, what is being recorded has storage, from its start ...
Provided(l) ==
  /\ l.mode \in {"Playing", "Overdubbing"} => l.len > 0
  /\ l.mode = "Recording" => /\ l.offset = 0 /\ l.len <= Stored(l)
                             /\ l.blocks > 0 \/ l.buffer > 0
  /\ Supplied => l.len <= Stored(l)

\* ... and a loop that does not start over is at one of its frames.
Inside(l) == l.position = 0 \/ l.position < l.len

Working(e) == /\ e \in Engines /\ Beating(e.pulse) /\ (Supplied => e.ready > 0)
              /\ \A i \in LoopSlots : Provided(e.loops[i])

\* The same of an engine that is about to become another in slot i.
WorkingBut(e, i) == /\ e \in Engines /\ Beating(e.pulse) /\ (Supplied => e.ready > 0)
                    /\ \A j \in LoopSlots : j # i => Provided(e.loops[j])

Healthy(e) == Working(e) /\ \A i \in LoopSlots : Inside(e.loops[i])

Live(l) == l.mode \in {"Recording", "Overdubbing"}
OneAt(e) == \A i \in LoopSlots : Live(e.loops[i]) => e.rec.slot = i
Quiet(e) == \A i \in LoopSlots : ~Live(e.loops[i])

\* Nothing of an earlier recording is left in the recorder, and nothing in the engine
\* would end the one it is at.
Rested(r)  == r.slot = None /\ ~r.waitStart /\ ~r.waitStop /\ r.tail = None /\ r.target = None
Unasked(e) == e.rec.slot # None =>
  /\ ~e.rec.waitStop /\ e.rec.tail = None /\ e.rec.target = None
  /\ \A i \in LoopSlots : e.loops[i].mode = "Overdubbing" => e.loops[i].ending = None

\* Becoming f, e is not asked to stop: what f has to end, e had.
SameRequests(r, q) == q.waitStop = r.waitStop /\ q.tail = r.tail /\ q.target = r.target
Heeds(e, f) ==
  /\ f.rec.slot # None => e.rec.slot # None /\ SameRequests(e.rec, f.rec)
  /\ \A i \in LoopSlots : f.loops[i].mode = "Overdubbing" =>
       \E j \in LoopSlots : e.loops[j].mode = "Overdubbing" /\ f.loops[i].ending = e.loops[j].ending

\* The long cycle is a multiple of b beats, unless it has met the largest number.
InCycle(p, b) == p.active /\ p.longLength # U32Max /\ b # 0 => p.longLength % b = 0
Longer(p, q) == \A b \in Nat : InCycle(p, b) => InCycle(q, b)

\* It covers every synchronised loop that has frames or is about to, also the one that is
\* being recorded, if that has its beats already.
Sounds(l) == l.mode = "Recording" \/ l.len # 0
Committed(e, i) == i = e.rec.slot /\ e.loops[i].mode = "Recording" => e.rec.extended
Covered(e) ==
  \A i \in LoopSlots : Sounds(e.loops[i]) /\ e.loops[i].synced => InCycle(e.pulse, e.loops[i].beats)
CoveredBut(e) ==
  \A i \in LoopSlots : Sounds(e.loops[i]) /\ e.loops[i].synced /\ Committed(e, i)
                      => InCycle(e.pulse, e.loops[i].beats)

\* The loop the recorder names is being recorded or overdubbed, and a recording nobody asked
\* to stop is not in the cycle yet.
Attended(e)    == e.rec.slot # None => Live(e.loops[e.rec.slot])
Uncommitted(e) == e.rec.slot # None /\ e.loops[e.rec.slot].mode = "Recording" => ~e.rec.extended
Cycling(e)     == Covered(e) /\ Attended(e) /\ Uncommitted(e)

\* Becoming f, e covers what it covered, and records on what it records, if at all.
Shares(l, m) == /\ m.synced = l.synced /\ m.beats = l.beats
                /\ Sounds(m) => Sounds(l)
RecordsOn(e, f) == f.rec.slot # None =>
  /\ f.rec.slot = e.rec.slot /\ f.rec.extended = e.rec.extended
  /\ f.loops[f.rec.slot].mode = e.loops[f.rec.slot].mode
Cycled(e, f) == (Covered(e) => Covered(f)) /\ RecordsOn(e, f)

LEMMA CycledOn ==
  ASSUME NEW e, NEW f, NEW g, Cycled(e, f), Cycled(f, g)
  PROVE  Cycled(e, g)
  BY DEF Cycled, RecordsOn

LEMMA CycledKeeps ==
  ASSUME NEW e, NEW f, Cycled(e, f)
  PROVE  (Attended(e) => Attended(f)) /\ (Uncommitted(e) => Uncommitted(f))
  BY DEF Cycled, RecordsOn, Attended, Uncommitted, Live

LEMMA CycledItself == \A e : Cycled(e, e)
  BY DEF Cycled, RecordsOn

LEMMA HeedsOn ==
  ASSUME NEW e, NEW f, Heeds(e, f), Unasked(e)
  PROVE  Unasked(f)
  BY DEF Heeds, SameRequests, Unasked

\* A recording with no room left, and one that never gets more.
Full(l)  == l.len = Stored(l)
Stuck(l) == l.blocks = 0 /\ Full(l)

\* The clock is where it was, in a beat as long.
SamePulse(p, q) ==
  q.frames = p.frames /\ q.position = p.position /\ q.active = p.active /\ q.suppressed = p.suppressed

\* A recording of the frames since the downbeat of its first beat: those of the beats that
\* are complete, and of the one that is not.  Until it starts there are none.
Beaten(p, r, l) ==
  /\ l.synced /\ r.skip = 0
  /\ r.waitStart => l.len = 0
  /\ \/ l.len = 0 /\ r.beats = 0 /\ (r.waitStart \/ p.position = 0)
     \/ p.position # 0 /\ l.len = r.beats * p.frames + p.position
     \/ p.position = 0 /\ l.len = (r.beats + 1) * p.frames

\* One that has been asked to stop, and will have the beats it was given: it waits for the
\* downbeat that ends the last, for its length, or for the tail.
Due(p, r, l) ==
  /\ l.beats > 0 /\ l.len > 0
  /\ \/ r.waitStop /\ r.tail = None /\ r.target = None /\ l.beats = r.beats + 1
     \/ /\ ~r.waitStop /\ r.tail = None /\ r.target # None /\ l.len < r.target
        /\ r.target = l.beats * p.frames + RecordingTailFrames
     \/ /\ ~r.waitStop /\ r.tail # None /\ r.target = None
        /\ l.len + r.tail = l.beats * p.frames + RecordingTailFrames

\* Becoming f, e goes on with the recording it is at, of the same length ...
GoesOn(e, f) ==
  /\ f.rec.slot = e.rec.slot /\ (Unasked(e) => Unasked(f))
  /\ \A i \in LoopSlots : /\ f.loops[i].ending = e.loops[i].ending
                          /\ Full(f.loops[i]) => Full(e.loops[i])

\* ... or slot i takes a frame, and is recorded no longer if it is full.
Played(e, f, i) ==
  /\ f.rec.slot = e.rec.slot \/ (f.rec.slot = None /\ e.rec.slot = i /\ Full(e.loops[i]))
  /\ f.rec.slot # None => SameRequests(e.rec, f.rec)
  /\ f.loops[i].mode = "Overdubbing" => e.loops[i].mode = "Overdubbing"
  /\ e.loops[i].mode # "Overdubbing" \/ e.loops[i].ending = None
       => f.loops[i].ending = e.loops[i].ending
  /\ f.pulse = e.pulse /\ (e.loops[i].mode # "Recording" => f.rec = e.rec)
  /\ \A j \in LoopSlots : j # i => f.loops[j] = e.loops[j]
  /\ Shares(e.loops[i], f.loops[i])
  /\ f.rec.slot # None => f.rec.extended = e.rec.extended /\ f.loops[i].mode = e.loops[i].mode

\* ... the one being recorded, unless it waits for its start or has no room left.
Takes(e, f, i) ==
  LET l == e.loops[i]
      m == f.loops[i]
  IN \/ f.rec.slot = None /\ m.len <= l.len
     \/ /\ f.rec = e.rec /\ m.mode = "Recording" /\ m.synced = l.synced /\ m.beats = l.beats
        /\ IF e.rec.waitStart THEN m = l ELSE m.len = l.len + 1 /\ ~Stuck(l)

\* Becoming f, e leaves the storage of a loop alone that is not being recorded.
Keeps(l, m) == l.mode # "Recording" => m.mode # "Recording" /\ Stored(m) = Stored(l)
Spares(e, f) == \A i \in LoopSlots : Keeps(e.loops[i], f.loops[i])
SparesBut(e, f, i) == \A j \in LoopSlots : j # i => Keeps(e.loops[j], f.loops[j])

LEMMA SparesOn ==
  ASSUME NEW e, NEW f, NEW g, Spares(e, f), Spares(f, g)
  PROVE  Spares(e, g)
  BY DEF Spares, Keeps

LEMMA SparesItself == \A e : Spares(e, e)
  BY DEF Spares, Keeps

\* An engine is its four parts.
With(L, r, p, n) == [loops |-> L, rec |-> r, pulse |-> p, ready |-> n]

LEMMA WithIs ==
  ASSUME NEW e \in Engines
  PROVE  /\ e = With(e.loops, e.rec, e.pulse, e.ready)
         /\ e.loops \in [LoopSlots -> LoopRecords] /\ e.rec \in Recorders
         /\ e.pulse \in Pulses /\ e.ready \in Nat
         /\ \A L, r, p, n :
              /\ [e EXCEPT !.loops = L] = With(L, e.rec, e.pulse, e.ready)
              /\ [e EXCEPT !.rec = r] = With(e.loops, r, e.pulse, e.ready)
              /\ [e EXCEPT !.pulse = p] = With(e.loops, e.rec, p, e.ready)
              /\ [e EXCEPT !.ready = n] = With(e.loops, e.rec, e.pulse, n)
<1>1. /\ e.loops \in [LoopSlots -> LoopRecords] /\ e.rec \in Recorders
      /\ e.pulse \in Pulses /\ e.ready \in Nat
  BY DEF Engines
<1>2. e = With(e.loops, e.rec, e.pulse, e.ready)
  BY DEF Engines, With
<1>3. ASSUME NEW L, NEW r, NEW p, NEW n
      PROVE  /\ [e EXCEPT !.loops = L] = With(L, e.rec, e.pulse, e.ready)
             /\ [e EXCEPT !.rec = r] = With(e.loops, r, e.pulse, e.ready)
             /\ [e EXCEPT !.pulse = p] = With(e.loops, e.rec, p, e.ready)
             /\ [e EXCEPT !.ready = n] = With(e.loops, e.rec, e.pulse, n)
  BY DEF Engines, With
<1> QED BY <1>1, <1>2, <1>3

\* ... and of several.
LEMMA WithMore ==
  ASSUME NEW e \in Engines, NEW L, NEW r, NEW p
  PROVE  /\ [e EXCEPT !.loops = L, !.rec = r] = With(L, r, e.pulse, e.ready)
         /\ [e EXCEPT !.loops = L, !.pulse = p] = With(L, e.rec, p, e.ready)
         /\ [e EXCEPT !.loops = L, !.rec = r, !.pulse = p] = With(L, r, p, e.ready)
<1>1. /\ [e EXCEPT !.loops = L] = With(L, e.rec, e.pulse, e.ready)
      /\ [e EXCEPT !.loops = L, !.rec = r] = [[e EXCEPT !.loops = L] EXCEPT !.rec = r]
      /\ [e EXCEPT !.loops = L, !.pulse = p] = [[e EXCEPT !.loops = L] EXCEPT !.pulse = p]
      /\ [e EXCEPT !.loops = L, !.rec = r, !.pulse = p] = [[[e EXCEPT !.loops = L] EXCEPT !.rec = r] EXCEPT !.pulse = p]
  BY WithIs
<1>2. /\ [With(L, e.rec, e.pulse, e.ready) EXCEPT !.rec = r] = With(L, r, e.pulse, e.ready)
      /\ [With(L, e.rec, e.pulse, e.ready) EXCEPT !.pulse = p] = With(L, e.rec, p, e.ready)
  BY DEF With
<1>3. [With(L, r, e.pulse, e.ready) EXCEPT !.pulse = p] = With(L, r, p, e.ready)
  BY DEF With
<1> QED BY <1>1, <1>2, <1>3

LEMMA WithHas ==
  ASSUME NEW L, NEW r, NEW p, NEW n
  PROVE  /\ With(L, r, p, n).loops = L /\ With(L, r, p, n).rec = r
         /\ With(L, r, p, n).pulse = p /\ With(L, r, p, n).ready = n
  BY DEF With

LEMMA WithFits ==
  ASSUME NEW L \in [LoopSlots -> LoopRecords], NEW r \in Recorders, NEW p \in Pulses, NEW n \in Nat
  PROVE  With(L, r, p, n) \in Engines
  BY DEF With, Engines

\* One loop becomes another.
LEMMA PutLoop ==
  ASSUME NEW L \in [LoopSlots -> LoopRecords], NEW i \in LoopSlots, NEW l \in LoopRecords
  PROVE  /\ [L EXCEPT ![i] = l] \in [LoopSlots -> LoopRecords]
         /\ [L EXCEPT ![i] = l][i] = l
         /\ \A j \in LoopSlots : j # i => [L EXCEPT ![i] = l][j] = L[j]
  OBVIOUS

--------------------------------------------------------------------------
(* The clock                                                               *)

LEMMA Lesser ==
  ASSUME NEW m \in Nat, NEW n \in Nat
  PROVE  /\ Smaller(m, n) \in Nat /\ Smaller(m, n) <= m /\ Smaller(m, n) <= n
         /\ Smaller(m, n) = m \/ Smaller(m, n) = n
         /\ Larger(m, n) \in Nat /\ Larger(m, n) >= m /\ Larger(m, n) >= n
         /\ Larger(m, n) = m \/ Larger(m, n) = n
  BY DEF Smaller, Larger

LEMMA PulseFields ==
  ASSUME NEW p \in Pulses
  PROVE  /\ p.frames \in Nat /\ p.position \in Nat /\ p.longCount \in Nat /\ p.longLength \in Nat
         /\ p.active \in BOOLEAN /\ p.armed \in BOOLEAN /\ p.suppressed \in BOOLEAN
         /\ p.position < p.frames => p.frames > 0 /\ Larger(p.frames, 1) = p.frames
  BY DEF Pulses, Larger

LEMMA ExtendBeats ==
  ASSUME NEW p, Beating(p), NEW beats \in Nat, NEW j \in BOOLEAN
  PROVE  /\ Beating(Extend(p, beats, j)) /\ Extend(p, beats, j).frames = p.frames
         /\ SamePulse(p, Extend(p, beats, j))
<1> DEFINE old == p.longLength
           more == (old \div Gcd(old, beats)) * beats
           grown == Smaller(more, U32Max)
           toEnd == Smaller(old - (p.longCount % old), grown)
           count == IF j /\ grown > old THEN grown - toEnd ELSE p.longCount
           q == [p EXCEPT !.longLength = grown, !.longCount = count]
<1>1. CASE beats = 0 \/ ~p.active
  BY <1>1 DEF Extend, SamePulse
<1>2. CASE ~(beats = 0 \/ ~p.active)
  <2>0. p \in Pulses /\ p.longCount \in Nat /\ old \in Nat /\ p.longCount < old /\ old <= U32Max /\ U32Max \in Nat
    BY EngineBounds, PulseFields DEF Beating
  <2>1. more \in Nat /\ more >= old
    <3>1. old \in Nat \ {0} /\ beats \in Nat \ {0}
      BY <1>2, <2>0
    <3> QED BY <3>1, CycleGrows
  <2>2. Extend(p, beats, j) = q
    <3>1. [p EXCEPT !.longCount = IF j /\ grown > old THEN grown - toEnd ELSE @] = [p EXCEPT !.longCount = count]
      BY <2>0 DEF Pulses
    <3> QED BY <1>2, <2>0 DEF Extend, Pulses
  <2> HIDE DEF more
  <2>3. grown \in Nat /\ grown >= old /\ grown <= U32Max
    BY <2>0, <2>1 DEF Smaller
  <2> HIDE DEF grown
  <2>4. p.longCount % old \in Nat /\ p.longCount % old < old
    BY <2>0, Divided
  <2>5. toEnd \in Nat /\ toEnd > 0 /\ toEnd <= grown
    BY <2>0, <2>3, <2>4 DEF Smaller
  <2> HIDE DEF toEnd
  <2>6. count \in Nat /\ count < grown
    BY <2>0, <2>3, <2>5
  <2> HIDE DEF count, old
  <2>7. q \in Pulses /\ q.longLength = grown /\ q.longCount = count /\ q.frames = p.frames
        /\ q.position = p.position /\ q.active = p.active /\ q.suppressed = p.suppressed
    BY <2>0, <2>3, <2>6 DEF Pulses
  <2> QED BY <2>2, <2>3, <2>6, <2>7 DEF Beating, SamePulse
<1> QED BY <1>1, <1>2

\* The cycle that a loop of `beats` beats has joined is a multiple of them, and of all it
\* was a multiple of before.
LEMMA ExtendCovers ==
  ASSUME NEW p, Beating(p), NEW beats \in Nat, NEW j \in BOOLEAN
  PROVE  Longer(p, Extend(p, beats, j)) /\ InCycle(Extend(p, beats, j), beats)
<1> DEFINE q == Extend(p, beats, j)
           old == p.longLength
           most == (old \div Gcd(old, beats)) * beats
<1>1. CASE beats = 0 \/ ~p.active
  BY <1>1 DEF Extend, Longer, InCycle
<1>2. CASE ~(beats = 0 \/ ~p.active)
  <2>1. p \in Pulses /\ p.active \in BOOLEAN /\ old \in Nat \ {0} /\ old <= U32Max /\ U32Max \in Nat
    BY EngineBounds, PulseFields DEF Beating
  <2>2. most \in Nat /\ most >= old
    BY <1>2, <2>1, CycleGrows
  <2>3. q.longLength = Smaller(most, U32Max) /\ q.active = p.active
    BY <1>2, <2>1 DEF Extend, Pulses
  <2>4. most % beats = 0 /\ \A c \in Nat \ {0} : old % c = 0 => most % c = 0
    BY <1>2, <2>1, CycleCovers
  <2> HIDE DEF most, q
  <2>5. q.longLength # U32Max => q.longLength = most /\ old # U32Max
    BY <2>1, <2>2, <2>3 DEF Smaller
  <2> HIDE DEF old
  <2>6. InCycle(q, beats)
    BY <2>4, <2>5 DEF InCycle
  <2>7. ASSUME NEW c \in Nat, InCycle(p, c) PROVE InCycle(q, c)
    <3>1. p.active /\ old # U32Max /\ c # 0 => old % c = 0
      BY <2>7 DEF InCycle, old
    <3>2. q.active /\ q.longLength # U32Max /\ c # 0 => most % c = 0 /\ q.longLength = most
      BY <2>3, <2>4, <2>5, <3>1
    <3> QED BY <3>2 DEF InCycle
  <2> QED BY <2>6, <2>7 DEF Longer, q
<1> QED BY <1>1, <1>2

LEMMA OneDivides ==
  ASSUME NEW p \in Pulses
  PROVE  InCycle(p, 1)
<1>1. p.longLength \in Nat
  BY PulseFields
<1>2. (p.longLength * 1) % 1 = 0 /\ p.longLength * 1 = p.longLength
  BY <1>1, Multiple
<1> QED BY <1>2 DEF InCycle

LEMMA WrapBeats ==
  ASSUME NEW p \in Pulses, p.frames > 0, p.longLength > 0, p.longLength <= U32Max
  PROVE  Beating(Wrap(p))
<1> DEFINE n == (p.longCount + 1) % p.longLength
           w == [p EXCEPT !.position = 0, !.longCount = n]
<1>1. n \in Nat /\ n < p.longLength
  BY PulseFields, Divided
<1>2. Wrap(p) = w
  BY DEF Wrap, Pulses
<1> HIDE DEF n
<1>3. w \in Pulses /\ w.position = 0 /\ w.frames = p.frames /\ w.longCount = n /\ w.longLength = p.longLength
  BY <1>1 DEF Pulses
<1> HIDE DEF w
<1> QED BY <1>1, <1>2, <1>3 DEF Beating

LEMMA TickBeats ==
  ASSUME NEW p, Beating(p)
  PROVE  Beating(Tick(p))
<1>1. p \in Pulses /\ p.frames > 0 /\ p.longLength > 0 /\ p.longLength <= U32Max
  BY PulseFields DEF Beating
<1>2. CASE p.position + 1 >= p.frames
  BY <1>1, <1>2, WrapBeats DEF Tick
<1>3. CASE ~(p.position + 1 >= p.frames)
  <2> DEFINE t == [p EXCEPT !.position = @ + 1]
  <2>1. t \in Pulses /\ t.position = p.position + 1 /\ t.frames = p.frames
        /\ t.longCount = p.longCount /\ t.longLength = p.longLength
    BY <1>1 DEF Pulses
  <2>2. Tick(p) = t
    BY <1>3 DEF Tick
  <2> HIDE DEF t
  <2> QED BY <1>1, <1>3, <2>1, <2>2, PulseFields DEF Beating
<1> QED BY <1>2, <1>3

LEMMA TickIs ==
  ASSUME NEW p \in Pulses
  PROVE  LET q == Tick(p)
         IN /\ q.frames = p.frames /\ q.active = p.active /\ q.suppressed = p.suppressed
            /\ q.position = IF p.position + 1 >= p.frames THEN 0 ELSE p.position + 1
  BY DEF Tick, Wrap, Pulses

LEMMA HeardBeats ==
  ASSUME NEW p, Beating(p)
  PROVE  Beating(Heard(p))
  BY DEF Beating, Heard, Pulses

\* The cycle is as long as before.
LEMMA TicksOn ==
  ASSUME NEW p \in Pulses
  PROVE  Longer(p, Tick(p)) /\ Longer(p, Heard(p))
<1>1. Tick(p).longLength = p.longLength /\ Tick(p).active = p.active
  BY DEF Tick, Wrap, Pulses
<1>2. Heard(p).longLength = p.longLength /\ Heard(p).active = p.active
  BY DEF Heard, Pulses
<1> QED BY <1>1, <1>2 DEF Longer, InCycle

LEMMA PlacedBeats ==
  ASSUME NEW p, Beating(p), NEW n \in Nat, n < p.frames
  PROVE  LET q == [p EXCEPT !.position = n] IN Beating(q) /\ q.frames = p.frames
  BY DEF Beating, Pulses

\* A pulse of n frames starts, at any of them.
LEMMA StartedBeats ==
  ASSUME NEW p \in Pulses, NEW n \in Nat, NEW x \in Nat, x < n
  PROVE  Beating([p EXCEPT !.frames = n, !.position = x,
                           !.longCount = 0, !.longLength = 1, !.active = TRUE])
<1> DEFINE q == [p EXCEPT !.frames = n, !.position = x,
                          !.longCount = 0, !.longLength = 1, !.active = TRUE]
<1>1. q \in Pulses /\ q.frames = n /\ q.position = x /\ q.longCount = 0 /\ q.longLength = 1
  BY DEF Pulses
<1> HIDE DEF q
<1>2. Beating(q)
  BY <1>1, EngineBounds DEF Beating
<1> QED BY <1>2 DEF q

LEMMA SetPulseBeats ==
  ASSUME NEW p \in Pulses, NEW n \in Nat
  PROVE  Beating(SetPulse(p, n))
<1> DEFINE m == Larger(n, 1)
           x == p.position % m
<1>1. m \in Nat /\ m > 0
  BY Lesser
<1>2. SetPulse(p, n) = [p EXCEPT !.frames = m, !.position = x,
                                 !.longCount = 0, !.longLength = 1, !.active = TRUE]
  BY DEF SetPulse, Pulses
<1> HIDE DEF m
<1>3. x \in Nat /\ x < m
  BY <1>1, PulseFields, Divided
<1> HIDE DEF x
<1>4. Beating([p EXCEPT !.frames = m, !.position = x,
                        !.longCount = 0, !.longLength = 1, !.active = TRUE])
  BY <1>1, <1>3, StartedBeats
<1> QED BY <1>2, <1>4

LEMMA PulseOfLoopBeats ==
  ASSUME NEW p \in Pulses, NEW len \in Nat, NEW position \in Nat
  PROVE  Beating(PulseOfLoop(p, len, position, Subdivision))
<1> DEFINE d == len \div Subdivision
           m == Smaller(Larger(d, 1), U32Max)
           x == position % m
<1>1. d \in Nat
  BY Divided, EngineBounds
<1>2. PulseOfLoop(p, len, position, Subdivision) = [p EXCEPT !.frames = m, !.position = x,
                                 !.longCount = 0, !.longLength = 1, !.active = TRUE]
  BY DEF PulseOfLoop
<1> HIDE DEF d
<1>3. m \in Nat /\ m > 0
  BY <1>1, EngineBounds DEF Smaller, Larger
<1> HIDE DEF m
<1>4. x \in Nat /\ x < m
  BY <1>3, Divided
<1> HIDE DEF x
<1>5. Beating([p EXCEPT !.frames = m, !.position = x,
                        !.longCount = 0, !.longLength = 1, !.active = TRUE])
  BY <1>3, <1>4, StartedBeats
<1> QED BY <1>2, <1>5

LEMMA NoPulseBeats ==
  ASSUME NEW p, Beating(p)
  PROVE  Beating(NoPulse(p))
<1> DEFINE q == NoPulse(p)
<1>1. q \in Pulses /\ q.frames = p.frames /\ q.position = p.position /\ q.longCount = 0 /\ q.longLength = 1
  BY DEF Beating, NoPulse, Pulses
<1> HIDE DEF q
<1>2. Beating(q)
  BY <1>1, EngineBounds DEF Beating
<1> QED BY <1>2 DEF q

LEMMA TapBeats ==
  ASSUME NEW p, Beating(p), NEW newLen \in BOOLEAN, NEW gap \in Nat
  PROVE  Beating(TapPulse(p, newLen, gap))
<1>1. /\ p \in Pulses /\ p.position < p.frames /\ p.frames \in Nat /\ p.frames > 0
      /\ p.longLength \in Nat /\ p.longCount \in Nat /\ p.longCount < p.longLength /\ p.longLength <= U32Max
  BY PulseFields DEF Beating
<1>2. Measured(gap) \in Nat /\ Measured(gap) > 0
  BY EngineBounds DEF Measured, Smaller, Larger
<1>3. CASE p.active
  <2> DEFINE accepted == newLen /\ (p.frames < ShortTap \/ (0 < gap /\ gap < 5 * p.frames))
             n == IF accepted THEN Measured(gap) ELSE p.frames
             r == [p EXCEPT !.frames = n]
             back == [r EXCEPT !.position = 0, !.suppressed = TRUE]
  <2>1. n \in Nat /\ n > 0
    BY <1>1, <1>2
  <2>2. /\ TapPulse(p, newLen, gap) = TapRunning(p, newLen, gap)
        /\ TapRunning(p, newLen, gap) = IF 2 * p.position >= p.frames THEN Wrap(r) ELSE back
    BY <1>1, <1>3 DEF TapPulse, TapRunning, Pulses
  <2> HIDE DEF n
  <2>3. r \in Pulses /\ r.frames = n /\ r.longLength = p.longLength /\ r.longCount = p.longCount
    BY <1>1, <2>1 DEF Pulses
  <2> HIDE DEF r
  <2>4. /\ back \in Pulses /\ back.position = 0 /\ back.frames = r.frames
        /\ back.longLength = r.longLength /\ back.longCount = r.longCount
    BY <2>3 DEF Pulses
  <2> HIDE DEF back
  <2>5. Beating(back)
    BY <1>1, <2>1, <2>3, <2>4 DEF Beating
  <2>6. Beating(Wrap(r))
    BY <1>1, <2>1, <2>3, WrapBeats
  <2> QED BY <2>2, <2>5, <2>6
<1>4. CASE ~p.active /\ p.armed
  <2> DEFINE n == IF newLen THEN Measured(gap) ELSE p.frames
             t == [p EXCEPT !.frames = n, !.armed = ~newLen, !.active = newLen,
                            !.position = 0, !.suppressed = TRUE]
  <2>1. TapPulse(p, newLen, gap) = TapArmed(p, newLen, gap)
    BY <1>4 DEF TapPulse
  <2>2. TapArmed(p, newLen, gap) = t
    BY <1>1 DEF TapArmed, Pulses
  <2>3. n \in Nat /\ n > 0
    BY <1>1, <1>2
  <2> HIDE DEF n
  <2>4. t \in Pulses /\ t.position = 0 /\ t.frames = n /\ t.longLength = p.longLength /\ t.longCount = p.longCount
    BY <1>1, <2>3 DEF Pulses
  <2> HIDE DEF t
  <2>5. Beating(t)
    BY <1>1, <2>3, <2>4 DEF Beating
  <2> QED BY <2>1, <2>2, <2>5
<1>5. CASE ~p.active /\ ~p.armed
  <2> DEFINE a == ArmPulse(p)
  <2>1. TapPulse(p, newLen, gap) = IF newLen THEN a ELSE p
    BY <1>5 DEF TapPulse
  <2>2. a \in Pulses /\ a.position = p.position /\ a.frames = p.frames /\ a.longCount = 0 /\ a.longLength = 1
    BY <1>1 DEF ArmPulse, Pulses
  <2> HIDE DEF a
  <2>3. Beating(a)
    BY <1>1, <2>2, EngineBounds DEF Beating
  <2> QED BY <2>1, <2>3
<1> QED BY <1>3, <1>4, <1>5

\* Where the clock says a loop is, it has a frame.
LEMMA LoopPositionFits ==
  ASSUME NEW p \in Pulses, NEW l \in LoopRecords
  PROVE  /\ LoopPosition(p, l) \in Nat
         /\ LoopPosition(p, l) = 0 \/ LoopPosition(p, l) < l.len
<1>1. l.len \in Nat /\ l.beats \in Nat /\ l.alignment \in Nat
  BY DEF LoopRecords
<1>2. CASE l.len = 0 \/ l.beats = 0
  BY <1>2 DEF LoopPosition, SyncedPosition
<1>3. CASE ~(l.len = 0 \/ l.beats = 0)
  <2> DEFINE x == (p.longCount % l.beats) * Larger(p.frames, 1) + p.position + l.alignment
  <2>1. p.longCount % l.beats \in Nat /\ Larger(p.frames, 1) \in Nat /\ p.position \in Nat
    BY <1>1, <1>3, PulseFields, Divided, Lesser
  <2>2. x \in Nat
    <3>1. (p.longCount % l.beats) * Larger(p.frames, 1) \in Nat
      BY <2>1, TimesGrows
    <3> QED BY <1>1, <2>1, <3>1
  <2>3. LoopPosition(p, l) = x % l.len
    BY <1>3 DEF LoopPosition, SyncedPosition
  <2> HIDE DEF x
  <2> QED BY <1>1, <1>3, <2>2, <2>3, Divided
<1> QED BY <1>2, <1>3

--------------------------------------------------------------------------
(* Storage                                                                 *)

LEMMA LoopFields ==
  ASSUME NEW l \in LoopRecords
  PROVE  /\ l.mode \in Modes /\ l.len \in Nat /\ l.position \in Nat
         /\ l.blocks \in Nat /\ l.blocks <= MaxBlocks /\ l.buffer \in Nat /\ l.buffer \in {0, BufferFrames}
         /\ l.offset \in Nat /\ l.synced \in BOOLEAN /\ l.beats \in Nat /\ l.alignment \in Nat
         /\ l.ending \in Nat /\ l.jump \in Nat /\ l.heard \in Nat
         /\ MaxBlocks \in Nat
<1>1. l.blocks \in 0..MaxBlocks /\ l.buffer \in {0, BufferFrames}
  BY DEF LoopRecords
<1>2. /\ l.mode \in Modes /\ l.len \in Nat /\ l.position \in Nat
      /\ l.offset \in Nat /\ l.synced \in BOOLEAN /\ l.beats \in Nat /\ l.alignment \in Nat
      /\ l.ending \in Nat /\ l.jump \in Nat /\ l.heard \in Nat
  BY DEF LoopRecords
<1> QED BY <1>1, <1>2, EngineBounds

Whole(l) == IF l.blocks > 0 THEN l.blocks * BlockFrames ELSE l.buffer

LEMMA WholeIs ==
  ASSUME NEW l \in LoopRecords
  PROVE  /\ Whole(l) \in Nat /\ Stored(l) \in Nat
         /\ Stored(l) = IF Whole(l) < l.offset THEN 0 ELSE Whole(l) - l.offset
<1>1. l.blocks * BlockFrames \in Nat
  BY LoopFields, EngineBounds, TimesGrows
<1>2. Whole(l) \in Nat
  BY <1>1, LoopFields DEF Whole
<1>3. Stored(l) = IF Whole(l) < l.offset THEN 0 ELSE Whole(l) - l.offset
  BY DEF Stored, Whole
<1> HIDE DEF Whole
<1> QED BY <1>2, <1>3, LoopFields

\* What a loop stores depends on its storage only.
LEMMA StoredSame ==
  ASSUME NEW l, NEW m, m.blocks = l.blocks, m.buffer = l.buffer, m.offset = l.offset
  PROVE  Stored(m) = Stored(l)
  BY DEF Stored

\* A loop from the start of its storage has more than is cut off for a crossfade.
LEMMA StoredEnough ==
  ASSUME NEW l \in LoopRecords, l.offset = 0, l.blocks > 0 \/ l.buffer > 0
  PROVE  Stored(l) = Whole(l) /\ Stored(l) > SmoothFrames
<1>1. Stored(l) = Whole(l) /\ Whole(l) \in Nat
  BY WholeIs
<1>2. CASE l.blocks > 0
  <2>1. Whole(l) = l.blocks * BlockFrames
    BY <1>2 DEF Whole
  <2>2. 1 * BlockFrames <= l.blocks * BlockFrames
    BY <1>2, LoopFields, EngineBounds, TimesGrows
  <2> QED BY <1>1, <2>1, <2>2, EngineBounds
<1>3. CASE ~(l.blocks > 0)
  <2>1. Whole(l) = l.buffer /\ l.buffer = BufferFrames
    BY <1>3, LoopFields DEF Whole
  <2> QED BY <1>1, <2>1, EngineBounds
<1> QED BY <1>2, <1>3

\* Cutting off the head of a loop takes as much from what it stores.
LEMMA StoredCut ==
  ASSUME NEW l \in LoopRecords, NEW m \in LoopRecords, NEW n \in Nat,
         m.blocks = l.blocks, m.buffer = l.buffer, m.offset = l.offset + n, n <= Stored(l)
  PROVE  Stored(m) = Stored(l) - n
<1>1. Whole(m) = Whole(l)
  BY DEF Whole
<1> QED BY <1>1, WholeIs, LoopFields

\* Blocks only add to what a loop stores that lives in blocks, or in nothing.
LEMMA StoredGrows ==
  ASSUME NEW l \in LoopRecords, NEW b \in Nat, l.blocks <= b, b <= MaxBlocks,
         l.blocks > 0 \/ l.buffer = 0
  PROVE  LET m == [l EXCEPT !.blocks = b]
         IN m \in LoopRecords /\ Stored(m) >= Stored(l)
<1> DEFINE m == [l EXCEPT !.blocks = b]
<1>1. /\ m \in LoopRecords /\ m.blocks = b /\ m.buffer = l.buffer /\ m.offset = l.offset
  <2>1. b \in 0..MaxBlocks
    BY EngineBounds
  <2> QED BY <2>1 DEF LoopRecords
<1> HIDE DEF m
<1>2. l.blocks * BlockFrames <= b * BlockFrames /\ b * BlockFrames \in Nat /\ l.blocks * BlockFrames \in Nat
  BY LoopFields, EngineBounds, TimesGrows
<1>3. Whole(m) >= Whole(l)
  <2>1. CASE l.blocks > 0
    <3>1. Whole(l) = l.blocks * BlockFrames /\ Whole(m) = b * BlockFrames
      BY <1>1, <2>1, LoopFields DEF Whole
    <3> QED BY <1>2, <3>1
  <2>2. CASE ~(l.blocks > 0)
    <3>1. Whole(l) = 0
      BY <2>2 DEF Whole
    <3> QED BY <1>1, <3>1, WholeIs
  <2> QED BY <2>1, <2>2
<1>4. Stored(m) >= Stored(l)
  BY <1>1, <1>3, WholeIs, LoopFields
<1> QED BY <1>1, <1>4 DEF m

\* Grow adds blocks; the first is there if every block taken is replaced.
LEMMA GrowGives ==
  ASSUME NEW e \in Engines, NEW i \in LoopSlots, NEW need \in Nat
  PROVE  \E b \in Nat, n \in Nat :
           /\ Grow(e, i, need) =
                With([e.loops EXCEPT ![i] = [@ EXCEPT !.blocks = b]], e.rec, e.pulse, n)
           /\ e.loops[i].blocks <= b /\ b <= MaxBlocks
           /\ WorkerKeepsUp => n = e.ready
           /\ (e.ready > 0 /\ need > Stored(e.loops[i]) /\ e.loops[i].blocks = 0) => b > 0
<1> DEFINE l == e.loops[i]
           over == need - Stored(l) + BlockFrames - 1
           missing == IF need <= Stored(l) THEN 0 ELSE over \div BlockFrames
           taken   == Smaller(missing, Smaller(e.ready, MaxBlocks - l.blocks))
           b == l.blocks + taken
           n == IF WorkerKeepsUp THEN e.ready ELSE e.ready - taken
<1>1. l \in LoopRecords /\ e.ready \in Nat /\ Stored(l) \in Nat
  BY WithIs, WholeIs
<1>2. l.blocks \in Nat /\ l.blocks <= MaxBlocks /\ MaxBlocks \in Nat /\ MaxBlocks > 0 /\ BlockFrames \in Nat \ {0}
  BY <1>1, LoopFields, EngineBounds
<1>3. missing \in Nat /\ (need > Stored(l) => missing > 0)
  <2>1. CASE need <= Stored(l)
    BY <1>1, <2>1
  <2>2. CASE ~(need <= Stored(l))
    <3>1. over \in Nat /\ over >= BlockFrames
      BY <1>1, <1>2, <2>2
    <3> HIDE DEF over
    <3>2. over \div BlockFrames \in Nat /\ over % BlockFrames < BlockFrames /\ over % BlockFrames \in Nat
          /\ over = (over \div BlockFrames) * BlockFrames + (over % BlockFrames)
      BY <1>2, <3>1, Divided
    <3>3. over \div BlockFrames = 0 => (over \div BlockFrames) * BlockFrames = 0
      BY <1>2
    <3> QED BY <1>2, <2>2, <3>1, <3>2, <3>3
  <2> QED BY <2>1, <2>2
<1>4. Grow(e, i, need) = [e EXCEPT !.loops[i].blocks = @ + taken,
                                   !.ready = IF WorkerKeepsUp THEN @ ELSE @ - taken]
  BY DEF Grow
<1> HIDE DEF missing
<1>5. /\ taken \in Nat /\ taken <= e.ready /\ l.blocks + taken <= MaxBlocks
      /\ missing > 0 /\ e.ready > 0 /\ l.blocks < MaxBlocks => taken > 0
  BY <1>1, <1>2, <1>3 DEF Smaller
<1> HIDE DEF taken
<1>6. n \in Nat /\ b \in Nat
  BY <1>1, <1>2, <1>5
<1>7. Grow(e, i, need) = [e EXCEPT !.loops = [e.loops EXCEPT ![i] = [l EXCEPT !.blocks = b]], !.ready = n]
  BY <1>4 DEF Engines, LoopRecords
<1>8. Grow(e, i, need) = With([e.loops EXCEPT ![i] = [l EXCEPT !.blocks = b]], e.rec, e.pulse, n)
  <2> HIDE DEF b, n
  <2> QED BY <1>7 DEF Engines, With
<1>9. [e.loops EXCEPT ![i] = [l EXCEPT !.blocks = b]] = [e.loops EXCEPT ![i] = [@ EXCEPT !.blocks = b]]
  OBVIOUS
<1>10. l.blocks <= b /\ b <= MaxBlocks /\ (WorkerKeepsUp => n = e.ready)
       /\ ((e.ready > 0 /\ need > Stored(l) /\ l.blocks = 0) => b > 0)
  BY <1>1, <1>2, <1>3, <1>5
<1> HIDE DEF b, n
<1> QED BY <1>6, <1>8, <1>9, <1>10

--------------------------------------------------------------------------
(* What an operation makes of an engine                                    *)

LEMMA Slots ==
  ASSUME NEW e \in Engines, NEW i \in LoopSlots
  PROVE  e.loops[i] \in LoopRecords
  BY WithIs

\* A cycle that covers the loops still does when it gets longer.
LEMMA CoversOn ==
  ASSUME NEW e \in Engines, NEW f, Longer(e.pulse, f.pulse),
         \A j \in LoopSlots : Shares(e.loops[j], f.loops[j])
  PROVE  Covered(e) => Covered(f)
<1> SUFFICES ASSUME Covered(e), NEW j \in LoopSlots, Sounds(f.loops[j]), f.loops[j].synced
             PROVE  InCycle(f.pulse, f.loops[j].beats)
  BY DEF Covered
<1>1. e.loops[j].beats \in Nat
  BY Slots, LoopFields
<1>2. /\ Sounds(e.loops[j]) /\ e.loops[j].synced
      /\ f.loops[j].beats = e.loops[j].beats
  BY DEF Shares
<1>3. InCycle(e.pulse, e.loops[j].beats)
  BY <1>2 DEF Covered
<1> QED BY <1>1, <1>2, <1>3 DEF Longer

LEMMA SharesItself == (\A l : Shares(l, l)) /\ (\A p : Longer(p, p))
  BY DEF Shares, Longer

LEMMA WorkingIs ==
  ASSUME NEW e, NEW i \in LoopSlots
  PROVE  Working(e) <=> WorkingBut(e, i) /\ Provided(e.loops[i])
  BY DEF Working, WorkingBut

\* The engine with another loop in slot i.
WithLoop(e, i, l, r, p, n) == With([e.loops EXCEPT ![i] = l], r, p, n)

LEMMA PutInto ==
  ASSUME NEW e, NEW i \in LoopSlots, WorkingBut(e, i), NEW m \in LoopRecords, Provided(m),
         NEW r \in Recorders, NEW p, Beating(p), NEW n \in Nat, Supplied => n > 0,
         NEW f, f = WithLoop(e, i, m, r, p, n)
  PROVE  /\ Working(f)
         /\ f.loops[i] = m /\ \A j \in LoopSlots : j # i => f.loops[j] = e.loops[j]
         /\ f.rec = r /\ f.pulse = p /\ f.ready = n
         /\ (\A j \in LoopSlots : j # i => Inside(e.loops[j])) /\ Inside(m) => Healthy(f)
         /\ Keeps(e.loops[i], m) => Spares(e, f)
         /\ (/\ Live(m) => r.slot = i
             /\ \A j \in LoopSlots : j # i /\ Live(e.loops[j]) => r.slot = j) => OneAt(f)
<1> DEFINE L == [e.loops EXCEPT ![i] = m]
<1>1. /\ e \in Engines /\ e.loops \in [LoopSlots -> LoopRecords]
      /\ \A j \in LoopSlots : j # i => Provided(e.loops[j])
  BY WithIs DEF WorkingBut
<1>2. /\ L \in [LoopSlots -> LoopRecords] /\ L[i] = m
      /\ \A j \in LoopSlots : j # i => L[j] = e.loops[j]
  BY <1>1, PutLoop
<1>f. f = With(L, r, p, n)
  BY DEF WithLoop
<1> HIDE DEF L
<1>3. f.loops = L /\ f.rec = r /\ f.pulse = p /\ f.ready = n
  BY <1>f, WithHas
<1>4. f \in Engines
  BY <1>2, <1>f, WithFits DEF Beating
<1>5. Working(f)
  BY <1>1, <1>2, <1>3, <1>4 DEF Working
<1>6. (\A j \in LoopSlots : j # i => Inside(e.loops[j])) /\ Inside(m) => Healthy(f)
  BY <1>2, <1>3, <1>5 DEF Healthy
<1>7. Keeps(e.loops[i], m) => Spares(e, f)
  BY <1>2, <1>3 DEF Spares, Keeps
<1>8. (/\ Live(m) => r.slot = i
       /\ \A j \in LoopSlots : j # i /\ Live(e.loops[j]) => r.slot = j) => OneAt(f)
  BY <1>2, <1>3 DEF OneAt
<1>9. f.loops[i] = m /\ \A j \in LoopSlots : j # i => f.loops[j] = e.loops[j]
  BY <1>2, <1>3
<1> QED BY <1>3, <1>5, <1>6, <1>7, <1>8, <1>9

\* Nothing becomes of the loops.
LEMMA LeaveLoops ==
  ASSUME NEW e, Working(e), NEW r \in Recorders, NEW p, Beating(p),
         NEW f, f = With(e.loops, r, p, e.ready)
  PROVE  /\ Working(f) /\ Spares(e, f)
         /\ f.loops = e.loops /\ f.rec = r /\ f.pulse = p /\ f.ready = e.ready
         /\ Healthy(e) => Healthy(f)
         /\ OneAt(e) /\ (r.slot = e.rec.slot \/ Quiet(e)) => OneAt(f)
         /\ Quiet(e) => Quiet(f)
<1>1. e \in Engines /\ e.loops \in [LoopSlots -> LoopRecords] /\ e.ready \in Nat /\ p \in Pulses
  BY WithIs DEF Working, Beating
<1>2. f.loops = e.loops /\ f.rec = r /\ f.pulse = p /\ f.ready = e.ready
  BY WithHas
<1>3. f \in Engines
  BY <1>1, WithFits
<1>4. Working(f) /\ (Healthy(e) => Healthy(f))
  BY <1>2, <1>3 DEF Working, Healthy
<1>5. Spares(e, f)
  BY <1>2 DEF Spares, Keeps
<1>6. /\ OneAt(e) /\ (r.slot = e.rec.slot \/ Quiet(e)) => OneAt(f)
      /\ Quiet(e) => Quiet(f)
  BY <1>2 DEF OneAt, Quiet
<1> QED BY <1>2, <1>4, <1>5, <1>6

--------------------------------------------------------------------------
(* Stopping                                                                *)

\* The same loop, but for its storage.
Kin(l, m) ==
  /\ m.mode = l.mode /\ m.len = l.len /\ m.position = l.position /\ m.beats = l.beats
  /\ m.synced = l.synced /\ m.alignment = l.alignment

LEMMA SmoothGives ==
  ASSUME NEW e \in Engines, NEW i \in LoopSlots, Provided(e.loops[i])
  PROVE  \E m \in LoopRecords, n \in Nat :
           /\ Smooth(e, i) = With([e.loops EXCEPT ![i] = m], e.rec, e.pulse, n)
           /\ Kin(e.loops[i], m) /\ (WorkerKeepsUp => n = e.ready)
           /\ Supplied => m.len <= Stored(m)
           /\ Keeps(e.loops[i], m) \/ m.mode = "Recording"
<1> DEFINE l == e.loops[i]
           long == l.mode = "Recording" /\ ~l.synced /\ l.len >= SmoothFrames
           grown == IF long THEN IF l.blocks > 0 THEN Grow(e, i, l.len + SmoothFrames) ELSE e ELSE e
           cut == long /\ Stored(grown.loops[i]) >= l.len + SmoothFrames
<1>0. l \in LoopRecords /\ l.len \in Nat /\ SmoothFrames \in Nat /\ l.len + SmoothFrames \in Nat
  BY Slots, LoopFields, EngineBounds
<1>1. Smooth(e, i) = IF cut THEN [grown EXCEPT !.loops[i].offset = @ + SmoothFrames] ELSE grown
  BY DEF Smooth
<1>2. \E k \in LoopRecords, n \in Nat :
        /\ grown = With([e.loops EXCEPT ![i] = k], e.rec, e.pulse, n)
        /\ k.offset = l.offset /\ k.ending = l.ending
        /\ Kin(l, k) /\ (WorkerKeepsUp => n = e.ready)
        /\ Stored(k) >= Stored(l)
        /\ ~long => k = l
  <2>1. CASE long /\ l.blocks > 0
    <3>1. PICK b \in Nat, n \in Nat :
            /\ Grow(e, i, l.len + SmoothFrames) =
                 With([e.loops EXCEPT ![i] = [@ EXCEPT !.blocks = b]], e.rec, e.pulse, n)
            /\ l.blocks <= b /\ b <= MaxBlocks /\ (WorkerKeepsUp => n = e.ready)
      BY <1>0, GrowGives
    <3> DEFINE k == [l EXCEPT !.blocks = b]
    <3>2. k \in LoopRecords /\ Stored(k) >= Stored(l)
      BY <1>0, <2>1, <3>1, StoredGrows
    <3>3. k.offset = l.offset /\ k.ending = l.ending /\ Kin(l, k)
      BY <1>0 DEF Kin, LoopRecords
    <3>4. [e.loops EXCEPT ![i] = [@ EXCEPT !.blocks = b]] = [e.loops EXCEPT ![i] = k]
      OBVIOUS
    <3>5. grown = With([e.loops EXCEPT ![i] = k], e.rec, e.pulse, n)
      BY <2>1, <3>1, <3>4
    <3> HIDE DEF k, grown, long
    <3> QED BY <2>1, <3>1, <3>2, <3>3, <3>5
  <2>2. CASE ~(long /\ l.blocks > 0)
    <3>1. grown = e /\ e.ready \in Nat
      BY <2>2, WithIs
    <3>2. [e.loops EXCEPT ![i] = l] = e.loops
      BY WithIs
    <3>3. e = With([e.loops EXCEPT ![i] = l], e.rec, e.pulse, e.ready)
      BY <3>2, WithIs
    <3>4. Kin(l, l) /\ Stored(l) >= Stored(l)
      BY <1>0, WholeIs DEF Kin
    <3> HIDE DEF grown, long
    <3> QED BY <1>0, <3>1, <3>3, <3>4
  <2> QED BY <2>1, <2>2
<1>3. PICK k \in LoopRecords, n \in Nat :
        /\ grown = With([e.loops EXCEPT ![i] = k], e.rec, e.pulse, n)
        /\ k.offset = l.offset /\ k.ending = l.ending
        /\ Kin(l, k) /\ (WorkerKeepsUp => n = e.ready)
        /\ Stored(k) >= Stored(l)
        /\ ~long => k = l
  BY <1>2
<1>4. grown \in Engines /\ grown.loops = [e.loops EXCEPT ![i] = k] /\ grown.loops[i] = k
      /\ grown.rec = e.rec /\ grown.pulse = e.pulse /\ grown.ready = n
  BY <1>3, WithIs, WithHas, WithFits, PutLoop
<1>5. Supplied => l.len <= Stored(l)
  BY DEF Provided
<1> HIDE DEF grown
<1>6. CASE cut
  <2> DEFINE m == [k EXCEPT !.offset = @ + SmoothFrames]
  <2>1. m \in LoopRecords /\ m.offset = k.offset + SmoothFrames /\ m.blocks = k.blocks /\ m.buffer = k.buffer
        /\ Kin(k, m)
    BY <1>0 DEF LoopRecords, Kin
  <2>2. Stored(k) >= l.len + SmoothFrames
    BY <1>4, <1>6
  <2>3. SmoothFrames <= Stored(k) /\ Stored(k) \in Nat
    BY <1>0, <2>2, WholeIs
  <2>4. [grown EXCEPT !.loops[i].offset = @ + SmoothFrames] =
          [grown EXCEPT !.loops = [grown.loops EXCEPT ![i] = m]]
    BY <1>4
  <2> HIDE DEF m
  <2>5. Stored(m) = Stored(k) - SmoothFrames
    BY <1>0, <2>1, <2>3, StoredCut
  <2>6. m.len <= Stored(m) /\ Kin(l, m) /\ m.mode = "Recording"
    BY <1>0, <1>3, <1>6, <2>1, <2>2, <2>3, <2>5 DEF Kin
  <2>7. [grown.loops EXCEPT ![i] = m] = [e.loops EXCEPT ![i] = m]
    BY <1>4, WithIs
  <2>8. Smooth(e, i) = With([e.loops EXCEPT ![i] = m], e.rec, e.pulse, n)
    <3>1. Smooth(e, i) = [grown EXCEPT !.loops[i].offset = @ + SmoothFrames]
      BY <1>1, <1>6
    <3>2. [grown EXCEPT !.loops = [grown.loops EXCEPT ![i] = m]] =
            With([grown.loops EXCEPT ![i] = m], grown.rec, grown.pulse, grown.ready)
      BY <1>4, WithIs
    <3> QED BY <1>4, <2>4, <2>7, <3>1, <3>2
  <2> QED BY <1>3, <2>1, <2>6, <2>8
<1>7. CASE ~cut
  <2>1. Smooth(e, i) = With([e.loops EXCEPT ![i] = k], e.rec, e.pulse, n)
    BY <1>1, <1>3, <1>7
  <2>2. Supplied => k.len <= Stored(k)
    BY <1>0, <1>3, <1>5, WholeIs DEF Kin
  <2>3. Keeps(l, k) \/ k.mode = "Recording"
    BY <1>3 DEF Kin, Keeps
  <2> QED BY <1>3, <2>1, <2>2, <2>3
<1> QED BY <1>6, <1>7

LEMMA RecorderFields ==
  ASSUME NEW r \in Recorders
  PROVE  /\ r.slot \in 0..NSlots /\ (r.slot = None \/ r.slot \in LoopSlots)
         /\ r.tail \in Nat /\ r.phase \in Nat /\ r.elapsed \in Nat /\ r.target \in Nat /\ r.skip \in Nat
         /\ r.beats \in Nat /\ r.waitStart \in BOOLEAN /\ r.waitStop \in BOOLEAN /\ r.late \in BOOLEAN
         /\ r.justify \in BOOLEAN /\ r.extended \in BOOLEAN
<1>1. r.slot \in 0..NSlots
  BY DEF Recorders
<1>2. r.slot = None \/ r.slot \in LoopSlots
  BY <1>1, EngineBounds DEF None, LoopSlots
<1> QED BY <1>1, <1>2 DEF Recorders

LEMMA NoneIs == None \in 0..NSlots /\ None \in Nat /\ None \notin LoopSlots /\ LoopSlots \subseteq 0..NSlots
  BY EngineBounds DEF None, LoopSlots

LEMMA ForgetIs ==
  ASSUME NEW r \in Recorders
  PROVE  Forget(r) \in Recorders /\ Rested(Forget(r))
         /\ [Forget(r) EXCEPT !.extended = FALSE] \in Recorders
         /\ Rested([Forget(r) EXCEPT !.extended = FALSE])
<1>1. Forget(r) \in Recorders /\ Rested(Forget(r))
  BY NoneIs DEF Forget, Recorders, Rested
<1> QED BY <1>1 DEF Recorders, Rested

\* Whatever is recorded or overdubbed ends, and then nothing is.  A loop whose length was
\* just set may be out of it: the stop places it.
LEMMA StopGives ==
  ASSUME NEW e, Working(e), OneAt(e),
         \A j \in LoopSlots : Inside(e.loops[j]) \/ (j = e.rec.slot /\ e.loops[j].mode # "Overdubbing")
  PROVE  LET f == StopRecording(e)
         IN /\ Healthy(f) /\ Quiet(f) /\ OneAt(f) /\ Rested(f.rec) /\ Spares(e, f)
            /\ SamePulse(e.pulse, f.pulse)
            /\ \A j \in LoopSlots : f.loops[j].len = e.loops[j].len
            /\ e.rec.slot # None =>
                 LET l == e.loops[e.rec.slot]
                 IN l.mode = "Recording" /\ l.synced /\ l.len # 0 => f.loops[e.rec.slot].beats = Larger(l.beats, 1)
            /\ CoveredBut(e) => Covered(f)
<1> DEFINE i == e.rec.slot
           f == StopRecording(e)
<1>0. e \in Engines /\ e.rec \in Recorders /\ e.pulse \in Pulses /\ Beating(e.pulse) /\ e.ready \in Nat
  BY WithIs DEF Working
<1>1. CASE i = None
  <2>1. f = [e EXCEPT !.rec = Forget(@)]
    BY <1>1 DEF StopRecording
  <2>2. f = With(e.loops, Forget(e.rec), e.pulse, e.ready)
    BY <1>0, <2>1, WithIs
  <2>3. \A j \in LoopSlots : j # i
    BY <1>1, NoneIs
  <2>4. Quiet(e) /\ Healthy(e)
    BY <2>3 DEF OneAt, Quiet, Healthy
  <2> HIDE DEF f
  <2> DEFINE r == Forget(e.rec)
  <2>5. r \in Recorders /\ r.slot = None /\ Rested(r)
    BY <1>0, ForgetIs DEF Rested
  <2> HIDE DEF r
  <2>6. f = With(e.loops, r, e.pulse, e.ready)
    BY <2>2 DEF r
  <2>7. Healthy(f) /\ Quiet(f) /\ Spares(e, f) /\ f.rec = r /\ f.pulse = e.pulse /\ f.loops = e.loops
    BY <1>0, <2>4, <2>5, <2>6, LeaveLoops
  <2>8. OneAt(f)
    BY <2>7 DEF OneAt, Quiet
  <2>9. CoveredBut(e) => Covered(f)
    BY <2>3, <2>7 DEF CoveredBut, Committed, Covered
  <2> QED BY <1>1, <2>5, <2>7, <2>8, <2>9 DEF f, SamePulse
<1>2. CASE i # None
  <2>1. i \in LoopSlots /\ e.loops[i] \in LoopRecords /\ Provided(e.loops[i]) /\ WorkingBut(e, i)
    <3>1. i \in LoopSlots
      BY <1>0, <1>2, RecorderFields
    <3> QED BY <1>0, <3>1, Slots, WorkingIs
  <2>2. PICK k \in LoopRecords, n \in Nat :
           /\ Smooth(e, i) = With([e.loops EXCEPT ![i] = k], e.rec, e.pulse, n)
           /\ Kin(e.loops[i], k) /\ (WorkerKeepsUp => n = e.ready)
           /\ Supplied => k.len <= Stored(k)
           /\ Keeps(e.loops[i], k) \/ k.mode = "Recording"
    BY <1>0, <2>1, SmoothGives
  <2> DEFINE s == With([e.loops EXCEPT ![i] = k], e.rec, e.pulse, n)
             fresh == k.mode = "Recording" /\ k.synced /\ k.len # 0
             l == [k EXCEPT !.beats = IF fresh THEN Larger(@, 1) ELSE @]
             position == IF l.mode = "Overdubbing" THEN l.position
                         ELSE IF e.pulse.active THEN LoopPosition(e.pulse, l) ELSE 0
             mode == IF l.len = 0 THEN "Empty" ELSE "Playing"
             stopped == [l EXCEPT !.ending = None, !.position = position, !.mode = mode]
             r == [Forget(e.rec) EXCEPT !.extended = FALSE]
             p == IF fresh /\ ~e.rec.extended THEN Extend(e.pulse, stopped.beats, e.rec.justify) ELSE e.pulse
  <2>3. /\ s.loops = [e.loops EXCEPT ![i] = k] /\ s.loops[i] = k
        /\ s.rec = e.rec /\ s.pulse = e.pulse /\ s.ready = n /\ s \in Engines
    <3> DEFINE L == [e.loops EXCEPT ![i] = k]
    <3>1. L \in [LoopSlots -> LoopRecords] /\ L[i] = k
      BY <1>0, <2>1, WithIs, PutLoop
    <3> HIDE DEF L
    <3>2. With(L, e.rec, e.pulse, n) \in Engines
      BY <1>0, <3>1, WithFits
    <3>3. s = With(L, e.rec, e.pulse, n) /\ L = [e.loops EXCEPT ![i] = k]
      BY DEF L
    <3> HIDE DEF s
    <3> QED BY <3>1, <3>2, <3>3, WithHas
  <2>4. f = [s EXCEPT !.loops[i] = stopped, !.rec = r, !.pulse = p]
    <3> DEFINE Fresh(x) == x.mode = "Recording" /\ x.synced /\ x.len # 0
               Beats(x) == [x EXCEPT !.beats = IF Fresh(x) THEN Larger(@, 1) ELSE @]
               Stopped(x) == [Beats(x) EXCEPT
                 !.ending   = None,
                 !.position = IF Beats(x).mode = "Overdubbing" THEN @
                              ELSE IF e.pulse.active THEN LoopPosition(e.pulse, Beats(x)) ELSE 0,
                 !.mode     = IF Beats(x).len = 0 THEN "Empty" ELSE "Playing"]
               Put(x, y, z) ==
                 [s EXCEPT !.loops[i] = Stopped(x), !.rec = [Forget(y) EXCEPT !.extended = FALSE],
                           !.pulse = IF Fresh(x) /\ ~e.rec.extended
                                     THEN Extend(z, Stopped(x).beats, e.rec.justify) ELSE z]
    <3>1. Smooth(e, i) = s
      BY <2>2
    <3> HIDE DEF s
    <3>2. f = Put(s.loops[i], s.rec, s.pulse)
      BY <1>2, <3>1 DEF StopRecording
    <3>3. Put(k, e.rec, e.pulse) = [s EXCEPT !.loops[i] = stopped, !.rec = r, !.pulse = p]
      OBVIOUS
    <3> HIDE DEF Put
    <3> QED BY <2>3, <3>2, <3>3
  <2>5. l \in LoopRecords /\ Kin([k EXCEPT !.beats = l.beats], l) /\ l.mode = k.mode /\ l.len = k.len /\ l.position = k.position
        /\ l.blocks = k.blocks /\ l.buffer = k.buffer /\ l.offset = k.offset
        /\ l.synced = k.synced /\ l.beats = IF fresh THEN Larger(k.beats, 1) ELSE k.beats
    <3>1. k.beats \in Nat /\ Larger(k.beats, 1) \in Nat
      BY LoopFields, Lesser
    <3> QED BY <3>1 DEF LoopRecords, Kin
  <2> HIDE DEF l
  <2>6. LoopPosition(e.pulse, l) \in Nat /\ (LoopPosition(e.pulse, l) = 0 \/ LoopPosition(e.pulse, l) < l.len)
    BY <1>0, <2>5, LoopPositionFits
  <2>7. position \in Nat
    BY <2>5, <2>6, LoopFields
  <2>8. position = 0 \/ position < l.len
    <3>1. CASE l.mode = "Overdubbing"
      <4>1. Inside(e.loops[i])
        BY <2>1, <2>2, <2>5, <3>1 DEF Kin
      <4> QED BY <2>2, <2>5, <3>1, <4>1 DEF Kin, Inside
    <3>2. CASE l.mode # "Overdubbing"
      BY <2>6, <3>2
    <3> QED BY <3>1, <3>2
  <2> HIDE DEF position
  <2>9. mode \in Modes /\ mode # "Recording" /\ mode # "Overdubbing" /\ (mode = "Playing" => l.len > 0)
    BY <2>5, LoopFields DEF Modes
  <2> HIDE DEF mode
  <2>10. /\ stopped \in LoopRecords /\ stopped.mode = mode /\ stopped.len = l.len /\ stopped.position = position
         /\ stopped.blocks = l.blocks /\ stopped.buffer = l.buffer /\ stopped.offset = l.offset
         /\ stopped.beats \in Nat /\ stopped.beats = l.beats /\ stopped.synced = l.synced
    BY <2>5, <2>7, <2>9, NoneIs, LoopFields DEF LoopRecords
  <2> HIDE DEF stopped
  <2>11. Stored(stopped) = Stored(k)
    BY <2>5, <2>10, StoredSame
  <2>12. Provided(stopped) /\ Inside(stopped) /\ ~Live(stopped)
    BY <2>2, <2>5, <2>8, <2>9, <2>10, <2>11 DEF Provided, Inside, Live
  <2>13. r \in Recorders /\ r.slot = None /\ Rested(r)
    BY <1>0, ForgetIs DEF Rested
  <2>14. /\ Beating(p) /\ SamePulse(e.pulse, p) /\ Longer(e.pulse, p)
         /\ IF fresh /\ ~e.rec.extended THEN InCycle(p, stopped.beats) ELSE p = e.pulse
    <3>1. CASE fresh /\ ~e.rec.extended
      BY <1>0, <2>10, <3>1, ExtendBeats, ExtendCovers, RecorderFields
    <3>2. CASE ~(fresh /\ ~e.rec.extended)
      BY <1>0, <3>2 DEF SamePulse, Longer
    <3> QED BY <3>1, <3>2
  <2> HIDE DEF r, p
  <2>15. f = WithLoop(e, i, stopped, r, p, n)
    <3>1. [s.loops EXCEPT ![i] = stopped] = [e.loops EXCEPT ![i] = stopped]
      BY <1>0, <2>1, <2>3, WithIs
    <3> HIDE DEF s
    <3>2. f = [s EXCEPT !.loops = [s.loops EXCEPT ![i] = stopped], !.rec = r, !.pulse = p]
      BY <2>3, <2>4
    <3> QED BY <2>3, <3>1, <3>2 DEF Engines, With, WithLoop
  <2>16. Supplied => n > 0
    BY <2>2 DEF Working, Supplied
  <2>17. \A j \in LoopSlots : j # i => Inside(e.loops[j]) /\ ~Live(e.loops[j])
    BY DEF OneAt
  <2>18. Keeps(e.loops[i], stopped)
    <3>1. CASE e.loops[i].mode = "Recording"
      BY <3>1 DEF Keeps
    <3>2. CASE e.loops[i].mode # "Recording"
      BY <2>2, <2>9, <2>10, <2>11, <3>2 DEF Keeps, Kin
    <3> QED BY <3>1, <3>2
  <2> HIDE DEF f
  <2>19. /\ Working(f) /\ f.loops[i] = stopped /\ \A j \in LoopSlots : j # i => f.loops[j] = e.loops[j]
         /\ f.rec = r /\ f.pulse = p /\ Healthy(f) /\ Spares(e, f) /\ OneAt(f)
    <3>1. /\ Working(f)
          /\ f.loops[i] = stopped /\ \A j \in LoopSlots : j # i => f.loops[j] = e.loops[j]
          /\ f.rec = r /\ f.pulse = p /\ f.ready = n
          /\ (\A j \in LoopSlots : j # i => Inside(e.loops[j])) /\ Inside(stopped) => Healthy(f)
          /\ Keeps(e.loops[i], stopped) => Spares(e, f)
          /\ (/\ Live(stopped) => r.slot = i
              /\ \A j \in LoopSlots : j # i /\ Live(e.loops[j]) => r.slot = j) => OneAt(f)
      BY <2>1, <2>10, <2>12, <2>13, <2>14, <2>15, <2>16, PutInto
    <3> QED BY <2>12, <2>17, <2>18, <3>1
  <2>20. Quiet(f)
    BY <2>12, <2>17, <2>19 DEF Quiet
  <2>21. \A j \in LoopSlots : f.loops[j].len = e.loops[j].len
    BY <2>2, <2>5, <2>10, <2>19 DEF Kin
  <2>22. e.loops[i].mode = "Recording" /\ e.loops[i].synced /\ e.loops[i].len # 0
           => f.loops[i].beats = Larger(e.loops[i].beats, 1)
    BY <2>2, <2>5, <2>10, <2>19 DEF Kin
  <2>23. ASSUME CoveredBut(e), NEW j \in LoopSlots, Sounds(f.loops[j]), f.loops[j].synced
         PROVE  InCycle(f.pulse, f.loops[j].beats)
    <3>1. CASE j # i
      <4>1. f.loops[j] = e.loops[j] /\ f.pulse = p /\ e.loops[j].beats \in Nat
        BY <1>0, <2>19, <3>1, Slots, LoopFields
      <4>2. InCycle(e.pulse, e.loops[j].beats)
        BY <2>23, <3>1, <4>1 DEF CoveredBut, Committed
      <4> QED BY <2>14, <4>1, <4>2 DEF Longer
    <3>2. CASE j = i
      <4>1. /\ f.loops[j] = stopped /\ f.pulse = p /\ k.len # 0 /\ k.synced
            /\ stopped.beats = IF fresh THEN Larger(k.beats, 1) ELSE k.beats
        BY <2>5, <2>9, <2>10, <2>19, <2>23, <3>2 DEF Sounds
      <4>2. CASE fresh /\ ~e.rec.extended
        BY <2>14, <4>1, <4>2
      <4>3. CASE ~(fresh /\ ~e.rec.extended)
        <5>1. Sounds(e.loops[i]) /\ e.loops[i].synced /\ Committed(e, i) /\ k.beats = e.loops[i].beats
          BY <2>2, <4>1, <4>3 DEF Kin, Sounds, Committed
        <5>2. InCycle(p, k.beats)
          BY <2>1, <2>14, <2>23, <4>3, <5>1 DEF CoveredBut
        <5>3. p \in Pulses /\ k.beats \in Nat
          BY <2>14, LoopFields DEF Beating
        <5>4. InCycle(p, 1)
          BY <5>3, OneDivides
        <5>5. stopped.beats = k.beats \/ stopped.beats = 1
          BY <4>1, <5>3 DEF Larger
        <5> QED BY <4>1, <5>2, <5>4, <5>5
      <4> QED BY <4>2, <4>3
    <3> QED BY <3>1, <3>2
  <2> QED BY <2>13, <2>14, <2>19, <2>20, <2>21, <2>22, <2>23 DEF f, Covered
<1> QED BY <1>1, <1>2

\* The pulse takes the beats of the recording.
LEMMA CommitGives ==
  ASSUME NEW e, Healthy(e), OneAt(e), e.rec.slot # None, NEW beats \in Nat
  PROVE  LET f == Commit(e, beats)
         IN /\ Healthy(f) /\ OneAt(f) /\ Spares(e, f) /\ f.rec.slot = e.rec.slot
            /\ \A j \in LoopSlots : f.loops[j].mode = e.loops[j].mode /\ f.loops[j].len = e.loops[j].len
            /\ SamePulse(e.pulse, f.pulse)
            /\ f.rec = [e.rec EXCEPT !.extended = TRUE, !.justify = TRUE]
            /\ f.loops[e.rec.slot] = [e.loops[e.rec.slot] EXCEPT !.beats = beats]
<1> DEFINE i == e.rec.slot
           l == e.loops[i]
           m == [l EXCEPT !.beats = beats]
           r == [e.rec EXCEPT !.extended = TRUE, !.justify = TRUE]
           p == Extend(e.pulse, beats, TRUE)
           f == Commit(e, beats)
<1>1. /\ Working(e) /\ e \in Engines /\ e.rec \in Recorders /\ Beating(e.pulse) /\ e.ready \in Nat
      /\ (Supplied => e.ready > 0)
  BY WithIs DEF Working, Healthy
<1>2. i \in LoopSlots
  BY <1>1, RecorderFields
<1>3. l \in LoopRecords /\ Provided(l) /\ Inside(l) /\ WorkingBut(e, i)
  BY <1>1, <1>2, Slots, WorkingIs DEF Healthy
<1>4. /\ m \in LoopRecords /\ m.mode = l.mode /\ m.len = l.len /\ m.position = l.position
      /\ m.blocks = l.blocks /\ m.buffer = l.buffer /\ m.offset = l.offset
  BY <1>3 DEF LoopRecords
<1>5. r \in Recorders /\ r.slot = i
  BY <1>1 DEF Recorders
<1>6. Beating(p) /\ SamePulse(e.pulse, p)
  BY <1>1, ExtendBeats
<1>7. f = WithLoop(e, i, m, r, p, e.ready)
  <2>1. f = [e EXCEPT !.loops = [e.loops EXCEPT ![i] = m], !.pulse = p, !.rec = r]
    BY <1>1, <1>2, <1>3 DEF Commit, Engines
  <2> HIDE DEF f, m, p, r
  <2> QED BY <1>1, <2>1 DEF Engines, With, WithLoop
<1> HIDE DEF f, m, r, p
<1>8. Stored(m) = Stored(l)
  BY <1>4, StoredSame
<1>9. Provided(m) /\ Inside(m) /\ Keeps(l, m) /\ (Live(m) => Live(l))
  BY <1>3, <1>4, <1>8 DEF Provided, Inside, Keeps, Live
<1>10. \A j \in LoopSlots : j # i => Inside(e.loops[j]) /\ ~Live(e.loops[j])
  BY DEF OneAt, Healthy
<1>11. /\ Healthy(f) /\ OneAt(f) /\ Spares(e, f) /\ f.rec = r /\ f.pulse = p
       /\ f.loops[i] = m /\ \A j \in LoopSlots : j # i => f.loops[j] = e.loops[j]
  <2>1. /\ Working(f)
        /\ f.loops[i] = m /\ \A j \in LoopSlots : j # i => f.loops[j] = e.loops[j]
        /\ f.rec = r /\ f.pulse = p /\ f.ready = e.ready
        /\ (\A j \in LoopSlots : j # i => Inside(e.loops[j])) /\ Inside(m) => Healthy(f)
        /\ Keeps(e.loops[i], m) => Spares(e, f)
        /\ (/\ Live(m) => r.slot = i
            /\ \A j \in LoopSlots : j # i /\ Live(e.loops[j]) => r.slot = j) => OneAt(f)
    BY <1>1, <1>2, <1>3, <1>4, <1>5, <1>6, <1>7, <1>9, PutInto
  <2> QED BY <1>5, <1>9, <1>10, <2>1
<1> QED BY <1>4, <1>5, <1>6, <1>11 DEF f, m, r

LEMMA CommitCovers ==
  ASSUME NEW e, Working(e), e.rec.slot # None, NEW beats \in Nat, Covered(e)
  PROVE  Covered(Commit(e, beats))
<1> DEFINE i == e.rec.slot
           m == [e.loops[i] EXCEPT !.beats = beats]
           p == Extend(e.pulse, beats, TRUE)
           f == Commit(e, beats)
<1>1. e \in Engines /\ e.rec \in Recorders /\ Beating(e.pulse) /\ e.loops \in [LoopSlots -> LoopRecords]
  BY WithIs DEF Working
<1>2. i \in LoopSlots
  BY <1>1, RecorderFields
<1>3. e.loops[i] \in LoopRecords /\ m \in LoopRecords /\ m.beats = beats
  BY <1>1, <1>2 DEF LoopRecords
<1>4. Longer(e.pulse, p) /\ InCycle(p, beats)
  BY <1>1, ExtendCovers
<1>5. f.pulse = p /\ f.loops = [e.loops EXCEPT ![i] = m]
  BY <1>1, <1>2, <1>3 DEF Commit, Engines
<1> HIDE DEF f, p, m
<1>6. f.loops[i] = m /\ \A j \in LoopSlots : j # i => f.loops[j] = e.loops[j]
  BY <1>1, <1>2, <1>3, <1>5, PutLoop
<1>7. ASSUME NEW j \in LoopSlots, Sounds(f.loops[j]), f.loops[j].synced
      PROVE  InCycle(f.pulse, f.loops[j].beats)
  <2>1. CASE j = i
    BY <1>3, <1>4, <1>5, <1>6, <2>1
  <2>2. CASE j # i
    <3>1. f.loops[j] = e.loops[j] /\ f.pulse = p /\ e.loops[j].beats \in Nat
      BY <1>1, <1>5, <1>6, <2>2, Slots, LoopFields
    <3>2. InCycle(e.pulse, e.loops[j].beats)
      BY <1>7, <3>1 DEF Covered
    <3> QED BY <1>4, <3>1, <3>2 DEF Longer
  <2> QED BY <2>1, <2>2
<1> QED BY <1>7 DEF f, Covered

\* Becoming f, e is asked to stop its recording: at the downbeat after the beat it is in, or
\* when it has the frames of the beats it is given and the tail.
Asked(e, f) ==
  LET i == e.rec.slot
      l == e.loops[i]
      m == f.loops[i]
      r == e.rec
      q == f.rec
  IN /\ e.pulse.active /\ i # None
     /\ m.mode = l.mode /\ m.len = l.len /\ m.synced = l.synced
     /\ m.blocks = l.blocks /\ m.buffer = l.buffer /\ m.offset = l.offset
     /\ q.slot = i /\ q.waitStart = r.waitStart /\ q.skip = r.skip /\ q.beats = r.beats /\ q.tail = r.tail
     /\ \/ q.waitStop /\ q.target = r.target /\ m.beats = r.beats + 1
        \/ /\ q.waitStop = r.waitStop /\ m.beats > 0 /\ l.len < q.target
           /\ q.target = m.beats * e.pulse.frames + RecordingTailFrames

LEMMA RequestStopGives ==
  ASSUME NEW e, Healthy(e), OneAt(e)
  PROVE  LET f == RequestStop(e)
         IN /\ Healthy(f) /\ OneAt(f) /\ Spares(e, f) /\ SamePulse(e.pulse, f.pulse)
            /\ f.rec.slot = None => Quiet(f) /\ \A j \in LoopSlots : f.loops[j].len <= e.loops[j].len
            /\ Quiet(f) \/ e.loops[e.rec.slot].mode = "Overdubbing" \/ Asked(e, f)
            /\ Cycling(e) => Covered(f) /\ Attended(f)
<1> DEFINE r == e.rec
           i == r.slot
           n == Larger(e.pulse.frames, 1)
           at == e.pulse.position % n
           tail == RecordingTailFrames
           byLength == (r.late \/ (r.phase # 0 /\ at < tail)) /\ ~r.waitStart
           byNow == 2 * at < n /\ at >= tail
           nearest == Larger((r.elapsed + n \div 2) \div n, 1)
           target == nearest * n + tail
           l == e.loops[i]
           f == RequestStop(e)
           Good == /\ Healthy(f) /\ OneAt(f) /\ Spares(e, f) /\ SamePulse(e.pulse, f.pulse)
                   /\ f.rec.slot = None => Quiet(f) /\ \A j \in LoopSlots : f.loops[j].len <= e.loops[j].len
                   /\ Quiet(f) \/ l.mode = "Overdubbing" \/ Asked(e, f)
                   /\ Cycling(e) => Covered(f) /\ Attended(f)
<1> SUFFICES Good
  OBVIOUS
<1>1. /\ Working(e) /\ e \in Engines /\ e.rec \in Recorders /\ e.pulse \in Pulses /\ Beating(e.pulse)
      /\ e.ready \in Nat /\ (Supplied => e.ready > 0) /\ \A j \in LoopSlots : Inside(e.loops[j])
  BY WithIs DEF Working, Healthy
<1>2. /\ i = None \/ i \in LoopSlots
      /\ r.elapsed \in Nat /\ r.beats \in Nat
  BY <1>1, RecorderFields
<1>3. ASSUME i \in LoopSlots PROVE l \in LoopRecords /\ Provided(l) /\ Inside(l) /\ WorkingBut(e, i)
  BY <1>1, <1>3, Slots, WorkingIs DEF Healthy
<1>4. nearest \in Nat /\ nearest >= 1 /\ target \in Nat /\ target > 0 /\ n = e.pulse.frames
  <2>0. n = e.pulse.frames
    BY <1>1, PulseFields DEF Beating, Larger
  <2>1. n \in Nat /\ n > 0 /\ tail \in Nat
    <3>1. e.pulse.frames \in Nat /\ 1 \in Nat /\ TailFrames \in Nat /\ Alignment \in Nat
      BY <1>1, PulseFields, EngineBounds
    <3>2. n \in Nat /\ n >= 1
      BY <3>1, Lesser
    <3>3. tail \in Nat
      BY <3>1, Lesser DEF RecordingTailFrames
    <3> QED BY <3>2, <3>3
  <2> HIDE DEF n, tail
  <2>2. n \div 2 \in Nat
    BY <2>1, Divided
  <2>3. (r.elapsed + n \div 2) \div n \in Nat
    BY <1>2, <2>1, <2>2, Divided
  <2>4. nearest \in Nat /\ nearest >= 1
    BY <2>3, Lesser
  <2> HIDE DEF nearest
  <2>5. 1 * n <= nearest * n /\ nearest * n \in Nat
    BY <2>1, <2>4, TimesGrows
  <2> QED BY <2>0, <2>1, <2>4, <2>5
<1>5. \A j \in LoopSlots : j # i => ~Live(e.loops[j])
  BY DEF OneAt
<1>6. CASE i # None /\ l.mode = "Overdubbing"
  <2> DEFINE m == [l EXCEPT !.ending = 1]
  <2>0. i \in LoopSlots
    BY <1>2, <1>6
  <2>1. /\ m \in LoopRecords /\ m.mode = l.mode /\ m.len = l.len /\ m.position = l.position
        /\ m.blocks = l.blocks /\ m.buffer = l.buffer /\ m.offset = l.offset
        /\ m.synced = l.synced /\ m.beats = l.beats
    BY <1>3, <2>0 DEF LoopRecords
  <2>2. f = WithLoop(e, i, m, e.rec, e.pulse, e.ready)
    <3>1. f = [e EXCEPT !.loops[i].ending = 1]
      BY <1>6 DEF RequestStop
    <3> QED BY <1>1, <2>0, <3>1 DEF Engines, With, WithLoop
  <2> HIDE DEF f, m
  <2>3. Stored(m) = Stored(l)
    BY <2>1, StoredSame
  <2>4. Provided(m) /\ Inside(m) /\ Keeps(l, m)
    BY <1>3, <2>0, <2>1, <2>3 DEF Provided, Inside, Keeps
  <2>5. /\ Healthy(f) /\ OneAt(f) /\ Spares(e, f) /\ f.rec = e.rec /\ f.pulse = e.pulse
        /\ f.loops[i] = m /\ \A j \in LoopSlots : j # i => f.loops[j] = e.loops[j]
    BY <1>1, <1>3, <1>5, <2>0, <2>1, <2>2, <2>4, PutInto
  <2>6. Cycling(e) => Covered(f) /\ Attended(f)
    BY <2>0, <2>1, <2>5 DEF Cycling, Covered, Attended, Sounds, Live
  <2> QED BY <1>6, <2>5, <2>6 DEF SamePulse
<1>7. CASE ~(i # None /\ l.mode = "Overdubbing") /\ (~e.pulse.active \/ i = None)
  <2>1. f = StopRecording(e)
    BY <1>7 DEF RequestStop
  <2> HIDE DEF f
  <2>2. /\ Healthy(f) /\ OneAt(f) /\ Spares(e, f) /\ SamePulse(e.pulse, f.pulse) /\ Quiet(f)
        /\ \A j \in LoopSlots : f.loops[j].len = e.loops[j].len
        /\ Rested(f.rec) /\ (CoveredBut(e) => Covered(f))
    BY <1>1, <2>1, StopGives
  <2>3. \A j \in LoopSlots : e.loops[j].len \in Nat
    BY <1>1, Slots, LoopFields
  <2>4. Cycling(e) => Covered(f) /\ Attended(f)
    BY <2>2 DEF Cycling, Covered, CoveredBut, Attended, Rested
  <2> QED BY <2>2, <2>3, <2>4
<1>8. CASE i # None /\ l.mode # "Overdubbing" /\ e.pulse.active
  <2>0. i \in LoopSlots
    BY <1>2, <1>8
  <2>1. f = CASE byLength /\ l.len >= target ->
                   StopRecording([Commit(e, nearest) EXCEPT !.loops[i].len = target])
              [] byLength /\ l.len < target -> [Commit(e, nearest) EXCEPT !.rec.target = target]
              [] ~byLength /\ byNow ->
                   StopRecording([e EXCEPT !.rec.justify = FALSE, !.loops[i].beats = Larger(r.beats, 1)])
              [] OTHER -> [Commit(e, r.beats + 1) EXCEPT !.rec.waitStop = TRUE]
    BY <1>8 DEF RequestStop
  <2>2. l.len \in Nat /\ \A j \in LoopSlots : e.loops[j].len \in Nat
    BY <1>1, <1>3, <2>0, Slots, LoopFields
  <2>t. target = nearest * e.pulse.frames + RecordingTailFrames
    BY <1>4
  <2> HIDE DEF f, target, nearest, byLength, byNow, tail, at, n
  <2>3. CASE byLength /\ l.len >= target
    <3> DEFINE c == Commit(e, nearest)
               m == [c.loops[i] EXCEPT !.len = target]
               d == [c EXCEPT !.loops[i].len = target]
    <3>1. /\ Healthy(c) /\ OneAt(c) /\ Spares(e, c) /\ c.rec.slot = i
          /\ \A j \in LoopSlots : c.loops[j].mode = e.loops[j].mode /\ c.loops[j].len = e.loops[j].len
          /\ SamePulse(e.pulse, c.pulse)
      BY <1>4, <1>8, CommitGives
    <3>a. Covered(e) => Covered(c)
      BY <1>1, <1>4, <1>8, CommitCovers
    <3> HIDE DEF c
    <3>2. /\ c \in Engines /\ c.rec \in Recorders /\ Beating(c.pulse) /\ c.ready \in Nat
          /\ (Supplied => c.ready > 0) /\ \A j \in LoopSlots : Inside(c.loops[j])
      BY <3>1, WithIs DEF Healthy, Working
    <3>3. c.loops[i] \in LoopRecords /\ Provided(c.loops[i]) /\ WorkingBut(c, i)
      BY <2>0, <3>1, <3>2, Slots, WorkingIs DEF Healthy
    <3>4. /\ m \in LoopRecords /\ m.mode = l.mode /\ m.len = target
          /\ m.blocks = c.loops[i].blocks /\ m.buffer = c.loops[i].buffer /\ m.offset = c.loops[i].offset
          /\ m.synced = c.loops[i].synced /\ m.beats = c.loops[i].beats
      BY <1>4, <2>0, <3>1, <3>3 DEF LoopRecords
    <3>5. d = WithLoop(c, i, m, c.rec, c.pulse, c.ready)
      BY <2>0, <3>2 DEF Engines, With, WithLoop
    <3> HIDE DEF m, d
    <3>6. Stored(m) = Stored(c.loops[i]) /\ Stored(m) \in Nat
      BY <3>3, <3>4, StoredSame, WholeIs
    <3>7. Provided(m)
      BY <1>4, <2>0, <2>2, <2>3, <3>1, <3>3, <3>4, <3>6 DEF Provided
    <3>8. Keeps(c.loops[i], m) /\ (Live(m) => c.rec.slot = i)
      BY <2>0, <3>1, <3>4, <3>6 DEF Keeps
    <3>9. \A j \in LoopSlots : j # i => ~Live(c.loops[j])
      BY <3>1 DEF OneAt
    <3>10. /\ Working(d) /\ OneAt(d) /\ Spares(c, d) /\ d.rec = c.rec /\ d.pulse = c.pulse
           /\ d.loops[i] = m /\ \A j \in LoopSlots : j # i => d.loops[j] = c.loops[j]
      <4>1. /\ Working(d)
            /\ d.loops[i] = m /\ \A j \in LoopSlots : j # i => d.loops[j] = c.loops[j]
            /\ d.rec = c.rec /\ d.pulse = c.pulse /\ d.ready = c.ready
            /\ (\A j \in LoopSlots : j # i => Inside(c.loops[j])) /\ Inside(m) => Healthy(d)
            /\ Keeps(c.loops[i], m) => Spares(c, d)
            /\ (/\ Live(m) => c.rec.slot = i
                /\ \A j \in LoopSlots : j # i /\ Live(c.loops[j]) => c.rec.slot = j) => OneAt(d)
        BY <2>0, <3>2, <3>3, <3>4, <3>5, <3>7, PutInto
      <4> QED BY <3>8, <3>9, <4>1
    <3>11. \A j \in LoopSlots : Inside(d.loops[j]) \/ (j = d.rec.slot /\ d.loops[j].mode # "Overdubbing")
      BY <1>8, <3>1, <3>2, <3>4, <3>10
    <3>12. f = StopRecording(d)
      <4>1. f = StopRecording([Commit(e, nearest) EXCEPT !.loops[i].len = target])
        BY <1>4, <2>1, <2>2, <2>3
      <4> QED BY <4>1 DEF c, d
    <3>13. /\ Healthy(f) /\ OneAt(f) /\ Spares(d, f) /\ SamePulse(d.pulse, f.pulse) /\ Quiet(f)
           /\ \A j \in LoopSlots : f.loops[j].len = d.loops[j].len
           /\ Rested(f.rec) /\ (CoveredBut(d) => Covered(f))
      BY <3>10, <3>11, <3>12, StopGives
    <3>14. \A j \in LoopSlots : f.loops[j].len <= e.loops[j].len
      BY <1>4, <2>0, <2>2, <2>3, <3>1, <3>4, <3>10, <3>13
    <3>15. SamePulse(e.pulse, f.pulse)
      BY <3>1, <3>10, <3>13 DEF SamePulse
    <3>16. Covered(c) => CoveredBut(d)
      <4>1. Sounds(c.loops[i])
        BY <1>4, <2>0, <2>2, <2>3, <3>1 DEF Sounds
      <4> QED BY <2>0, <3>4, <3>10, <4>1 DEF Covered, CoveredBut
    <3>17. Cycling(e) => Covered(f) /\ Attended(f)
      BY <3>a, <3>13, <3>16 DEF Cycling, Attended, Rested
    <3> QED BY <3>1, <3>10, <3>13, <3>14, <3>15, <3>17, SparesOn
  <2>4. CASE byLength /\ l.len < target
    <3> DEFINE c == Commit(e, nearest)
               s == [c.rec EXCEPT !.target = target]
    <3>1. Healthy(c) /\ OneAt(c) /\ Spares(e, c) /\ c.rec.slot = i /\ SamePulse(e.pulse, c.pulse)
      BY <1>4, <1>8, CommitGives
    <3>b. /\ c.rec = [r EXCEPT !.extended = TRUE, !.justify = TRUE]
          /\ c.loops[i] = [l EXCEPT !.beats = nearest]
      BY <1>4, <1>8, CommitGives
    <3>c. Covered(e) => Covered(c)
      BY <1>1, <1>4, <1>8, CommitCovers
    <3> HIDE DEF c
    <3>2. Working(c) /\ c \in Engines /\ c.rec \in Recorders /\ Beating(c.pulse)
      BY <3>1, WithIs DEF Healthy, Working
    <3>3. s \in Recorders /\ s.slot = c.rec.slot
      BY <1>4, <3>2 DEF Recorders
    <3>a. /\ s.slot = i /\ s.waitStart = r.waitStart /\ s.skip = r.skip /\ s.beats = r.beats
          /\ s.tail = r.tail /\ s.target = target /\ s.waitStop = r.waitStop
      BY <1>1, <3>b DEF Recorders
    <3>4. f = [c EXCEPT !.rec.target = target]
      BY <1>4, <2>1, <2>2, <2>4 DEF c
    <3>5. f = With(c.loops, s, c.pulse, c.ready)
      BY <3>2, <3>4 DEF Engines, With, WithLoop
    <3> HIDE DEF s
    <3>6. /\ Healthy(f) /\ OneAt(f) /\ Spares(c, f) /\ f.loops = c.loops /\ f.rec = s /\ f.pulse = c.pulse
      BY <3>1, <3>2, <3>3, <3>5, LeaveLoops
    <3>7. /\ f.loops[i].mode = l.mode /\ f.loops[i].len = l.len /\ f.loops[i].synced = l.synced
          /\ f.loops[i].blocks = l.blocks /\ f.loops[i].buffer = l.buffer /\ f.loops[i].offset = l.offset
          /\ f.loops[i].beats = nearest
      BY <1>3, <2>0, <3>b, <3>6 DEF LoopRecords
    <3>8. Asked(e, f)
      <4> HIDE DEF l
      <4>1. e.pulse.active /\ i # None
        BY <1>8
      <4>2. nearest > 0
        BY <1>4
      <4> QED BY <2>t, <2>4, <3>a, <3>6, <3>7, <4>1, <4>2 DEF Asked, l
    <3>9. Cycling(e) => Covered(f) /\ Attended(f)
      BY <3>a, <3>c, <3>6, <3>7 DEF Cycling, Covered, Attended, Live
    <3> QED BY <1>8, <3>1, <3>3, <3>6, <3>8, <3>9, SparesOn
  <2>5. CASE ~byLength /\ byNow
    <3> DEFINE x == Larger(r.beats, 1)
               m == [l EXCEPT !.beats = x]
               s == [e.rec EXCEPT !.justify = FALSE]
               d == [e EXCEPT !.rec.justify = FALSE, !.loops[i].beats = x]
    <3>1. x \in Nat
      BY <1>2, Lesser
    <3> HIDE DEF x
    <3>2. /\ m \in LoopRecords /\ m.mode = l.mode /\ m.len = l.len /\ m.position = l.position
          /\ m.blocks = l.blocks /\ m.buffer = l.buffer /\ m.offset = l.offset
          /\ m.synced = l.synced
      BY <1>3, <2>0, <3>1 DEF LoopRecords
    <3>3. s \in Recorders /\ s.slot = i /\ s.extended = r.extended
      BY <1>1 DEF Recorders
    <3>4. d = WithLoop(e, i, m, s, e.pulse, e.ready)
      <4>1. d = [e EXCEPT !.rec = s, !.loops = [e.loops EXCEPT ![i] = m]]
        BY <1>1, <2>0 DEF Engines
      <4> HIDE DEF d, s, m
      <4> QED BY <1>1, <4>1 DEF Engines, With, WithLoop
    <3>5. f = StopRecording(d)
      BY <2>1, <2>5 DEF x
    <3> HIDE DEF m, s, d
    <3>6. Stored(m) = Stored(l)
      BY <3>2, StoredSame
    <3>7. Provided(m) /\ Inside(m) /\ Keeps(l, m)
      BY <1>3, <2>0, <3>2, <3>6 DEF Provided, Inside, Keeps
    <3>8. /\ Healthy(d) /\ Working(d) /\ OneAt(d) /\ Spares(e, d) /\ d.pulse = e.pulse /\ d.rec = s
          /\ d.loops[i] = m /\ \A j \in LoopSlots : j # i => d.loops[j] = e.loops[j]
      BY <1>1, <1>3, <1>5, <2>0, <3>2, <3>3, <3>4, <3>7, PutInto
    <3>9. /\ Healthy(f) /\ OneAt(f) /\ Spares(d, f) /\ SamePulse(d.pulse, f.pulse) /\ Quiet(f)
          /\ \A j \in LoopSlots : f.loops[j].len = d.loops[j].len
          /\ Rested(f.rec) /\ (CoveredBut(d) => Covered(f))
      BY <3>5, <3>8, StopGives DEF Healthy
    <3>10. \A j \in LoopSlots : f.loops[j].len <= e.loops[j].len
      BY <2>2, <3>2, <3>8, <3>9
    <3>11. Cycling(e) => CoveredBut(d)
      <4>1. Attended(e) /\ Uncommitted(e) => m.mode = "Recording" /\ ~d.rec.extended /\ d.rec.slot = i
        BY <1>8, <3>2, <3>3, <3>8 DEF Attended, Uncommitted, Live
      <4> QED BY <2>0, <3>8, <4>1 DEF Cycling, Covered, CoveredBut, Committed
    <3>12. Cycling(e) => Covered(f) /\ Attended(f)
      BY <3>9, <3>11 DEF Attended, Rested
    <3> QED BY <3>8, <3>9, <3>10, <3>12, SparesOn
  <2>6. CASE ~byLength /\ ~byNow
    <3> DEFINE c == Commit(e, r.beats + 1)
               s == [c.rec EXCEPT !.waitStop = TRUE]
    <3>0. r.beats + 1 \in Nat
      BY <1>2
    <3>1. Healthy(c) /\ OneAt(c) /\ Spares(e, c) /\ c.rec.slot = i /\ SamePulse(e.pulse, c.pulse)
      BY <1>8, <3>0, CommitGives
    <3>b. /\ c.rec = [r EXCEPT !.extended = TRUE, !.justify = TRUE]
          /\ c.loops[i] = [l EXCEPT !.beats = r.beats + 1]
      BY <1>8, <3>0, CommitGives
    <3>c. Covered(e) => Covered(c)
      BY <1>1, <1>8, <3>0, CommitCovers
    <3> HIDE DEF c
    <3>2. Working(c) /\ c \in Engines /\ c.rec \in Recorders /\ Beating(c.pulse)
      BY <3>1, WithIs DEF Healthy, Working
    <3>3. s \in Recorders /\ s.slot = c.rec.slot
      BY <3>2 DEF Recorders
    <3>a. /\ s.slot = i /\ s.waitStart = r.waitStart /\ s.skip = r.skip /\ s.beats = r.beats
          /\ s.tail = r.tail /\ s.target = r.target /\ s.waitStop
      BY <1>1, <3>b DEF Recorders
    <3>4. f = [c EXCEPT !.rec.waitStop = TRUE]
      BY <2>1, <2>6 DEF c
    <3>5. f = With(c.loops, s, c.pulse, c.ready)
      BY <3>2, <3>4 DEF Engines, With, WithLoop
    <3> HIDE DEF s
    <3>6. /\ Healthy(f) /\ OneAt(f) /\ Spares(c, f) /\ f.loops = c.loops /\ f.rec = s /\ f.pulse = c.pulse
      BY <3>1, <3>2, <3>3, <3>5, LeaveLoops
    <3>7. /\ f.loops[i].mode = l.mode /\ f.loops[i].len = l.len /\ f.loops[i].synced = l.synced
          /\ f.loops[i].blocks = l.blocks /\ f.loops[i].buffer = l.buffer /\ f.loops[i].offset = l.offset
          /\ f.loops[i].beats = r.beats + 1
      BY <1>3, <2>0, <3>b, <3>6 DEF LoopRecords
    <3>8. Asked(e, f)
      <4> HIDE DEF l
      <4>1. e.pulse.active /\ i # None
        BY <1>8
      <4> QED BY <3>a, <3>6, <3>7, <4>1 DEF Asked, l
    <3>9. Cycling(e) => Covered(f) /\ Attended(f)
      BY <3>a, <3>c, <3>6, <3>7 DEF Cycling, Covered, Attended, Live
    <3> QED BY <1>8, <3>1, <3>3, <3>6, <3>8, <3>9, SparesOn
  <2>7. byLength => l.len >= target \/ l.len < target
    BY <1>4, <2>2
  <2> QED BY <2>3, <2>4, <2>5, <2>6, <2>7
<1>9. Good
  <2> HIDE DEF Good
  <2> QED BY <1>2, <1>6, <1>7, <1>8 DEF Good
<1> QED BY <1>9

--------------------------------------------------------------------------
(* Starting to record                                                      *)

\* One field of one loop changes.
LEMMA WithLoopHas ==
  ASSUME NEW e \in Engines, NEW i \in LoopSlots, NEW m \in LoopRecords,
         NEW r \in Recorders, NEW p \in Pulses, NEW n \in Nat,
         NEW f, f = WithLoop(e, i, m, r, p, n)
  PROVE  /\ f \in Engines /\ f.rec = r /\ f.pulse = p /\ f.ready = n
         /\ f.loops[i] = m /\ \A j \in LoopSlots : j # i => f.loops[j] = e.loops[j]
<1> DEFINE L == [e.loops EXCEPT ![i] = m]
<1>1. e.loops \in [LoopSlots -> LoopRecords]
  BY WithIs
<1>2. /\ L \in [LoopSlots -> LoopRecords] /\ L[i] = m
      /\ \A j \in LoopSlots : j # i => L[j] = e.loops[j]
  BY <1>1, PutLoop
<1>4. f = With(L, r, p, n)
  BY DEF WithLoop
<1> HIDE DEF L
<1>6. f \in Engines /\ f.loops = L /\ f.rec = r /\ f.pulse = p /\ f.ready = n
  BY <1>2, <1>4, WithFits, WithHas
<1> QED BY <1>2, <1>6

\* A second change of that loop leaves nothing of the first.
LEMMA WithLoopOver ==
  ASSUME NEW e \in Engines, NEW i \in LoopSlots, NEW m, NEW r, NEW p, NEW n,
         NEW k, NEW s, NEW q, NEW c
  PROVE  WithLoop(WithLoop(e, i, m, r, p, n), i, k, s, q, c) = WithLoop(e, i, k, s, q, c)
<1> DEFINE L == [e.loops EXCEPT ![i] = m]
<1>1. [L EXCEPT ![i] = k] = [e.loops EXCEPT ![i] = k]
  BY WithIs
<1>2. WithLoop(e, i, m, r, p, n).loops = L
  BY WithHas DEF WithLoop
<1> HIDE DEF L
<1> QED BY <1>1, <1>2 DEF WithLoop

\* Slot i has its storage changed before a recording: its blocks are new, and it gets none
\* only when the pool had none.
LEMMA ProvideGives ==
  ASSUME NEW e, Working(e), NEW i \in LoopSlots
  PROVE  \E m \in LoopRecords, n \in Nat :
           /\ Provide(e, i) = WithLoop(e, i, m, e.rec, e.pulse, n)
           /\ m.mode = e.loops[i].mode /\ m.len = e.loops[i].len /\ m.position = e.loops[i].position
           /\ Shares(e.loops[i], m)
           /\ Supplied => n > 0 /\ (m.blocks > 0 \/ m.buffer > 0)
<1> DEFINE l == e.loops[i]
           k == [l EXCEPT !.blocks = 0]
           d == WithLoop(e, i, k, e.rec, e.pulse, e.ready)
           Fine(m, n) ==
             /\ Provide(e, i) = WithLoop(e, i, m, e.rec, e.pulse, n)
             /\ m.mode = l.mode /\ m.len = l.len /\ m.position = l.position /\ Shares(l, m)
             /\ Supplied => n > 0 /\ (m.blocks > 0 \/ m.buffer > 0)
<1>1. /\ e \in Engines /\ e.rec \in Recorders /\ e.pulse \in Pulses /\ e.ready \in Nat
      /\ (Supplied => e.ready > 0) /\ l \in LoopRecords
  BY WithIs, Slots DEF Working
<1>2. /\ k \in LoopRecords /\ k.mode = l.mode /\ k.len = l.len /\ k.position = l.position
      /\ k.blocks = 0 /\ k.buffer = l.buffer /\ k.offset = l.offset
      /\ k.synced = l.synced /\ k.beats = l.beats
  <2>1. 0 \in 0..MaxBlocks
    BY EngineBounds
  <2> QED BY <1>1, <2>1 DEF LoopRecords
<1>3. [e EXCEPT !.loops[i] = Release(@)] = d
  <2>1. [e EXCEPT !.loops[i] = Release(@)] = [e EXCEPT !.loops = [e.loops EXCEPT ![i] = k]]
    BY <1>1 DEF Release
  <2> HIDE DEF k
  <2> QED BY <1>1, <2>1, WithIs DEF WithLoop
<1>4. Provide(e, i) = IF d.loops[i].buffer = 0 THEN Grow(d, i, BlockFrames) ELSE d
  BY <1>3 DEF Provide
<1>5. /\ d \in Engines /\ d.rec = e.rec /\ d.pulse = e.pulse /\ d.ready = e.ready
      /\ d.loops[i] = k
      /\ \A m, r, p, n : WithLoop(d, i, m, r, p, n) = WithLoop(e, i, m, r, p, n)
  <2> HIDE DEF k
  <2>1. d = WithLoop(e, i, k, e.rec, e.pulse, e.ready)
    OBVIOUS
  <2> HIDE DEF d
  <2>2. /\ d \in Engines /\ d.rec = e.rec /\ d.pulse = e.pulse /\ d.ready = e.ready
        /\ d.loops[i] = k
    BY <1>1, <1>2, <2>1, WithLoopHas
  <2>3. \A m, r, p, n : WithLoop(d, i, m, r, p, n) = WithLoop(e, i, m, r, p, n)
    BY <1>1, <2>1, WithLoopOver
  <2> QED BY <2>2, <2>3
<1> SUFFICES \E m \in LoopRecords, n \in Nat : Fine(m, n)
  OBVIOUS
<1> HIDE DEF d, k
<1>6. CASE k.buffer = 0
  <2>1. PICK b \in Nat, n \in Nat :
           /\ Grow(d, i, BlockFrames) =
                With([d.loops EXCEPT ![i] = [@ EXCEPT !.blocks = b]], d.rec, d.pulse, n)
           /\ d.loops[i].blocks <= b /\ b <= MaxBlocks
           /\ WorkerKeepsUp => n = d.ready
           /\ (d.ready > 0 /\ BlockFrames > Stored(d.loops[i]) /\ d.loops[i].blocks = 0) => b > 0
    <3>1. BlockFrames \in Nat
      BY EngineBounds
    <3> QED BY <1>5, <3>1, GrowGives
  <2> DEFINE m == [k EXCEPT !.blocks = b]
  <2>2. [d.loops EXCEPT ![i] = [@ EXCEPT !.blocks = b]] = [d.loops EXCEPT ![i] = m]
    BY <1>5
  <2>3. /\ m \in LoopRecords /\ m.mode = k.mode /\ m.len = k.len /\ m.position = k.position
        /\ m.blocks = b /\ m.synced = k.synced /\ m.beats = k.beats
    <3>1. b \in 0..MaxBlocks
      BY <2>1, EngineBounds
    <3> QED BY <1>2, <3>1 DEF LoopRecords
  <2> HIDE DEF m
  <2>4. Grow(d, i, BlockFrames) = WithLoop(d, i, m, e.rec, e.pulse, n)
    BY <1>5, <2>1, <2>2 DEF WithLoop
  <2>5. Provide(e, i) = WithLoop(e, i, m, e.rec, e.pulse, n)
    BY <1>4, <1>5, <1>6, <2>4
  <2>6. Supplied => n > 0 /\ m.blocks > 0
    <3>1. Whole(k) = 0
      BY <1>2, <1>6 DEF Whole
    <3>2. Stored(k) = 0
      BY <1>2, <3>1, WholeIs, LoopFields
    <3> QED BY <1>1, <1>2, <1>5, <2>1, <2>3, <3>2, EngineBounds DEF Supplied
  <2>7. Fine(m, n)
    BY <1>2, <2>3, <2>5, <2>6 DEF Shares, Sounds
  <2> HIDE DEF Fine
  <2> QED BY <2>1, <2>3, <2>7
<1>7. CASE k.buffer # 0
  <2>1. Provide(e, i) = WithLoop(e, i, k, e.rec, e.pulse, e.ready)
    BY <1>4, <1>5, <1>7 DEF d
  <2>2. k.buffer > 0
    BY <1>2, <1>7, LoopFields
  <2>3. Fine(k, e.ready)
    BY <1>1, <1>2, <2>1, <2>2 DEF Shares, Sounds
  <2> HIDE DEF Fine
  <2> QED BY <1>1, <1>2, <2>3
<1> QED BY <1>6, <1>7

\* A recording that starts with what was heard since the downbeat has storage for that.
LEMMA PrefillGives ==
  ASSUME NEW e, NEW i \in LoopSlots, WorkingBut(e, i),
         e.loops[i].mode = "Recording", e.loops[i].offset = 0, e.loops[i].position = 0,
         e.loops[i].blocks > 0 \/ e.loops[i].buffer > 0
  PROVE  \E m \in LoopRecords, n \in Nat :
           /\ Prefill(e, i) = WithLoop(e, i, m, e.rec, e.pulse, n)
           /\ Provided(m) /\ Inside(m) /\ m.mode = "Recording" /\ (Supplied => n > 0)
           /\ m.synced = e.loops[i].synced /\ m.beats = e.loops[i].beats
           /\ m.len = Smaller(e.pulse.position, Stored(m))
           /\ m.blocks > 0 => Stored(m) >= BlockFrames
<1> DEFINE l == e.loops[i]
           g == IF l.blocks > 0 THEN Grow(e, i, e.pulse.position) ELSE e
           Fine(m, n) == /\ Prefill(e, i) = WithLoop(e, i, m, e.rec, e.pulse, n)
                         /\ Provided(m) /\ Inside(m) /\ m.mode = "Recording" /\ (Supplied => n > 0)
                         /\ m.synced = l.synced /\ m.beats = l.beats /\ m.len = Smaller(e.pulse.position, Stored(m))
                         /\ m.blocks > 0 => Stored(m) >= BlockFrames
<1> SUFFICES \E m \in LoopRecords, n \in Nat : Fine(m, n)
  OBVIOUS
<1>1. /\ e \in Engines /\ e.rec \in Recorders /\ e.pulse \in Pulses /\ e.ready \in Nat
      /\ (Supplied => e.ready > 0) /\ l \in LoopRecords /\ e.pulse.position \in Nat
  BY WithIs, Slots, PulseFields DEF WorkingBut
<1>2. PICK k \in LoopRecords, n \in Nat :
        /\ g = WithLoop(e, i, k, e.rec, e.pulse, n)
        /\ k.mode = l.mode /\ k.offset = l.offset /\ k.position = l.position
        /\ k.blocks > 0 \/ k.buffer > 0
        /\ k.synced = l.synced /\ k.beats = l.beats /\ (WorkerKeepsUp => n = e.ready)
  <2>1. CASE l.blocks > 0
    <3>1. PICK b \in Nat, n \in Nat :
             /\ Grow(e, i, e.pulse.position) =
                  With([e.loops EXCEPT ![i] = [@ EXCEPT !.blocks = b]], e.rec, e.pulse, n)
             /\ l.blocks <= b /\ b <= MaxBlocks /\ (WorkerKeepsUp => n = e.ready)
      BY <1>1, GrowGives
    <3> DEFINE k == [l EXCEPT !.blocks = b]
    <3>2. [e.loops EXCEPT ![i] = [@ EXCEPT !.blocks = b]] = [e.loops EXCEPT ![i] = k]
      OBVIOUS
    <3>3. /\ k \in LoopRecords /\ k.mode = l.mode /\ k.offset = l.offset /\ k.position = l.position
          /\ k.blocks = b /\ k.synced = l.synced /\ k.beats = l.beats
      <4>1. b \in 0..MaxBlocks
        BY <3>1, EngineBounds
      <4> QED BY <1>1, <4>1 DEF LoopRecords
    <3>4. g = With([e.loops EXCEPT ![i] = k], e.rec, e.pulse, n)
      BY <2>1, <3>1, <3>2
    <3> HIDE DEF k, g
    <3>5. g = WithLoop(e, i, k, e.rec, e.pulse, n)
      BY <3>4 DEF WithLoop
    <3>6. k.blocks > 0
      BY <1>1, <2>1, <3>1, <3>3, LoopFields
    <3> QED BY <3>1, <3>3, <3>5, <3>6
  <2>2. CASE ~(l.blocks > 0)
    <3>1. [e.loops EXCEPT ![i] = l] = e.loops
      BY <1>1, WithIs
    <3>2. g = WithLoop(e, i, l, e.rec, e.pulse, e.ready)
      BY <1>1, <2>2, <3>1, WithIs DEF WithLoop
    <3> HIDE DEF g
    <3> QED BY <1>1, <3>2
  <2> QED BY <2>1, <2>2
<1> HIDE DEF g
<1>3. /\ g \in Engines /\ g.rec = e.rec /\ g.pulse = e.pulse /\ g.ready = n /\ g.loops[i] = k
      /\ \A m, r, p, c : WithLoop(g, i, m, r, p, c) = WithLoop(e, i, m, r, p, c)
  <2>1. g \in Engines /\ g.rec = e.rec /\ g.pulse = e.pulse /\ g.ready = n /\ g.loops[i] = k
    BY <1>1, <1>2, WithLoopHas
  <2>2. \A m, r, p, c : WithLoop(g, i, m, r, p, c) = WithLoop(e, i, m, r, p, c)
    BY <1>1, <1>2, WithLoopOver
  <2> QED BY <2>1, <2>2
<1> DEFINE x == Smaller(e.pulse.position, Stored(k))
           m == [k EXCEPT !.len = x]
<1>4. Stored(k) \in Nat
  BY WholeIs
<1>5. x \in Nat /\ x <= Stored(k)
  BY <1>1, <1>4, Lesser
<1>6. Prefill(e, i) = [g EXCEPT !.loops = [g.loops EXCEPT ![i] = m]]
  <2>1. Prefill(e, i) = [g EXCEPT !.loops[i].len = x]
    BY <1>3 DEF Prefill, g
  <2> HIDE DEF x
  <2> QED BY <1>3, <2>1
<1> HIDE DEF x
<1>7. /\ m \in LoopRecords /\ m.mode = k.mode /\ m.len = x /\ m.position = k.position
      /\ m.blocks = k.blocks /\ m.buffer = k.buffer /\ m.offset = k.offset /\ m.synced = k.synced
      /\ m.beats = k.beats
  BY <1>5 DEF LoopRecords
<1> HIDE DEF m
<1>8. Prefill(e, i) = WithLoop(e, i, m, e.rec, e.pulse, n)
  <2>1. Prefill(e, i) = WithLoop(g, i, m, e.rec, e.pulse, n)
    <3>1. [g EXCEPT !.loops = [g.loops EXCEPT ![i] = m]] =
            With([g.loops EXCEPT ![i] = m], g.rec, g.pulse, g.ready)
      BY <1>3, WithIs
    <3> QED BY <1>3, <1>6, <3>1 DEF WithLoop
  <2> QED BY <1>3, <2>1
<1>9. Stored(m) = Stored(k)
  BY <1>7, StoredSame
<1>10. Provided(m)
  BY <1>2, <1>5, <1>7, <1>9 DEF Provided
<1>11. Inside(m)
  BY <1>2, <1>7 DEF Inside
<1>12. m.blocks > 0 => Stored(m) >= BlockFrames
  <2> SUFFICES ASSUME m.blocks > 0 PROVE Stored(m) >= BlockFrames
    OBVIOUS
  <2>1. m.blocks \in Nat /\ m.offset = 0 /\ 1 <= m.blocks
    BY <1>2, <1>7, LoopFields
  <2>2. 1 * BlockFrames <= m.blocks * BlockFrames /\ m.blocks * BlockFrames \in Nat
    BY <2>1, EngineBounds, TimesGrows
  <2>3. Stored(m) = m.blocks * BlockFrames
    BY <2>1, <2>2 DEF Stored
  <2> QED BY <2>2, <2>3, EngineBounds
<1>13. m.len = Smaller(e.pulse.position, Stored(m))
  BY <1>7, <1>9 DEF x
<1>14. Fine(m, n)
  BY <1>1, <1>2, <1>7, <1>8, <1>10, <1>11, <1>12, <1>13 DEF Supplied
<1> HIDE DEF Fine
<1> QED BY <1>2, <1>7, <1>14

LEMMA StartGives ==
  ASSUME NEW e, NEW i \in LoopSlots, WorkingBut(e, i),
         e.loops[i].blocks > 0 \/ e.loops[i].buffer > 0,
         \A j \in LoopSlots : j # i => Inside(e.loops[j]) /\ ~Live(e.loops[j])
  PROVE  LET f == StartRecording(e, i)
         IN /\ Healthy(f) /\ OneAt(f) /\ (~e.rec.waitStop /\ e.rec.tail = None => Unasked(f))
            /\ \A j \in LoopSlots : j # i => f.loops[j] = e.loops[j]
            /\ f.pulse = e.pulse /\ f.rec.slot = i /\ ~f.rec.extended
            /\ f.loops[i].mode = "Recording" /\ f.loops[i].beats = 0
            /\ e.pulse.active /\ e.pulse.frames <= 2 * BlockFrames /\ ~e.rec.waitStart
                 => Stuck(f.loops[i]) \/ Beaten(f.pulse, f.rec, f.loops[i])
<1> DEFINE l == e.loops[i]
           late == e.pulse.active /\ 2 * e.pulse.position >= e.pulse.frames
           k == [l EXCEPT !.offset = 0, !.len = 0, !.position = 0, !.mode = "Recording",
                          !.synced = e.pulse.active, !.beats = 0,
                          !.alignment = IF e.pulse.active THEN Alignment ELSE 0,
                          !.jump = None, !.heard = 0]
           r == [e.rec EXCEPT !.slot = i, !.waitStart = @ \/ late, !.late = late,
                              !.phase = IF e.pulse.active THEN e.pulse.position ELSE 0,
                              !.elapsed = 0, !.target = None,
                              !.skip = IF e.pulse.active THEN 0 ELSE Alignment \div 2,
                              !.justify = FALSE, !.beats = 0, !.extended = FALSE]
           new == WithLoop(e, i, k, r, e.pulse, e.ready)
           f == StartRecording(e, i)
           Good == /\ Healthy(f) /\ OneAt(f) /\ (~e.rec.waitStop /\ e.rec.tail = None => Unasked(f))
                   /\ \A j \in LoopSlots : j # i => f.loops[j] = e.loops[j]
                   /\ f.pulse = e.pulse /\ f.rec.slot = i /\ ~f.rec.extended
                   /\ f.loops[i].mode = "Recording" /\ f.loops[i].beats = 0
                   /\ e.pulse.active /\ e.pulse.frames <= 2 * BlockFrames /\ ~e.rec.waitStart
                        => Stuck(f.loops[i]) \/ Beaten(f.pulse, f.rec, f.loops[i])
<1> SUFFICES Good
  OBVIOUS
<1>1. /\ e \in Engines /\ e.rec \in Recorders /\ e.pulse \in Pulses /\ Beating(e.pulse) /\ e.ready \in Nat
      /\ (Supplied => e.ready > 0) /\ l \in LoopRecords
      /\ e.pulse.position \in Nat /\ e.pulse.active \in BOOLEAN /\ late \in BOOLEAN
  BY WithIs, Slots, PulseFields DEF WorkingBut
<1>2. /\ k \in LoopRecords /\ k.mode = "Recording" /\ k.len = 0 /\ k.position = 0 /\ k.offset = 0
      /\ k.blocks = l.blocks /\ k.buffer = l.buffer /\ k.synced = e.pulse.active /\ k.beats = 0
  <2>1. 0 \in Nat /\ None \in Nat /\ "Recording" \in Modes
        /\ (IF e.pulse.active THEN Alignment ELSE 0) \in Nat
    BY NoneIs, EngineBounds DEF Modes
  <2> DEFINE h == [l EXCEPT !.offset = 0, !.len = 0, !.position = 0, !.mode = "Recording"]
             a == IF e.pulse.active THEN Alignment ELSE 0
  <2>2. /\ h \in LoopRecords /\ h.mode = "Recording" /\ h.len = 0 /\ h.position = 0 /\ h.offset = 0
        /\ h.blocks = l.blocks /\ h.buffer = l.buffer
    BY <1>1, <2>1 DEF LoopRecords
  <2>3. k = [h EXCEPT !.synced = e.pulse.active, !.beats = 0, !.alignment = a,
                      !.jump = None, !.heard = 0]
    OBVIOUS
  <2> HIDE DEF h, k, a
  <2>4. a \in Nat
    BY <2>1 DEF a
  <2> QED BY <1>1, <2>1, <2>2, <2>3, <2>4 DEF LoopRecords
<1>3. r \in Recorders /\ r.slot = i /\ r.waitStop = e.rec.waitStop /\ r.tail = e.rec.tail /\ r.target = None
      /\ r.waitStart = (e.rec.waitStart \/ late) /\ r.beats = 0 /\ (e.pulse.active => r.skip = 0)
      /\ r.extended = FALSE
  <2>1. i \in 0..NSlots /\ 0 \in Nat /\ None \in Nat
    BY NoneIs
  <2>2. (e.rec.waitStart \/ late) \in BOOLEAN
    BY <1>1
  <2>3. (IF e.pulse.active THEN e.pulse.position ELSE 0) \in Nat
    BY <1>1
  <2>4. (IF e.pulse.active THEN 0 ELSE Alignment \div 2) \in Nat
    <3>1. Alignment \div 2 \in Nat
      BY EngineBounds, Divided
    <3> QED BY <3>1
  <2> HIDE DEF late
  <2> DEFINE s == [e.rec EXCEPT !.slot = i, !.waitStart = @ \/ late, !.late = late,
                                !.phase = IF e.pulse.active THEN e.pulse.position ELSE 0]
  <2>5. s \in Recorders /\ s.slot = i /\ s.waitStop = e.rec.waitStop /\ s.tail = e.rec.tail
        /\ s.waitStart = (e.rec.waitStart \/ late)
    BY <1>1, <2>1, <2>2, <2>3 DEF Recorders
  <2>6. r = [s EXCEPT !.elapsed = 0, !.target = None,
                      !.skip = IF e.pulse.active THEN 0 ELSE Alignment \div 2,
                      !.justify = FALSE, !.beats = 0, !.extended = FALSE]
    OBVIOUS
  <2> HIDE DEF s, r
  <2> QED BY <2>1, <2>4, <2>5, <2>6 DEF Recorders
<1>4. f = IF e.pulse.active /\ ~late THEN Prefill(new, i) ELSE new
  <2>1. [e EXCEPT !.loops[i] = k, !.rec = r] = new
    <3>1. [e EXCEPT !.loops[i] = k, !.rec = r] = [e EXCEPT !.loops = [e.loops EXCEPT ![i] = k], !.rec = r]
      BY <1>1
    <3> HIDE DEF k, r
    <3> QED BY <1>1, <3>1, WithMore DEF WithLoop
  <2>2. f = IF e.pulse.active /\ ~late THEN Prefill([e EXCEPT !.loops[i] = k, !.rec = r], i)
            ELSE [e EXCEPT !.loops[i] = k, !.rec = r]
    BY DEF StartRecording
  <2> HIDE DEF f, k, r, new
  <2> QED BY <2>1, <2>2
<1> HIDE DEF k, r, f, late
<1>5. /\ new \in Engines /\ new.rec = r /\ new.pulse = e.pulse /\ new.ready = e.ready /\ new.loops[i] = k
      /\ \A j \in LoopSlots : j # i => new.loops[j] = e.loops[j]
  BY <1>1, <1>2, <1>3, WithLoopHas
<1>6. \A m, s, p, n : WithLoop(new, i, m, s, p, n) = WithLoop(e, i, m, s, p, n)
  BY <1>1, WithLoopOver
<1>7. PICK m \in LoopRecords, n \in Nat :
        /\ f = WithLoop(e, i, m, r, e.pulse, n)
        /\ Provided(m) /\ Inside(m) /\ m.mode = "Recording" /\ (Supplied => n > 0)
        /\ m.synced = e.pulse.active /\ m.beats = 0
        /\ IF e.pulse.active /\ ~late
           THEN m.len = Smaller(e.pulse.position, Stored(m)) /\ (m.blocks > 0 => Stored(m) >= BlockFrames)
           ELSE m.len = 0
  <2>1. CASE e.pulse.active /\ ~late
    <3> HIDE DEF new
    <3>1. WorkingBut(new, i)
      BY <1>1, <1>5 DEF WorkingBut
    <3>2. PICK m \in LoopRecords, n \in Nat :
             /\ Prefill(new, i) = WithLoop(new, i, m, new.rec, new.pulse, n)
             /\ Provided(m) /\ Inside(m) /\ m.mode = "Recording" /\ (Supplied => n > 0)
             /\ m.synced = k.synced /\ m.beats = k.beats /\ m.len = Smaller(e.pulse.position, Stored(m))
             /\ m.blocks > 0 => Stored(m) >= BlockFrames
      BY <1>2, <1>5, <3>1, PrefillGives
    <3>3. f = WithLoop(e, i, m, r, e.pulse, n)
      BY <1>4, <1>5, <1>6, <2>1, <3>2
    <3> QED BY <1>2, <2>1, <3>2, <3>3
  <2>2. CASE ~(e.pulse.active /\ ~late)
    <3>1. f = WithLoop(e, i, k, r, e.pulse, e.ready)
      BY <1>4, <2>2
    <3>2. Provided(k) /\ Inside(k)
      BY <1>2, WholeIs DEF Provided, Inside
    <3> HIDE DEF new
    <3> QED BY <1>1, <1>2, <2>2, <3>1, <3>2
  <2> QED BY <2>1, <2>2
<1>8. /\ Working(f)
      /\ f.loops[i] = m /\ \A j \in LoopSlots : j # i => f.loops[j] = e.loops[j]
      /\ f.rec = r /\ f.pulse = e.pulse /\ f.ready = n
      /\ (\A j \in LoopSlots : j # i => Inside(e.loops[j])) /\ Inside(m) => Healthy(f)
      /\ Keeps(e.loops[i], m) => Spares(e, f)
      /\ (/\ Live(m) => r.slot = i
          /\ \A j \in LoopSlots : j # i /\ Live(e.loops[j]) => r.slot = j) => OneAt(f)
  BY <1>1, <1>3, <1>7, PutInto
<1>9. ~e.rec.waitStop /\ e.rec.tail = None => Unasked(f)
  BY <1>3, <1>7, <1>8 DEF Unasked, Live
<1>10. ASSUME e.pulse.active, e.pulse.frames <= 2 * BlockFrames, ~e.rec.waitStart
       PROVE  Stuck(m) \/ Beaten(e.pulse, r, m)
  <2>1. m.synced /\ r.skip = 0 /\ r.beats = 0 /\ (r.waitStart <=> late)
    BY <1>3, <1>7, <1>10
  <2>2. CASE late
    BY <1>7, <2>1, <2>2 DEF Beaten
  <2>3. CASE ~late
    <3>1. /\ e.pulse.frames \in Nat /\ BlockFrames \in Nat /\ Stored(m) \in Nat
          /\ m.blocks \in Nat
      BY <1>1, PulseFields, EngineBounds, WholeIs, LoopFields
    <3>2. e.pulse.position < BlockFrames
      BY <1>1, <1>10, <2>3, <3>1 DEF late
    <3>3. m.len = Smaller(e.pulse.position, Stored(m)) /\ (m.blocks > 0 => Stored(m) >= BlockFrames)
      BY <1>7, <1>10, <2>3
    <3>4. CASE m.len = e.pulse.position
      <4>1. 0 * e.pulse.frames = 0
        BY <3>1
      <4>2. m.len = 0 * e.pulse.frames + e.pulse.position
        BY <1>1, <3>4, <4>1
      <4> QED BY <2>1, <2>3, <3>4, <4>2 DEF Beaten
    <3>5. CASE m.len # e.pulse.position
      <4>1. m.len = Stored(m) /\ Stored(m) < e.pulse.position
        BY <1>1, <3>1, <3>3, <3>5 DEF Smaller
      <4>2. m.blocks = 0
        BY <1>1, <3>1, <3>2, <3>3, <4>1
      <4> QED BY <4>1, <4>2 DEF Stuck, Full
    <3> QED BY <3>4, <3>5
  <2> QED BY <1>1, <2>2, <2>3
<1> QED BY <1>3, <1>7, <1>8, <1>9, <1>10

LEMMA RecordGives ==
  ASSUME NEW e, Healthy(e), Quiet(e), NEW i \in LoopSlots
  PROVE  LET f == Record(Provide(e, i), i)
         IN /\ Healthy(f) /\ OneAt(f) /\ (Rested(e.rec) => Unasked(f))
            /\ \A j \in LoopSlots : j # i => f.loops[j] = e.loops[j]
            /\ f.pulse = e.pulse /\ (Rested(e.rec) /\ Covered(e) => Cycling(f))
            /\ Rested(e.rec) =>
                 \/ /\ f.rec.slot = None /\ Quiet(f)
                    /\ \A j \in LoopSlots : f.loops[j].len = e.loops[j].len
                 \/ /\ f.rec.slot = i
                    /\ e.pulse.active /\ e.pulse.frames <= 2 * BlockFrames
                         => Stuck(f.loops[i]) \/ Beaten(f.pulse, f.rec, f.loops[i])
<1> DEFINE l == e.loops[i]
           d == Provide(e, i)
           f == Record(d, i)
           Good == /\ Healthy(f) /\ OneAt(f) /\ (Rested(e.rec) => Unasked(f))
                   /\ \A j \in LoopSlots : j # i => f.loops[j] = e.loops[j]
                   /\ f.pulse = e.pulse /\ (Rested(e.rec) /\ Covered(e) => Cycling(f))
                   /\ Rested(e.rec) =>
                        \/ /\ f.rec.slot = None /\ Quiet(f)
                           /\ \A j \in LoopSlots : f.loops[j].len = e.loops[j].len
                        \/ /\ f.rec.slot = i
                           /\ e.pulse.active /\ e.pulse.frames <= 2 * BlockFrames
                                => Stuck(f.loops[i]) \/ Beaten(f.pulse, f.rec, f.loops[i])
<1> SUFFICES Good
  OBVIOUS
<1>1. /\ Working(e) /\ e \in Engines /\ e.rec \in Recorders /\ Beating(e.pulse) /\ e.pulse \in Pulses
      /\ WorkingBut(e, i) /\ Provided(l) /\ l \in LoopRecords
      /\ \A j \in LoopSlots : Inside(e.loops[j]) /\ ~Live(e.loops[j])
  BY WithIs, WorkingIs, Slots DEF Healthy, Working, Quiet
<1>2. PICK m \in LoopRecords, n \in Nat :
        /\ d = WithLoop(e, i, m, e.rec, e.pulse, n)
        /\ m.mode = l.mode /\ m.len = l.len /\ m.position = l.position /\ Shares(l, m)
        /\ Supplied => n > 0 /\ (m.blocks > 0 \/ m.buffer > 0)
  BY <1>1, ProvideGives
<1> HIDE DEF d
<1>3. /\ d \in Engines /\ d.rec = e.rec /\ d.pulse = e.pulse /\ d.ready = n /\ d.loops[i] = m
      /\ \A j \in LoopSlots : j # i => d.loops[j] = e.loops[j]
  BY <1>1, <1>2, WithLoopHas
<1>4. Record(d, i) = IF m.buffer = 0 /\ m.blocks = 0 THEN d ELSE StartRecording(d, i)
  BY <1>3 DEF Record
<1>5. m.buffer \in Nat /\ m.blocks \in Nat
  BY LoopFields
<1>6. Inside(m) /\ ~Live(m)
  BY <1>1, <1>2 DEF Inside, Live
<1> HIDE DEF f
<1>7. CASE m.buffer = 0 /\ m.blocks = 0
  <2>1. f = WithLoop(e, i, m, e.rec, e.pulse, n)
    BY <1>2, <1>4, <1>7 DEF f
  <2>2. ~Supplied
    BY <1>2, <1>5, <1>7
  <2>3. Provided(m)
    BY <1>1, <1>2, <1>6, <2>2 DEF Provided, Live
  <2>4. /\ Working(f)
        /\ f.loops[i] = m /\ \A j \in LoopSlots : j # i => f.loops[j] = e.loops[j]
        /\ f.rec = e.rec /\ f.pulse = e.pulse /\ f.ready = n
        /\ (\A j \in LoopSlots : j # i => Inside(e.loops[j])) /\ Inside(m) => Healthy(f)
        /\ Keeps(e.loops[i], m) => Spares(e, f)
        /\ (/\ Live(m) => e.rec.slot = i
            /\ \A j \in LoopSlots : j # i /\ Live(e.loops[j]) => e.rec.slot = j) => OneAt(f)
    BY <1>1, <1>2, <2>1, <2>3, PutInto
  <2>5. Rested(e.rec) => Unasked(f)
    BY <2>4 DEF Rested, Unasked
  <2>6. Rested(e.rec) => /\ f.rec.slot = None /\ Quiet(f)
                         /\ \A j \in LoopSlots : f.loops[j].len = e.loops[j].len
    BY <1>1, <1>2, <1>6, <2>4 DEF Rested, Quiet
  <2>7. Rested(e.rec) /\ Covered(e) => Cycling(f)
    BY <1>2, <2>4 DEF Rested, Covered, Shares, Cycling, Attended, Uncommitted
  <2> QED BY <1>1, <1>6, <2>4, <2>5, <2>6, <2>7
<1>8. CASE ~(m.buffer = 0 /\ m.blocks = 0)
  <2>1. f = StartRecording(d, i)
    BY <1>4, <1>8 DEF f
  <2>2. WorkingBut(d, i)
    BY <1>1, <1>2, <1>3 DEF WorkingBut
  <2>3. d.loops[i].blocks > 0 \/ d.loops[i].buffer > 0
    BY <1>3, <1>5, <1>8
  <2>4. \A j \in LoopSlots : j # i => Inside(d.loops[j]) /\ ~Live(d.loops[j])
    BY <1>1, <1>3
  <2>5. /\ Healthy(f) /\ OneAt(f) /\ (~d.rec.waitStop /\ d.rec.tail = None => Unasked(f))
        /\ \A j \in LoopSlots : j # i => f.loops[j] = d.loops[j]
        /\ f.pulse = d.pulse /\ f.rec.slot = i /\ ~f.rec.extended
        /\ f.loops[i].mode = "Recording" /\ f.loops[i].beats = 0
        /\ d.pulse.active /\ d.pulse.frames <= 2 * BlockFrames /\ ~d.rec.waitStart
             => Stuck(f.loops[i]) \/ Beaten(f.pulse, f.rec, f.loops[i])
    BY <2>1, <2>2, <2>3, <2>4, StartGives
  <2>6. Covered(e) => Cycling(f)
    BY <1>3, <2>5 DEF Covered, InCycle, Cycling, Attended, Uncommitted, Live
  <2> QED BY <1>3, <2>5, <2>6 DEF Rested
<1> QED BY <1>7, <1>8

--------------------------------------------------------------------------
(* Starting to play                                                        *)

\* A loop with frames plays from where the clock says it is.
LEMMA SoundGives ==
  ASSUME NEW e, Working(e), NEW i \in LoopSlots, e.loops[i].len > 0,
         NEW mode \in {"Playing", "Overdubbing"}
  PROVE  \E m \in LoopRecords, p \in Pulses :
           /\ Sound(e, i, mode) = WithLoop(e, i, m, e.rec, p, e.ready)
           /\ Beating(p) /\ Provided(m) /\ Inside(m) /\ m.mode = mode /\ m.len = e.loops[i].len
           /\ m.blocks = e.loops[i].blocks /\ m.buffer = e.loops[i].buffer /\ m.offset = e.loops[i].offset
           /\ Shares(e.loops[i], m) /\ Longer(e.pulse, p)
<1> DEFINE l == e.loops[i]
           x == IF l.synced /\ e.pulse.active THEN LoopPosition(e.pulse, l) ELSE 0
           m == [l EXCEPT !.mode = mode, !.position = x]
           p == IF l.synced THEN Extend(e.pulse, Larger(l.beats, 1), TRUE) ELSE e.pulse
           Fine(k, q) ==
           /\ Sound(e, i, mode) = WithLoop(e, i, k, e.rec, q, e.ready)
           /\ Beating(q) /\ Provided(k) /\ Inside(k) /\ k.mode = mode /\ k.len = l.len
           /\ k.blocks = l.blocks /\ k.buffer = l.buffer /\ k.offset = l.offset
           /\ Shares(l, k) /\ Longer(e.pulse, q)
<1> SUFFICES \E k \in LoopRecords, q \in Pulses : Fine(k, q)
  OBVIOUS
<1>1. /\ e \in Engines /\ e.rec \in Recorders /\ Beating(e.pulse) /\ e.pulse \in Pulses /\ e.ready \in Nat
      /\ l \in LoopRecords /\ Provided(l)
  BY WithIs, Slots DEF Working
<1>2. x \in Nat /\ (x = 0 \/ x < l.len)
  BY <1>1, LoopPositionFits
<1>3. Sound(e, i, mode) = [e EXCEPT !.loops = [e.loops EXCEPT ![i] = m], !.pulse = p]
  <2>1. Sound(e, i, mode) = [e EXCEPT !.loops[i].mode = mode, !.loops[i].position = x, !.pulse = p]
    BY DEF Sound
  <2> HIDE DEF x, p
  <2> QED BY <1>1, <2>1 DEF Engines, LoopRecords
<1> HIDE DEF x
<1>4. /\ m \in LoopRecords /\ m.mode = mode /\ m.position = x /\ m.len = l.len
      /\ m.blocks = l.blocks /\ m.buffer = l.buffer /\ m.offset = l.offset
      /\ m.synced = l.synced /\ m.beats = l.beats
  <2>1. mode \in Modes
    BY DEF Modes
  <2> QED BY <1>1, <1>2, <2>1 DEF LoopRecords
<1>5. Beating(p) /\ Longer(e.pulse, p)
  <2>1. Larger(l.beats, 1) \in Nat
    BY <1>1, LoopFields, Lesser
  <2> QED BY <1>1, <2>1, ExtendBeats, ExtendCovers, SharesItself
<1> HIDE DEF m, p
<1>6. Sound(e, i, mode) = WithLoop(e, i, m, e.rec, p, e.ready)
  BY <1>1, <1>3 DEF Engines, With, WithLoop
<1>7. Stored(m) = Stored(l)
  BY <1>4, StoredSame
<1>8. Provided(m) /\ Inside(m)
  BY <1>1, <1>2, <1>4, <1>7 DEF Provided, Inside
<1>a. Shares(l, m)
  BY <1>1, <1>4, LoopFields DEF Shares, Sounds
<1>9. Fine(m, p)
  BY <1>4, <1>5, <1>6, <1>8, <1>a
<1>10. p \in Pulses
  BY <1>5 DEF Beating
<1> HIDE DEF Fine
<1> QED BY <1>4, <1>9, <1>10

\* Triggering a loop: also the one that is being overdubbed, which then no longer is.
LEMMA TriggerGives ==
  ASSUME NEW e, Healthy(e), OneAt(e), NEW i \in LoopSlots, e.loops[i].len > 0
  PROVE  LET f == Sound(e, i, "Playing")
         IN /\ Healthy(f) /\ OneAt(f) /\ Spares(e, f) /\ Heeds(e, f)
            /\ e.rec.slot # i => Cycled(e, f)
<1> DEFINE l == e.loops[i]
           f == Sound(e, i, "Playing")
           Good == /\ Healthy(f) /\ OneAt(f) /\ Spares(e, f) /\ Heeds(e, f)
                   /\ e.rec.slot # i => Cycled(e, f)
<1> SUFFICES Good
  OBVIOUS
<1>1. /\ Working(e) /\ WorkingBut(e, i) /\ e.rec \in Recorders /\ e.ready \in Nat /\ (Supplied => e.ready > 0)
      /\ \A j \in LoopSlots : Inside(e.loops[j])
  BY WithIs, WorkingIs DEF Healthy, Working
<1>2. PICK m \in LoopRecords, p \in Pulses :
        /\ f = WithLoop(e, i, m, e.rec, p, e.ready)
        /\ Beating(p) /\ Provided(m) /\ Inside(m) /\ m.mode = "Playing" /\ m.len = l.len
        /\ m.blocks = l.blocks /\ m.buffer = l.buffer /\ m.offset = l.offset
        /\ Shares(l, m) /\ Longer(e.pulse, p)
  BY <1>1, SoundGives
<1> HIDE DEF f
<1>3. /\ Working(f)
      /\ f.loops[i] = m /\ \A j \in LoopSlots : j # i => f.loops[j] = e.loops[j]
      /\ f.rec = e.rec /\ f.pulse = p /\ f.ready = e.ready
      /\ (\A j \in LoopSlots : j # i => Inside(e.loops[j])) /\ Inside(m) => Healthy(f)
      /\ Keeps(e.loops[i], m) => Spares(e, f)
      /\ (/\ Live(m) => e.rec.slot = i
          /\ \A j \in LoopSlots : j # i /\ Live(e.loops[j]) => e.rec.slot = j) => OneAt(f)
  BY <1>1, <1>2, PutInto
<1>4. Stored(m) = Stored(l)
  BY <1>2, StoredSame
<1>5. Keeps(l, m) /\ ~Live(m)
  BY <1>2, <1>4 DEF Keeps, Live
<1>6. \A j \in LoopSlots : Live(e.loops[j]) => e.rec.slot = j
  BY DEF OneAt
<1>7. Heeds(e, f)
  BY <1>2, <1>3 DEF Heeds, SameRequests
<1>8. e.rec.slot # i => Cycled(e, f)
  <2>1. e \in Engines /\ (e.rec.slot = None \/ e.rec.slot \in LoopSlots)
    BY <1>1, RecorderFields DEF Working
  <2>2. Covered(e) => Covered(f)
    BY <1>2, <1>3, <2>1, CoversOn, SharesItself
  <2> QED BY <1>3, <2>1, <2>2 DEF Cycled, RecordsOn
<1> QED BY <1>1, <1>2, <1>3, <1>5, <1>6, <1>7, <1>8

LEMMA OverdubGives ==
  ASSUME NEW e, Healthy(e), Quiet(e), NEW i \in LoopSlots
  PROVE  LET f == Overdub(e, i)
         IN /\ Healthy(f) /\ OneAt(f) /\ Spares(e, f) /\ (Rested(e.rec) => Unasked(f))
            /\ Rested(e.rec) /\ Covered(e) => Cycling(f)
<1> DEFINE l == e.loops[i]
           f == Overdub(e, i)
           Good == /\ Healthy(f) /\ OneAt(f) /\ Spares(e, f) /\ (Rested(e.rec) => Unasked(f))
                   /\ Rested(e.rec) /\ Covered(e) => Cycling(f)
<1> SUFFICES Good
  OBVIOUS
<1>1. /\ Working(e) /\ WorkingBut(e, i) /\ e \in Engines /\ e.rec \in Recorders /\ e.ready \in Nat
      /\ (Supplied => e.ready > 0) /\ l \in LoopRecords
      /\ \A j \in LoopSlots : Inside(e.loops[j]) /\ ~Live(e.loops[j])
  BY WithIs, WorkingIs, Slots DEF Healthy, Working, Quiet
<1>2. CASE l.len = 0
  <2>1. f = e
    BY <1>2 DEF Overdub
  <2>2. OneAt(e)
    BY <1>1 DEF OneAt
  <2>3. Rested(e.rec) => Unasked(e) /\ (Covered(e) => Cycling(e))
    BY DEF Rested, Unasked, Cycling, Attended, Uncommitted
  <2> HIDE DEF f
  <2> QED BY <2>1, <2>2, <2>3, SparesItself
<1>3. CASE l.len # 0
  <2>1. l.len > 0 /\ l.mode # "Recording"
    BY <1>1, <1>3, LoopFields DEF Live
  <2> DEFINE s == Sound(e, i, "Overdubbing")
  <2>2. PICK k \in LoopRecords, p \in Pulses :
           /\ s = WithLoop(e, i, k, e.rec, p, e.ready)
           /\ Beating(p) /\ Provided(k) /\ Inside(k) /\ k.mode = "Overdubbing" /\ k.len = l.len
           /\ k.blocks = l.blocks /\ k.buffer = l.buffer /\ k.offset = l.offset
           /\ Shares(l, k) /\ Longer(e.pulse, p)
    BY <1>1, <2>1, SoundGives
  <2> HIDE DEF s
  <2>3. p \in Pulses
    BY <2>2 DEF Beating
  <2>4. s \in Engines /\ s.rec = e.rec /\ s.pulse = p /\ s.ready = e.ready /\ s.loops[i] = k
    BY <1>1, <2>2, <2>3, WithLoopHas
  <2> DEFINE m == [k EXCEPT !.ending = None, !.jump = None, !.heard = 0]
             r == [e.rec EXCEPT !.slot = i]
  <2>5. f = [s EXCEPT !.loops = [s.loops EXCEPT ![i] = m], !.rec = r]
    <3>1. f = [s EXCEPT !.loops[i].ending = None, !.loops[i].jump = None, !.loops[i].heard = 0,
                        !.rec.slot = i]
      BY <1>3 DEF Overdub, s
    <3>2. [s EXCEPT !.loops[i].ending = None, !.loops[i].jump = None, !.loops[i].heard = 0] =
            [s EXCEPT !.loops = [s.loops EXCEPT ![i] = m]]
      <4>1. [s.loops EXCEPT ![i].ending = None, ![i].jump = None, ![i].heard = 0] = [s.loops EXCEPT ![i] = m]
        BY <2>4, WithIs
      <4> HIDE DEF m
      <4> QED BY <2>4, <4>1 DEF Engines
    <3> HIDE DEF m, r
    <3>3. [s EXCEPT !.loops[i].ending = None, !.loops[i].jump = None, !.loops[i].heard = 0,
                    !.rec.slot = i] =
          [[s EXCEPT !.loops[i].ending = None, !.loops[i].jump = None, !.loops[i].heard = 0]
             EXCEPT !.rec = r]
      BY <2>4 DEF Engines, r
    <3>4. [[s EXCEPT !.loops = [s.loops EXCEPT ![i] = m]] EXCEPT !.rec = r] =
            [s EXCEPT !.loops = [s.loops EXCEPT ![i] = m], !.rec = r]
      OBVIOUS
    <3> QED BY <3>1, <3>2, <3>3, <3>4
  <2>6. /\ m \in LoopRecords /\ m.mode = k.mode /\ m.position = k.position /\ m.len = k.len
        /\ m.blocks = k.blocks /\ m.buffer = k.buffer /\ m.offset = k.offset /\ m.ending = None
        /\ m.synced = k.synced /\ m.beats = k.beats
    BY NoneIs DEF LoopRecords
  <2>7. /\ r \in Recorders /\ r.slot = i
        /\ r.waitStop = e.rec.waitStop /\ r.tail = e.rec.tail /\ r.target = e.rec.target
    BY <1>1, NoneIs DEF Recorders
  <2> HIDE DEF m, r, f
  <2>8. f = WithLoop(s, i, m, r, p, e.ready)
    BY <2>4, <2>5 DEF Engines, With, WithLoop
  <2>9. f = WithLoop(e, i, m, r, p, e.ready)
    BY <1>1, <2>2, <2>8, WithLoopOver
  <2>10. Stored(m) = Stored(k) /\ Stored(m) = Stored(l)
    BY <2>2, <2>6, StoredSame
  <2>11. Provided(m) /\ Inside(m) /\ Keeps(l, m)
    BY <2>2, <2>6, <2>10 DEF Provided, Inside, Keeps
  <2>12. /\ Working(f)
         /\ f.loops[i] = m /\ \A j \in LoopSlots : j # i => f.loops[j] = e.loops[j]
         /\ f.rec = r /\ f.pulse = p /\ f.ready = e.ready
         /\ (\A j \in LoopSlots : j # i => Inside(e.loops[j])) /\ Inside(m) => Healthy(f)
         /\ Keeps(e.loops[i], m) => Spares(e, f)
         /\ (/\ Live(m) => r.slot = i
             /\ \A j \in LoopSlots : j # i /\ Live(e.loops[j]) => r.slot = j) => OneAt(f)
    BY <1>1, <2>2, <2>6, <2>7, <2>9, <2>11, PutInto
  <2>13. Rested(e.rec) => Unasked(f)
    BY <1>1, <2>6, <2>7, <2>12 DEF Rested, Unasked, Live
  <2>14. Shares(l, m)
    BY <2>2, <2>6 DEF Shares, Sounds
  <2>15. Covered(e) => Cycling(f)
    <3>1. Covered(e) => Covered(f)
      BY <1>1, <2>2, <2>12, <2>14, CoversOn, SharesItself
    <3> QED BY <2>2, <2>6, <2>7, <2>12, <3>1 DEF Cycling, Attended, Uncommitted, Live
  <2> QED BY <1>1, <2>7, <2>11, <2>12, <2>13, <2>15
<1> QED BY <1>2, <1>3

--------------------------------------------------------------------------
(* A frame                                                                 *)

\* What every operation keeps.
Orderly(e) == Healthy(e) /\ OneAt(e)

LEMMA CountedIs ==
  ASSUME NEW S \in SUBSET LoopSlots
  PROVE  Cardinality(S) \in Nat
<1>1. IsFiniteSet(LoopSlots)
  <2>1. 1 \in Int /\ NSlots \in Int
    BY EngineBounds
  <2> QED BY <2>1, FS_Interval DEF LoopSlots
<1>2. IsFiniteSet(S)
  BY <1>1, FS_Subset
<1> QED BY <1>2, FS_CardinalityType

\* A loop that has returned to where the clock says it is.
Realigned(p, l, jump) == [l EXCEPT !.position = LoopPosition(p, l), !.jump = jump]

LEMMA RealignedIs ==
  ASSUME NEW p \in Pulses, NEW l \in LoopRecords, NEW jump \in Nat, Provided(l),
         NEW m, m = Realigned(p, l, jump)
  PROVE  /\ m \in LoopRecords /\ Provided(m) /\ Inside(m) /\ m.mode = l.mode /\ Stored(m) = Stored(l)
         /\ m.len = l.len /\ m.ending = l.ending /\ m.synced = l.synced /\ m.beats = l.beats
<1> DEFINE x == LoopPosition(p, l)
<1>1. x \in Nat /\ (x = 0 \/ x < l.len)
  BY LoopPositionFits
<1> HIDE DEF x
<1>2. /\ m \in LoopRecords /\ m.mode = l.mode /\ m.len = l.len /\ m.position = x
      /\ m.blocks = l.blocks /\ m.buffer = l.buffer /\ m.offset = l.offset /\ m.ending = l.ending
      /\ m.synced = l.synced /\ m.beats = l.beats
  <2>1. m = [l EXCEPT !.position = x, !.jump = jump]
    BY DEF Realigned, x
  <2> QED BY <1>1, <2>1 DEF LoopRecords
<1>3. Stored(m) = Stored(l)
  BY <1>2, StoredSame
<1>4. Provided(m) /\ Inside(m)
  BY <1>1, <1>2, <1>3 DEF Provided, Inside
<1> QED BY <1>2, <1>3, <1>4

LEMMA DownbeatGives ==
  ASSUME NEW e, Orderly(e)
  PROVE  /\ Orderly(AtDownbeat(e)) /\ Spares(e, AtDownbeat(e)) /\ GoesOn(e, AtDownbeat(e))
         /\ Cycled(e, AtDownbeat(e))
<1> DEFINE s == IF e.rec.waitStop
                THEN [e.rec EXCEPT !.waitStop = FALSE, !.waitStart = FALSE, !.tail = RecordingTailFrames]
                ELSE [e.rec EXCEPT !.waitStart = FALSE]
           counted == {i \in LoopSlots : LET l == e.loops[i]
                                     IN l.mode = "Recording" /\ l.synced /\ l.len # 0}
           realigns(l) == /\ l.mode \in {"Playing", "Overdubbing"}
                          /\ l.synced /\ l.beats # 0 /\ l.len # 0
                          /\ e.pulse.longCount % l.beats = 0
                          /\ l.position # LoopPosition(e.pulse, l)
           realigned(l) == [l EXCEPT !.position = LoopPosition(e.pulse, l),
                                     !.jump = IF l.mode = "Overdubbing" /\ l.heard # 0 THEN 1 ELSE @]
           r == IF counted = {} THEN s ELSE [s EXCEPT !.beats = @ + Cardinality(counted), !.late = FALSE]
           L == [i \in LoopSlots |-> IF realigns(e.loops[i]) THEN realigned(e.loops[i]) ELSE e.loops[i]]
           f == AtDownbeat(e)
<1>1. /\ Working(e) /\ e \in Engines /\ e.loops \in [LoopSlots -> LoopRecords] /\ e.rec \in Recorders
      /\ e.pulse \in Pulses /\ Beating(e.pulse) /\ e.ready \in Nat /\ (Supplied => e.ready > 0)
      /\ OneAt(e)
  BY WithIs DEF Orderly, Healthy, Working
<1>2. s \in Recorders /\ s.slot = e.rec.slot /\ s.extended = e.rec.extended /\ (~e.rec.waitStop => SameRequests(e.rec, s))
  <2>1. RecordingTailFrames \in Nat
    BY EngineBounds, Lesser DEF RecordingTailFrames
  <2> QED BY <1>1, <2>1 DEF Recorders, SameRequests
<1>3. f = [e EXCEPT !.rec = r, !.loops = L]
  BY DEF AtDownbeat
<1>4. r \in Recorders /\ r.slot = e.rec.slot /\ r.extended = e.rec.extended /\ (~e.rec.waitStop => SameRequests(e.rec, r))
  <2>1. Cardinality(counted) \in Nat
    BY CountedIs
  <2> HIDE DEF s, counted
  <2>2. s.beats + Cardinality(counted) \in Nat
    BY <1>2, <2>1, RecorderFields
  <2> QED BY <1>2, <2>2 DEF Recorders, SameRequests
<1>5. ASSUME NEW i \in LoopSlots
      PROVE  /\ L[i] \in LoopRecords /\ Provided(L[i]) /\ Inside(L[i])
             /\ L[i].mode = e.loops[i].mode /\ Stored(L[i]) = Stored(e.loops[i])
             /\ L[i].len = e.loops[i].len /\ L[i].ending = e.loops[i].ending
             /\ L[i].synced = e.loops[i].synced /\ L[i].beats = e.loops[i].beats
  <2>1. e.loops[i] \in LoopRecords /\ Provided(e.loops[i]) /\ Inside(e.loops[i])
    BY <1>1, Slots DEF Orderly, Healthy, Working
  <2>2. CASE realigns(e.loops[i])
    <3> DEFINE l == e.loops[i]
               jump == IF l.mode = "Overdubbing" /\ l.heard # 0 THEN 1 ELSE l.jump
               m == [l EXCEPT !.position = LoopPosition(e.pulse, l), !.jump = jump]
    <3>1. L[i] = m
      BY <2>2
    <3>2. jump \in Nat
      BY <2>1, LoopFields
    <3>3. m = Realigned(e.pulse, l, jump)
      BY DEF Realigned
    <3> HIDE DEF jump, L, m
    <3>4. /\ m \in LoopRecords /\ Provided(m) /\ Inside(m) /\ m.mode = l.mode /\ Stored(m) = Stored(l)
          /\ m.len = l.len /\ m.ending = l.ending /\ m.synced = l.synced /\ m.beats = l.beats
      BY <1>1, <2>1, <3>2, <3>3, RealignedIs
    <3> QED BY <3>1, <3>4
  <2>3. CASE ~realigns(e.loops[i])
    <3>1. L[i] = e.loops[i]
      BY <2>3
    <3> HIDE DEF L
    <3> QED BY <2>1, <3>1
  <2> HIDE DEF L
  <2> QED BY <2>2, <2>3
<1>6. L \in [LoopSlots -> LoopRecords]
  <2>1. L = [i \in LoopSlots |-> L[i]]
    OBVIOUS
  <2> HIDE DEF L
  <2> QED BY <1>5, <2>1
<1> HIDE DEF L, r, f
<1>7. f = With(L, r, e.pulse, e.ready)
  BY <1>1, <1>3 DEF Engines, With
<1>8. f \in Engines /\ f.loops = L /\ f.rec = r /\ f.pulse = e.pulse /\ f.ready = e.ready
  BY <1>1, <1>4, <1>6, <1>7, WithFits, WithHas
<1>9. Healthy(f)
  BY <1>1, <1>5, <1>8 DEF Healthy, Working
<1>10. OneAt(f)
  BY <1>1, <1>4, <1>5, <1>8 DEF OneAt, Live
<1>11. Spares(e, f)
  BY <1>5, <1>8 DEF Spares, Keeps
<1>12. GoesOn(e, f)
  <2>1. Unasked(e) => Unasked(f)
    BY <1>4, <1>5, <1>8 DEF Unasked, SameRequests
  <2> QED BY <1>4, <1>5, <1>8, <2>1 DEF GoesOn, Full
<1>13. Cycled(e, f)
  <2>1. Longer(e.pulse, f.pulse)
    BY <1>8, SharesItself
  <2>2. \A j \in LoopSlots : Shares(e.loops[j], f.loops[j])
    BY <1>5, <1>8 DEF Shares, Sounds
  <2>3. Covered(e) => Covered(f)
    BY <1>1, <2>1, <2>2, CoversOn
  <2>4. e.rec.slot = None \/ e.rec.slot \in LoopSlots
    BY <1>1, RecorderFields
  <2> QED BY <1>4, <1>5, <1>8, <2>3, <2>4 DEF Cycled, RecordsOn
<1> QED BY <1>9, <1>10, <1>11, <1>12, <1>13 DEF f, Orderly

\* The clock comes first.
LEMMA BeatGives ==
  ASSUME NEW e, Orderly(e)
  PROVE  Orderly(Beat(e)) /\ Spares(e, Beat(e)) /\ GoesOn(e, Beat(e)) /\ Cycled(e, Beat(e))
<1>1. CASE Downbeat(e.pulse)
  BY <1>1, DownbeatGives DEF Beat
<1>2. CASE ~Downbeat(e.pulse)
  <2> DEFINE p == Heard(e.pulse)
             f == Beat(e)
  <2>1. Working(e) /\ e \in Engines /\ e.rec \in Recorders /\ Beating(e.pulse)
    BY WithIs DEF Orderly, Healthy, Working
  <2>2. Beating(p) /\ Longer(e.pulse, p)
    BY <2>1, HeardBeats, TicksOn DEF Beating
  <2>3. f = With(e.loops, e.rec, p, e.ready)
    BY <1>2, <2>1, WithIs DEF Beat
  <2> HIDE DEF p, f
  <2>4. /\ f.loops = e.loops /\ f.rec = e.rec /\ f.pulse = p
        /\ Spares(e, f) /\ (Healthy(e) => Healthy(f))
        /\ OneAt(e) /\ (e.rec.slot = e.rec.slot \/ Quiet(e)) => OneAt(f)
    BY <2>1, <2>2, <2>3, LeaveLoops
  <2>5. Orderly(f) /\ Spares(e, f) /\ GoesOn(e, f)
    BY <2>4 DEF Orderly, GoesOn, Unasked
  <2>6. Cycled(e, f)
    BY <2>1, <2>2, <2>4, CoversOn, SharesItself DEF Cycled, RecordsOn
  <2> QED BY <2>5, <2>6 DEF f
<1> QED BY <1>1, <1>2

\* One slot takes its frame and is still what it was, or has been recorded.
LEMMA SlotPut ==
  ASSUME NEW e, Orderly(e), NEW i \in LoopSlots, NEW m \in LoopRecords, Provided(m), Inside(m),
         NEW r \in Recorders, NEW n \in Nat, Supplied => n > 0,
         Keeps(e.loops[i], m), Live(m) => Live(e.loops[i]),
         r.slot = e.rec.slot \/ (Live(e.loops[i]) /\ ~Live(m)),
         NEW f, f = WithLoop(e, i, m, r, e.pulse, n)
  PROVE  /\ Orderly(f) /\ Spares(e, f) /\ f.rec = r /\ f.pulse = e.pulse /\ f.loops[i] = m
         /\ \A j \in LoopSlots : j # i => f.loops[j] = e.loops[j]
<1>1. /\ Working(e) /\ WorkingBut(e, i) /\ Beating(e.pulse)
      /\ \A j \in LoopSlots : Inside(e.loops[j]) /\ (Live(e.loops[j]) => e.rec.slot = j)
  BY WorkingIs DEF Orderly, Healthy, Working, OneAt
<1>2. /\ Working(f)
      /\ f.loops[i] = m /\ \A j \in LoopSlots : j # i => f.loops[j] = e.loops[j]
      /\ f.rec = r /\ f.pulse = e.pulse /\ f.ready = n
      /\ (\A j \in LoopSlots : j # i => Inside(e.loops[j])) /\ Inside(m) => Healthy(f)
      /\ Keeps(e.loops[i], m) => Spares(e, f)
      /\ (/\ Live(m) => r.slot = i
          /\ \A j \in LoopSlots : j # i /\ Live(e.loops[j]) => r.slot = j) => OneAt(f)
  BY <1>1, PutInto
<1>3. Live(m) => r.slot = i
  BY <1>1
<1>4. \A j \in LoopSlots : j # i /\ Live(e.loops[j]) => r.slot = j
  BY <1>1
<1> QED BY <1>1, <1>2, <1>3, <1>4 DEF Orderly

\* The engine a frame of a recording is written into.
LEMMA RoomGives ==
  ASSUME NEW e, Working(e), NEW i \in LoopSlots, e.loops[i].mode = "Recording"
  PROVE  \E k \in LoopRecords, n \in Nat :
           /\ (IF e.loops[i].len = Stored(e.loops[i]) /\ e.loops[i].blocks > 0
               THEN Grow(e, i, e.loops[i].len + 1) ELSE e) = WithLoop(e, i, k, e.rec, e.pulse, n)
           /\ Supplied => n > 0
           /\ k.mode = "Recording" /\ k.len = e.loops[i].len /\ k.offset = 0 /\ k.len <= Stored(k)
           /\ k.synced = e.loops[i].synced /\ k.position = e.loops[i].position
           /\ k.ending = e.loops[i].ending /\ (Full(k) => Full(e.loops[i]))
           /\ k.beats = e.loops[i].beats /\ (Stuck(e.loops[i]) => k = e.loops[i])
           /\ k.blocks > 0 \/ k.buffer > 0
<1> DEFINE l == e.loops[i]
           g == IF l.len = Stored(l) /\ l.blocks > 0 THEN Grow(e, i, l.len + 1) ELSE e
           Fine(k, n) ==
             /\ g = WithLoop(e, i, k, e.rec, e.pulse, n)
             /\ Supplied => n > 0
             /\ k.mode = "Recording" /\ k.len = l.len /\ k.offset = 0 /\ k.len <= Stored(k)
             /\ k.synced = l.synced /\ k.position = l.position
             /\ k.ending = l.ending /\ (Full(k) => Full(l))
             /\ k.beats = l.beats /\ (Stuck(l) => k = l)
             /\ k.blocks > 0 \/ k.buffer > 0
<1> SUFFICES \E k \in LoopRecords, n \in Nat : Fine(k, n)
  OBVIOUS
<1>1. /\ e \in Engines /\ e.ready \in Nat /\ (Supplied => e.ready > 0)
      /\ l \in LoopRecords /\ Provided(l)
  BY WithIs, Slots DEF Working
<1>2. /\ l.mode = "Recording" /\ l.offset = 0 /\ l.len <= Stored(l) /\ (l.blocks > 0 \/ l.buffer > 0)
      /\ l.len \in Nat /\ l.blocks \in Nat /\ Stored(l) \in Nat
  BY <1>1, LoopFields, WholeIs DEF Provided
<1>3. CASE l.len = Stored(l) /\ l.blocks > 0
  <2>1. l.len + 1 \in Nat
    BY <1>2
  <2>2. PICK b \in Nat, n \in Nat :
           /\ Grow(e, i, l.len + 1) =
                With([e.loops EXCEPT ![i] = [@ EXCEPT !.blocks = b]], e.rec, e.pulse, n)
           /\ e.loops[i].blocks <= b /\ b <= MaxBlocks
           /\ WorkerKeepsUp => n = e.ready
           /\ (e.ready > 0 /\ l.len + 1 > Stored(e.loops[i]) /\ e.loops[i].blocks = 0) => b > 0
    BY <1>1, <2>1, GrowGives
  <2> DEFINE k == [l EXCEPT !.blocks = b]
  <2>3. k \in LoopRecords /\ Stored(k) >= Stored(l)
    BY <1>1, <1>3, <2>2, StoredGrows
  <2>4. /\ k.mode = l.mode /\ k.len = l.len /\ k.offset = l.offset /\ k.synced = l.synced /\ k.position = l.position
        /\ k.blocks = b /\ k.ending = l.ending /\ k.beats = l.beats
    BY <1>1 DEF LoopRecords
  <2>5. [e.loops EXCEPT ![i] = [@ EXCEPT !.blocks = b]] = [e.loops EXCEPT ![i] = k]
    OBVIOUS
  <2> HIDE DEF k
  <2>6. g = WithLoop(e, i, k, e.rec, e.pulse, n)
    BY <1>3, <2>2, <2>5 DEF WithLoop
  <2>7. Stored(k) \in Nat
    BY <2>3, WholeIs
  <2>8. Full(l) /\ ~Stuck(l)
    BY <1>3 DEF Full, Stuck
  <2>9. Fine(k, n)
    BY <1>1, <1>2, <1>3, <2>2, <2>3, <2>4, <2>6, <2>7, <2>8 DEF Supplied
  <2> HIDE DEF Fine
  <2> QED BY <2>3, <2>9
<1>4. CASE ~(l.len = Stored(l) /\ l.blocks > 0)
  <2>1. g = e
    BY <1>4
  <2>2. [e.loops EXCEPT ![i] = l] = e.loops
    BY <1>1, WithIs
  <2>3. e = WithLoop(e, i, l, e.rec, e.pulse, e.ready)
    <3> HIDE DEF l
    <3> QED BY <1>1, <2>2, WithIs DEF WithLoop
  <2> HIDE DEF g
  <2>4. Fine(l, e.ready)
    BY <1>1, <1>2, <2>1, <2>3
  <2> HIDE DEF Fine
  <2> QED BY <1>1, <2>4
<1> QED BY <1>3, <1>4

\* A recording that has no room left plays from its start, without the head it is blended with.
LEMMA FullIs ==
  ASSUME NEW k \in LoopRecords, k.mode = "Recording", k.offset = 0, k.blocks > 0 \/ k.buffer > 0,
         k.len = Stored(k), NEW cut \in BOOLEAN
  PROVE  LET m == [k EXCEPT !.mode = "Playing", !.position = 0,
                            !.offset = IF cut THEN @ + SmoothFrames ELSE @,
                            !.len    = IF cut THEN @ - SmoothFrames ELSE @]
         IN /\ m \in LoopRecords /\ Provided(m) /\ Inside(m) /\ ~Live(m) /\ m.ending = k.ending /\ m.len <= k.len
            /\ m.synced = k.synced /\ m.beats = k.beats
<1> DEFINE c == IF cut THEN SmoothFrames ELSE 0
           o == IF cut THEN k.offset + SmoothFrames ELSE k.offset
           x == IF cut THEN k.len - SmoothFrames ELSE k.len
           m == [k EXCEPT !.mode = "Playing", !.position = 0, !.offset = o, !.len = x]
<1>1. Stored(k) > SmoothFrames /\ SmoothFrames \in Nat /\ k.len \in Nat /\ k.offset \in Nat
  BY StoredEnough, LoopFields, EngineBounds
<1>2. /\ c \in Nat /\ c <= SmoothFrames /\ o = k.offset + c /\ x = k.len - c
      /\ o \in Nat /\ x \in Nat /\ x > 0
  BY <1>1
<1> HIDE DEF c, o, x
<1>3. /\ m \in LoopRecords /\ m.mode = "Playing" /\ m.position = 0 /\ m.offset = o /\ m.len = x
      /\ m.blocks = k.blocks /\ m.buffer = k.buffer /\ m.ending = k.ending
      /\ m.synced = k.synced /\ m.beats = k.beats
  BY <1>2 DEF LoopRecords, Modes
<1> HIDE DEF m
<1>4. Stored(m) = Stored(k) - c
  BY <1>1, <1>2, <1>3, StoredCut
<1>5. Provided(m) /\ Inside(m) /\ ~Live(m)
  BY <1>1, <1>2, <1>3, <1>4 DEF Provided, Inside, Live
<1>6. m.len <= k.len
  BY <1>1, <1>2, <1>3
<1> QED BY <1>3, <1>5, <1>6 DEF m, o, x

LEMMA CaptureGives ==
  ASSUME NEW e, Orderly(e), NEW i \in LoopSlots, e.loops[i].mode = "Recording"
  PROVE  /\ Orderly(Capture(e, i)) /\ Spares(e, Capture(e, i)) /\ Played(e, Capture(e, i), i)
         /\ e.rec.skip = 0 \/ Stuck(e.loops[i]) => Takes(e, Capture(e, i), i)
<1> DEFINE l == e.loops[i]
           g == IF l.len = Stored(l) /\ l.blocks > 0 THEN Grow(e, i, l.len + 1) ELSE e
           cut == ~l.synced /\ l.len >= SmoothFrames
           f == Capture(e, i)
           waits == e.rec.waitStart /\ e.rec.slot = i
           Cut(k) == [k EXCEPT !.mode = "Playing", !.position = 0,
                               !.offset = IF cut THEN @ + SmoothFrames ELSE @,
                               !.len    = IF cut THEN @ - SmoothFrames ELSE @]
           Good == /\ Orderly(f) /\ Spares(e, f) /\ Played(e, f, i)
                   /\ e.rec.skip = 0 \/ Stuck(l) => Takes(e, f, i)
<1> SUFFICES Good
  OBVIOUS
<1>1. /\ Working(e) /\ e \in Engines /\ e.rec \in Recorders /\ e.pulse \in Pulses /\ e.rec.slot = i
      /\ l \in LoopRecords /\ l.synced \in BOOLEAN /\ l.len \in Nat /\ Live(l) /\ l.mode = "Recording"
      /\ Inside(l)
  BY WithIs, Slots, LoopFields DEF Orderly, Healthy, Working, OneAt, Live
<1>2. PICK k \in LoopRecords, n \in Nat :
        /\ g = WithLoop(e, i, k, e.rec, e.pulse, n)
        /\ Supplied => n > 0
        /\ k.mode = "Recording" /\ k.len = l.len /\ k.offset = 0 /\ k.len <= Stored(k)
        /\ k.synced = l.synced /\ k.position = l.position
        /\ k.ending = l.ending /\ (Full(k) => Full(l))
        /\ k.beats = l.beats /\ (Stuck(l) => k = l)
        /\ k.blocks > 0 \/ k.buffer > 0
  BY <1>1, RoomGives
<1>3. f = CASE waits -> e
            [] ~waits /\ l.len = Stored(g.loops[i]) ->
                 [g EXCEPT !.loops[i] = Cut(g.loops[i]), !.rec.slot = None, !.rec.tail = None]
            [] OTHER -> IF e.rec.skip > 0 THEN [g EXCEPT !.rec.skip = @ - 1]
                        ELSE [g EXCEPT !.loops[i].len = @ + 1]
  BY DEF Capture
<1>c. cut \in BOOLEAN
  OBVIOUS
<1> HIDE DEF g, f, cut
<1>4. /\ g \in Engines /\ g.rec = e.rec /\ g.pulse = e.pulse /\ g.ready = n /\ g.loops[i] = k
  BY <1>1, <1>2, WithLoopHas
<1>5. \A m, s, p, c : WithLoop(g, i, m, s, p, c) = WithLoop(e, i, m, s, p, c)
  BY <1>1, <1>2, WithLoopOver
<1>6. CASE waits
  <2>1. f = e
    BY <1>3, <1>6
  <2>2. Played(e, e, i) /\ Takes(e, e, i)
    BY <1>1, <1>6, SharesItself DEF Played, SameRequests, Takes
  <2> QED BY <2>1, <2>2, SparesItself
<1>7. CASE ~waits /\ l.len = Stored(k)
  <2> DEFINE m == Cut(k)
             r == [e.rec EXCEPT !.slot = None, !.tail = None]
  <2>1. /\ m \in LoopRecords /\ Provided(m) /\ Inside(m) /\ ~Live(m) /\ m.ending = k.ending /\ m.len <= k.len
        /\ m.synced = k.synced /\ m.beats = k.beats
    BY <1>2, <1>7, <1>c, FullIs
  <2>2. r \in Recorders /\ r.slot = None
    BY <1>1, NoneIs DEF Recorders
  <2>3. f = [g EXCEPT !.loops = [g.loops EXCEPT ![i] = m], !.rec = r]
    <3>1. f = [g EXCEPT !.loops[i] = Cut(g.loops[i]), !.rec.slot = None, !.rec.tail = None]
      BY <1>3, <1>4, <1>7
    <3>2. Cut(g.loops[i]) = m
      BY <1>4
    <3> HIDE DEF Cut, m
    <3>3. f = [g EXCEPT !.loops[i] = m, !.rec.slot = None, !.rec.tail = None]
      BY <3>1, <3>2
    <3> QED BY <1>4, <3>3 DEF Engines, Recorders
  <2> HIDE DEF m, r
  <2>4. f = WithLoop(g, i, m, r, e.pulse, n)
    BY <1>4, <2>3 DEF Engines, With, WithLoop
  <2>5. f = WithLoop(e, i, m, r, e.pulse, n)
    BY <1>5, <2>4
  <2>6. Keeps(e.loops[i], m)
    BY <1>1 DEF Keeps
  <2>7. /\ Orderly(f) /\ Spares(e, f) /\ f.rec = r /\ f.pulse = e.pulse /\ f.loops[i] = m
        /\ \A j \in LoopSlots : j # i => f.loops[j] = e.loops[j]
    BY <1>1, <1>2, <2>1, <2>2, <2>5, <2>6, SlotPut
  <2>8. Full(l)
    BY <1>2, <1>7 DEF Full
  <2>9. Played(e, f, i)
    <3>1. Shares(l, m)
      BY <1>1, <1>2, <2>1 DEF Shares, Sounds
    <3> QED BY <1>1, <1>2, <2>1, <2>2, <2>7, <2>8, <3>1 DEF Played, Live
  <2>10. Takes(e, f, i)
    BY <1>2, <2>1, <2>2, <2>7 DEF Takes
  <2> QED BY <2>7, <2>9, <2>10
<1>8. CASE ~waits /\ l.len # Stored(k) /\ e.rec.skip > 0
  <2> DEFINE r == [e.rec EXCEPT !.skip = @ - 1]
  <2>1. r \in Recorders /\ r.slot = e.rec.slot /\ r.extended = e.rec.extended /\ SameRequests(e.rec, r)
    <3>1. e.rec.skip - 1 \in Nat
      BY <1>1, <1>8, RecorderFields
    <3> QED BY <1>1, <3>1 DEF Recorders, SameRequests
  <2>2. f = [g EXCEPT !.rec = r]
    BY <1>3, <1>4, <1>8
  <2> HIDE DEF r
  <2>3. f = WithLoop(e, i, k, r, e.pulse, n)
    <3>1. f = With(g.loops, r, g.pulse, g.ready)
      BY <1>4, <2>2, WithIs
    <3>2. g.loops = [e.loops EXCEPT ![i] = k]
      BY <1>2, WithHas DEF WithLoop
    <3> QED BY <1>4, <3>1, <3>2 DEF WithLoop
  <2>4. Provided(k) /\ Keeps(e.loops[i], k)
    BY <1>1, <1>2 DEF Provided, Keeps
  <2>5. Inside(k)
    BY <1>1, <1>2 DEF Inside
  <2>6. /\ Orderly(f) /\ Spares(e, f) /\ f.rec = r /\ f.pulse = e.pulse /\ f.loops[i] = k
        /\ \A j \in LoopSlots : j # i => f.loops[j] = e.loops[j]
    BY <1>1, <1>2, <2>1, <2>3, <2>4, <2>5, SlotPut
  <2>7. Stuck(l) => FALSE
    BY <1>2, <1>8 DEF Stuck, Full
  <2>8. e.rec.skip # 0
    BY <1>1, <1>8, RecorderFields
  <2>9. Shares(l, k)
    BY <1>1, <1>2 DEF Shares, Sounds
  <2> QED BY <1>1, <1>2, <2>1, <2>6, <2>7, <2>8, <2>9 DEF Played
<1>9. CASE ~waits /\ l.len # Stored(k) /\ ~(e.rec.skip > 0)
  <2> DEFINE m == [k EXCEPT !.len = @ + 1]
  <2>1. /\ m \in LoopRecords /\ m.len = k.len + 1 /\ m.mode = k.mode /\ m.position = k.position
        /\ m.offset = k.offset /\ m.blocks = k.blocks /\ m.buffer = k.buffer /\ m.ending = k.ending
    <3>1. k.len + 1 \in Nat
      BY LoopFields
    <3> QED BY <3>1 DEF LoopRecords
  <2>2. f = [g EXCEPT !.loops = [g.loops EXCEPT ![i] = m]]
    <3>1. f = [g EXCEPT !.loops[i].len = @ + 1]
      BY <1>3, <1>4, <1>9
    <3> QED BY <1>4, <3>1
  <2> HIDE DEF m
  <2>3. f = WithLoop(e, i, m, e.rec, e.pulse, n)
    <3>1. f = WithLoop(g, i, m, g.rec, g.pulse, g.ready)
      BY <1>4, <2>2, WithIs DEF WithLoop
    <3> QED BY <1>4, <1>5, <3>1
  <2>4. Stored(m) = Stored(k) /\ Stored(k) \in Nat
    BY <2>1, StoredSame, WholeIs
  <2>5. m.len <= Stored(m)
    BY <1>1, <1>2, <1>9, <2>1, <2>4
  <2>6. Provided(m) /\ Inside(m) /\ Keeps(e.loops[i], m)
    BY <1>1, <1>2, <2>1, <2>5, LoopFields DEF Provided, Inside, Keeps
  <2>7. /\ Orderly(f) /\ Spares(e, f) /\ f.rec = e.rec /\ f.pulse = e.pulse /\ f.loops[i] = m
        /\ \A j \in LoopSlots : j # i => f.loops[j] = e.loops[j]
    BY <1>1, <1>2, <2>1, <2>3, <2>6, SlotPut
  <2>8. m.synced = l.synced /\ m.beats = l.beats
    BY <1>2 DEF LoopRecords, m
  <2>9. Takes(e, f, i)
    <3>1. ~Stuck(l)
      BY <1>2, <1>9 DEF Stuck, Full
    <3>2. ~e.rec.waitStart
      BY <1>1, <1>9
    <3> QED BY <1>2, <2>1, <2>7, <2>8, <3>1, <3>2 DEF Takes
  <2>10. Shares(l, m)
    BY <1>1, <2>8 DEF Shares, Sounds
  <2> QED BY <1>1, <1>2, <2>1, <2>7, <2>9, <2>10 DEF Played, SameRequests
<1> QED BY <1>6, <1>7, <1>8, <1>9

\* A loop that plays moves on by a frame, whatever of its fades is left.
LEMMA DubIs ==
  ASSUME NEW l \in LoopRecords, l.len > 0
  PROVE  LET m == Dub(l)
         IN /\ m \in LoopRecords /\ m.position < m.len /\ m.mode = l.mode /\ m.len = l.len
            /\ m.blocks = l.blocks /\ m.buffer = l.buffer /\ m.offset = l.offset
            /\ l.ending = None => m.ending = None
            /\ m.synced = l.synced /\ m.beats = l.beats
<1> DEFINE jumping == l.jump # None /\ l.jump <= l.heard
           jump == IF jumping /\ l.jump < l.heard THEN l.jump + 1 ELSE IF jumping THEN None ELSE l.jump
           ending == IF jumping \/ l.ending = None THEN l.ending
                     ELSE IF l.ending < CallbackFrames THEN l.ending + 1 ELSE None
           heard == Smaller(l.heard + 1, SmoothFrames)
           x == (l.position + 1) % l.len
           m == [l EXCEPT !.jump = jump, !.ending = ending, !.heard = heard, !.position = x]
<1>1. Dub(l) = m
  BY DEF Dub
<1>2. jump \in Nat /\ ending \in Nat /\ (l.ending = None => ending = None)
  BY LoopFields, NoneIs
<1>3. heard \in Nat
  <2>1. l.heard + 1 \in Nat
    BY LoopFields
  <2> QED BY <2>1, EngineBounds, Lesser
<1>4. x \in Nat /\ x < l.len
  BY LoopFields, Divided
<1> HIDE DEF jump, ending, heard, x
<1>5. /\ m \in LoopRecords /\ m.position = x /\ m.mode = l.mode /\ m.len = l.len
      /\ m.blocks = l.blocks /\ m.buffer = l.buffer /\ m.offset = l.offset /\ m.ending = ending
      /\ m.synced = l.synced /\ m.beats = l.beats
  BY <1>2, <1>3, <1>4 DEF LoopRecords
<1> HIDE DEF m
<1> QED BY <1>1, <1>2, <1>4, <1>5

LEMMA SlotFrameGives ==
  ASSUME NEW e, Orderly(e), NEW i \in LoopSlots
  PROVE  /\ Orderly(SlotFrame(e, i)) /\ Spares(e, SlotFrame(e, i)) /\ Played(e, SlotFrame(e, i), i)
         /\ e.loops[i].mode = "Recording" /\ (e.rec.skip = 0 \/ Stuck(e.loops[i])) => Takes(e, SlotFrame(e, i), i)
<1> DEFINE l == e.loops[i]
           f == SlotFrame(e, i)
           Good == /\ Orderly(f) /\ Spares(e, f) /\ Played(e, f, i)
                   /\ l.mode = "Recording" /\ (e.rec.skip = 0 \/ Stuck(l)) => Takes(e, f, i)
<1> SUFFICES Good
  OBVIOUS
<1>1. /\ e \in Engines /\ e.rec \in Recorders /\ e.ready \in Nat /\ (Supplied => e.ready > 0)
      /\ l \in LoopRecords /\ Provided(l) /\ l.mode \in Modes
  BY WithIs, Slots, LoopFields DEF Orderly, Healthy, Working
<1>2. CASE l.mode = "Recording"
  BY <1>2, CaptureGives DEF SlotFrame
<1>3. CASE l.mode \in {"Overdubbing", "Playing"}
  <2>1. l.len > 0
    BY <1>1, <1>3 DEF Provided
  <2> DEFINE m == IF l.mode = "Overdubbing" THEN Dub(l) ELSE [l EXCEPT !.position = (@ + 1) % l.len]
  <2>2. /\ m \in LoopRecords /\ m.position < m.len /\ m.mode = l.mode /\ m.len = l.len
        /\ m.blocks = l.blocks /\ m.buffer = l.buffer /\ m.offset = l.offset
        /\ l.mode # "Overdubbing" \/ l.ending = None => m.ending = l.ending
        /\ m.synced = l.synced /\ m.beats = l.beats
    <3>1. CASE l.mode = "Overdubbing"
      BY <1>1, <2>1, <3>1, DubIs
    <3>2. CASE l.mode # "Overdubbing"
      <4> DEFINE x == (l.position + 1) % l.len
                 k == [l EXCEPT !.position = x]
      <4>1. x \in Nat /\ x < l.len
        BY <1>1, <2>1, LoopFields, Divided
      <4>2. m = k
        BY <3>2
      <4> HIDE DEF x, m
      <4>3. /\ k \in LoopRecords /\ k.position = x /\ k.mode = l.mode /\ k.len = l.len
            /\ k.blocks = l.blocks /\ k.buffer = l.buffer /\ k.offset = l.offset /\ k.ending = l.ending
            /\ k.synced = l.synced /\ k.beats = l.beats
        BY <1>1, <4>1 DEF LoopRecords
      <4> HIDE DEF k
      <4> QED BY <4>1, <4>2, <4>3
    <3> HIDE DEF m
    <3> QED BY <3>1, <3>2
  <2>3. f = [e EXCEPT !.loops = [e.loops EXCEPT ![i] = m]]
    <3>1. CASE l.mode = "Overdubbing"
      BY <3>1 DEF SlotFrame
    <3>2. CASE l.mode = "Playing"
      <4>1. f = [e EXCEPT !.loops[i].position = (@ + 1) % l.len]
        BY <3>2 DEF SlotFrame
      <4> QED BY <1>1, <3>2, <4>1
    <3> HIDE DEF f, m
    <3> QED BY <1>3, <3>1, <3>2
  <2> HIDE DEF m, f
  <2>4. f = WithLoop(e, i, m, e.rec, e.pulse, e.ready)
    BY <1>1, <2>3, WithIs DEF WithLoop
  <2>5. Stored(m) = Stored(l)
    BY <2>2, StoredSame
  <2>6. Provided(m) /\ Inside(m) /\ Keeps(l, m) /\ (Live(m) => Live(l))
    BY <1>1, <1>3, <2>2, <2>5 DEF Provided, Inside, Keeps, Live
  <2>7. /\ Orderly(f) /\ Spares(e, f) /\ f.rec = e.rec /\ f.pulse = e.pulse /\ f.loops[i] = m
        /\ \A j \in LoopSlots : j # i => f.loops[j] = e.loops[j]
    BY <1>1, <2>2, <2>4, <2>6, SlotPut
  <2>8. Shares(l, m)
    BY <2>2 DEF Shares, Sounds
  <2> QED BY <1>3, <2>2, <2>7, <2>8 DEF Played, SameRequests
<1>4. CASE l.mode \in {"Empty", "Muted"}
  <2>1. f = e
    BY <1>4 DEF SlotFrame
  <2>2. Played(e, e, i)
    BY SharesItself DEF Played, SameRequests
  <2> HIDE DEF f
  <2> QED BY <1>4, <2>1, <2>2, SparesItself
<1> QED BY <1>1, <1>2, <1>3, <1>4 DEF Modes

LEMMA PlayedCycles ==
  ASSUME NEW e, Orderly(e), NEW f, NEW i \in LoopSlots, Played(e, f, i)
  PROVE  Cycled(e, f)
<1>1. e \in Engines /\ (e.rec.slot = None \/ e.rec.slot \in LoopSlots)
  BY WithIs, RecorderFields DEF Orderly, Healthy, Working
<1>2. Covered(e) => Covered(f)
  <2>1. Longer(e.pulse, f.pulse) /\ \A j \in LoopSlots : Shares(e.loops[j], f.loops[j])
    BY SharesItself DEF Played
  <2> QED BY <1>1, <2>1, CoversOn
<1>3. RecordsOn(e, f)
  BY <1>1 DEF Played, RecordsOn
<1> QED BY <1>2, <1>3 DEF Cycled

LEMMA AllSlotsGives ==
  ASSUME NEW e, Orderly(e)
  PROVE  /\ Orderly(AllSlotsFrame(e)) /\ Spares(e, AllSlotsFrame(e)) /\ AllSlotsFrame(e).pulse = e.pulse
         /\ Cycled(e, AllSlotsFrame(e))
<1>1. NSlots \in Nat
  BY EngineBounds
<1>2. PICK f : SlotsFrom(e, NSlots, f) /\ AllSlotsFrame(e) = f[NSlots]
  BY <1>1, AllSlots
<1> DEFINE Kept(k) == Orderly(f[k]) /\ Spares(e, f[k]) /\ f[k].pulse = e.pulse /\ Cycled(e, f[k])
           T == {k \in 0..NSlots : ~Kept(k)}
<1>3. CASE T = {}
  <2>1. NSlots \in 0..NSlots
    BY <1>1
  <2>2. Kept(NSlots)
    BY <1>3, <2>1
  <2> QED BY <1>2, <2>2
<1>4. CASE T # {}
  <2>1. PICK m \in T : \A x \in T : m <= x
    <3> T \in SUBSET (0..NSlots)
      OBVIOUS
    <3> HIDE DEF T
    <3> QED BY <1>1, <1>4, Least
  <2>2. Kept(0)
    BY <1>2, SparesItself, CycledItself DEF SlotsFrom
  <2>3. m \in 1..NSlots /\ m - 1 \in 0..NSlots /\ ~(m <= m - 1)
    <3>1. m \in 0..NSlots /\ m # 0
      BY <2>2
    <3> QED BY <1>1, <3>1
  <2>4. Kept(m - 1)
    BY <2>1, <2>3
  <2>5. f[m] = SlotFrame(f[m - 1], m) /\ m \in LoopSlots
    BY <1>2, <2>3 DEF SlotsFrom, LoopSlots
  <2>6. Orderly(f[m]) /\ Spares(f[m - 1], f[m]) /\ f[m].pulse = f[m - 1].pulse
    BY <2>4, <2>5, SlotFrameGives DEF Played
  <2>7. Cycled(f[m - 1], f[m])
    BY <2>4, <2>5, SlotFrameGives, PlayedCycles
  <2>8. Kept(m)
    BY <2>4, <2>6, <2>7, SparesOn, CycledOn
  <2> QED BY <2>1, <2>8
<1> QED BY <1>3, <1>4

\* Of a recording nobody asked to stop, the frames of all slots end the one that is full.
LEMMA AllSlotsPlayed ==
  ASSUME NEW e, Orderly(e), Unasked(e)
  PROVE  LET a == AllSlotsFrame(e)
         IN /\ Unasked(a)
            /\ a.rec.slot = e.rec.slot \/ (a.rec.slot = None /\ Full(e.loops[e.rec.slot]))
            /\ \A j \in LoopSlots : a.loops[j].ending = e.loops[j].ending
<1>1. NSlots \in Nat
  BY EngineBounds
<1>2. PICK f : SlotsFrom(e, NSlots, f) /\ AllSlotsFrame(e) = f[NSlots]
  BY <1>1, AllSlots
<1>3. \A j \in LoopSlots : e.loops[j].mode = "Overdubbing" => e.loops[j].ending = None
  BY NoneIs DEF Orderly, OneAt, Live, Unasked
<1> DEFINE Kept(k) ==
             /\ Orderly(f[k])
             /\ f[k].rec.slot # None => SameRequests(e.rec, f[k].rec)
             /\ f[k].rec.slot = e.rec.slot \/ (f[k].rec.slot = None /\ Full(e.loops[e.rec.slot]))
             /\ \A j \in LoopSlots :
                  /\ f[k].loops[j].mode = "Overdubbing" => e.loops[j].mode = "Overdubbing"
                  /\ f[k].loops[j].ending = e.loops[j].ending
                  /\ j > k => f[k].loops[j] = e.loops[j]
           T == {k \in 0..NSlots : ~Kept(k)}
<1>4. Kept(0)
  <2>1. f[0] = e
    BY <1>2 DEF SlotsFrom
  <2> QED BY <2>1 DEF SameRequests
<1>5. ASSUME NEW m \in 1..NSlots, Kept(m - 1) PROVE Kept(m)
  <2>1. m \in LoopSlots /\ f[m] = SlotFrame(f[m - 1], m)
    BY <1>2 DEF SlotsFrom, LoopSlots
  <2>2. Orderly(f[m]) /\ Played(f[m - 1], f[m], m)
    BY <1>5, <2>1, SlotFrameGives
  <2>3. f[m - 1].loops[m] = e.loops[m]
    BY <1>5, <2>1
  <2>4. f[m].rec.slot = e.rec.slot \/ (f[m].rec.slot = None /\ Full(e.loops[e.rec.slot]))
    BY <1>5, <2>1, <2>2, <2>3, NoneIs DEF Played
  <2>5. f[m].rec.slot # None => SameRequests(e.rec, f[m].rec)
    BY <1>5, <2>1, <2>2, NoneIs DEF Played, SameRequests
  <2>6. ASSUME NEW j \in LoopSlots
        PROVE  /\ f[m].loops[j].mode = "Overdubbing" => e.loops[j].mode = "Overdubbing"
               /\ f[m].loops[j].ending = e.loops[j].ending
               /\ j > m => f[m].loops[j] = e.loops[j]
    <3>1. CASE j = m
      BY <1>3, <2>2, <2>3, <3>1 DEF Played
    <3>2. CASE j # m
      <4>1. f[m].loops[j] = f[m - 1].loops[j]
        BY <2>2, <3>2 DEF Played
      <4>2. j > m => j > m - 1
        BY DEF LoopSlots
      <4> QED BY <1>5, <4>1, <4>2
    <3> QED BY <3>1, <3>2
  <2> QED BY <2>2, <2>4, <2>5, <2>6
<1> HIDE DEF Kept
<1>6. Kept(NSlots)
  <2>1. CASE T = {}
    <3>1. NSlots \in 0..NSlots
      BY <1>1
    <3> QED BY <2>1, <3>1
  <2>2. CASE T # {}
    <3>1. PICK m \in T : \A x \in T : m <= x
      <4> T \in SUBSET (0..NSlots)
        OBVIOUS
      <4> HIDE DEF T
      <4> QED BY <1>1, <2>2, Least
    <3>2. m \in 1..NSlots /\ m - 1 \in 0..NSlots /\ ~(m <= m - 1)
      <4>1. m \in 0..NSlots /\ m # 0
        BY <1>4
      <4> QED BY <1>1, <4>1
    <3>3. Kept(m - 1)
      BY <3>1, <3>2
    <3> QED BY <1>5, <3>2, <3>3
  <2> QED BY <2>1, <2>2
<1>7. Unasked(f[NSlots])
  BY <1>3, <1>6 DEF Kept, Unasked, SameRequests
<1> QED BY <1>2, <1>6, <1>7 DEF Kept

\* After a stop, the clock is where it was.
LEMMA StopOrders ==
  ASSUME NEW e, Orderly(e)
  PROVE  LET f == StopRecording(e)
         IN /\ Orderly(f) /\ Quiet(f) /\ Spares(e, f) /\ Rested(f.rec)
            /\ SamePulse(e.pulse, f.pulse)
            /\ \A j \in LoopSlots : f.loops[j].len = e.loops[j].len
            /\ Cycled(e, f)
            /\ e.rec.slot # None =>
                 LET l == e.loops[e.rec.slot]
                 IN l.mode = "Recording" /\ l.synced /\ l.len # 0 => f.loops[e.rec.slot].beats = Larger(l.beats, 1)
<1>1. /\ Working(e) /\ OneAt(e)
      /\ \A j \in LoopSlots : Inside(e.loops[j]) \/ (j = e.rec.slot /\ e.loops[j].mode # "Overdubbing")
  BY DEF Orderly, Healthy
<1>2. LET f == StopRecording(e)
      IN /\ Healthy(f) /\ Quiet(f) /\ OneAt(f) /\ Rested(f.rec) /\ Spares(e, f)
         /\ SamePulse(e.pulse, f.pulse)
         /\ CoveredBut(e) => Covered(f)
         /\ \A j \in LoopSlots : f.loops[j].len = e.loops[j].len
         /\ e.rec.slot # None =>
              LET l == e.loops[e.rec.slot]
              IN l.mode = "Recording" /\ l.synced /\ l.len # 0 => f.loops[e.rec.slot].beats = Larger(l.beats, 1)
  BY <1>1, StopGives
<1>3. Covered(e) => CoveredBut(e)
  BY DEF Covered, CoveredBut
<1> QED BY <1>2, <1>3 DEF Orderly, Cycled, RecordsOn, Rested

LEMMA ChangeRecorder ==
  ASSUME NEW e, Orderly(e), NEW r \in Recorders, r.slot = e.rec.slot, NEW p, Beating(p),
         NEW f, f = With(e.loops, r, p, e.ready)
  PROVE  Orderly(f) /\ Spares(e, f) /\ f.pulse = p /\ f.rec = r /\ f.loops = e.loops /\ (Quiet(e) => Quiet(f))
<1>1. Working(e) /\ Healthy(e) /\ OneAt(e)
  BY DEF Orderly, Healthy
<1>2. /\ Working(f) /\ Spares(e, f)
      /\ f.loops = e.loops /\ f.rec = r /\ f.pulse = p /\ f.ready = e.ready
      /\ Healthy(e) => Healthy(f)
      /\ OneAt(e) /\ (r.slot = e.rec.slot \/ Quiet(e)) => OneAt(f)
      /\ Quiet(e) => Quiet(f)
  BY <1>1, LeaveLoops
<1> QED BY <1>1, <1>2 DEF Orderly

LEMMA OrderlyHas ==
  ASSUME NEW e, Orderly(e)
  PROVE  /\ Working(e) /\ e \in Engines /\ e.loops \in [LoopSlots -> LoopRecords] /\ e.rec \in Recorders
         /\ e.pulse \in Pulses /\ Beating(e.pulse) /\ e.ready \in Nat /\ (Supplied => e.ready > 0)
  BY WithIs DEF Orderly, Healthy, Working

LEMMA FinishGives ==
  ASSUME NEW before, NEW e, Orderly(e)
  PROVE  /\ Orderly(FinishFrame(before, e)) /\ Spares(e, FinishFrame(before, e))
         /\ SamePulse(e.pulse, FinishFrame(before, e).pulse)
         /\ \A j \in LoopSlots : FinishFrame(before, e).loops[j].len = e.loops[j].len
         /\ FinishFrame(before, e).rec.slot \in {None, e.rec.slot}
         /\ FinishFrame(before, e).rec.slot = None \/ FinishFrame(before, e).loops = e.loops
         /\ Cycled(e, FinishFrame(before, e))
<1> DEFINE r == e.rec
           atTarget == /\ r.slot # None /\ r.target # None
                       /\ e.loops[r.slot].mode = "Recording" /\ e.loops[r.slot].len >= r.target
                       /\ e.loops[r.slot].len > before.loops[r.slot].len
           dubbed == \E i \in LoopSlots : before.loops[i].ending # None /\ e.loops[i].ending = None
           stops == atTarget \/ dubbed
           next == [e EXCEPT !.pulse.position = (@ + 1) % Larger(e.pulse.frames, 1), !.rec.tail = None]
           f == FinishFrame(before, e)
           Good == /\ Orderly(f) /\ Spares(e, f) /\ SamePulse(e.pulse, f.pulse)
                   /\ \A j \in LoopSlots : f.loops[j].len = e.loops[j].len
                   /\ f.rec.slot \in {None, e.rec.slot} /\ (f.rec.slot = None \/ f.loops = e.loops)
                   /\ Cycled(e, f)
<1> SUFFICES Good
  OBVIOUS
<1>1. /\ e \in Engines /\ e.rec \in Recorders /\ e.pulse \in Pulses /\ Beating(e.pulse) /\ r.tail \in Nat
      /\ e.pulse.position \in Nat /\ e.pulse.frames \in Nat /\ e.pulse.position < e.pulse.frames
  BY OrderlyHas, RecorderFields, PulseFields DEF Beating
<1>2. f = CASE stops -> StopRecording(e)
            [] ~stops /\ r.tail > 1 -> [e EXCEPT !.rec.tail = @ - 1]
            [] ~stops /\ r.tail = 1 -> [StopRecording(next) EXCEPT !.pulse.position = e.pulse.position]
            [] OTHER -> e
  BY DEF FinishFrame
<1> HIDE DEF f, atTarget, dubbed
<1>3. CASE stops
  <2>1. f = StopRecording(e)
    BY <1>2, <1>3
  <2> QED BY <2>1, StopOrders DEF Rested
<1>4. CASE ~stops /\ r.tail > 1
  <2> DEFINE s == [e.rec EXCEPT !.tail = @ - 1]
  <2>1. f = [e EXCEPT !.rec = s]
    BY <1>2, <1>4
  <2>2. s \in Recorders /\ s.slot = e.rec.slot /\ s.extended = e.rec.extended
    <3>1. e.rec.tail - 1 \in Nat
      BY <1>1, <1>4
    <3> QED BY <1>1, <3>1 DEF Recorders
  <2> HIDE DEF s
  <2>3. f = With(e.loops, s, e.pulse, e.ready)
    BY <1>1, <2>1, WithIs
  <2>4. f.loops = e.loops /\ f.rec = s /\ f.pulse = e.pulse
    BY <2>3, WithHas
  <2>5. Cycled(e, f)
    BY <2>2, <2>4 DEF Cycled, RecordsOn, Covered
  <2> QED BY <1>1, <2>2, <2>3, <2>5, ChangeRecorder DEF SamePulse
<1>5. CASE ~stops /\ r.tail = 1
  <2> DEFINE x == (e.pulse.position + 1) % Larger(e.pulse.frames, 1)
             p == [e.pulse EXCEPT !.position = x]
             s == [e.rec EXCEPT !.tail = None]
             g == StopRecording(next)
             q == [g.pulse EXCEPT !.position = e.pulse.position]
  <2>1. x \in Nat /\ x < e.pulse.frames
    <3>1. Larger(e.pulse.frames, 1) = e.pulse.frames /\ e.pulse.frames > 0
      BY <1>1, PulseFields
    <3>2. e.pulse.position + 1 \in Nat /\ e.pulse.frames \in Nat \ {0}
      BY <1>1
    <3> QED BY <3>1, <3>2, Divided
  <2>2. next = [e EXCEPT !.pulse = p, !.rec = s]
    BY <1>1
  <2> HIDE DEF x, next
  <2>3. /\ Beating(p) /\ p.frames = e.pulse.frames
        /\ p.active = e.pulse.active /\ p.suppressed = e.pulse.suppressed
        /\ Longer(e.pulse, p)
    BY <1>1, <2>1, PlacedBeats DEF Pulses, Longer, InCycle
  <2>4. s \in Recorders /\ s.slot = e.rec.slot
    BY <1>1, NoneIs DEF Recorders
  <2> HIDE DEF p, s
  <2>5. next = With(e.loops, s, p, e.ready)
    BY <1>1, <2>2 DEF Engines, With
  <2>6. Orderly(next) /\ Spares(e, next) /\ next.pulse = p /\ next.loops = e.loops
    BY <2>3, <2>4, <2>5, ChangeRecorder
  <2>7. /\ Orderly(g) /\ Spares(next, g) /\ g.pulse.frames = e.pulse.frames /\ g.rec.slot = None
        /\ g.pulse.active = e.pulse.active /\ g.pulse.suppressed = e.pulse.suppressed
        /\ \A j \in LoopSlots : g.loops[j].len = e.loops[j].len
        /\ Cycled(next, g)
    BY <2>3, <2>6, StopOrders DEF Rested, SamePulse
  <2>8. f = [g EXCEPT !.pulse = q]
    BY <1>2, <1>5
  <2> HIDE DEF g
  <2>9. Beating(g.pulse) /\ g \in Engines /\ g.rec \in Recorders
    BY <2>7, OrderlyHas
  <2>10. Beating(q) /\ SamePulse(e.pulse, q)
    BY <1>1, <2>7, <2>9, PlacedBeats DEF SamePulse, Beating, Pulses
  <2>13. Longer(g.pulse, q)
    BY <2>9 DEF Longer, InCycle, Beating, Pulses
  <2> HIDE DEF q
  <2>11. f = With(g.loops, g.rec, q, g.ready)
    BY <2>8, <2>9, WithIs
  <2>12. Orderly(f) /\ Spares(g, f) /\ f.rec = g.rec /\ f.loops = g.loops /\ f.pulse = q
    BY <2>7, <2>9, <2>10, <2>11, ChangeRecorder
  <2>14. Cycled(e, f)
    <3>1. Covered(e) => Covered(next)
      BY <1>1, <2>3, <2>6, CoversOn, SharesItself
    <3>2. Covered(g) => Covered(f)
      BY <2>9, <2>12, <2>13, CoversOn, SharesItself
    <3> QED BY <2>7, <2>12, <3>1, <3>2 DEF Cycled, RecordsOn
  <2> QED BY <2>6, <2>7, <2>10, <2>12, <2>14, SparesOn
<1>6. CASE ~stops /\ ~(r.tail > 1) /\ r.tail # 1
  <2>1. f = e
    BY <1>2, <1>6
  <2> QED BY <2>1, SparesItself, CycledItself DEF SamePulse
<1> QED BY <1>3, <1>4, <1>5, <1>6

\* A recording or an overdub nobody asked to stop is not stopped after the slots.
LEMMA FinishFollows ==
  ASSUME NEW before, NEW e, Orderly(e), Unasked(e),
         \A i \in LoopSlots : e.loops[i].ending = before.loops[i].ending
  PROVE  LET f == FinishFrame(before, e) IN Unasked(f) /\ f.rec.slot = e.rec.slot
<1>1. CASE e.rec.slot = None
  BY <1>1, FinishGives DEF Unasked
<1>2. CASE e.rec.slot # None
  <2>1. e.rec.target = None /\ e.rec.tail = 0
    BY <1>2 DEF Unasked, None
  <2>2. FinishFrame(before, e) = e
    BY <2>1 DEF FinishFrame
  <2> QED BY <2>2
<1> QED BY <1>1, <1>2

\* The clock moves on.
LEMMA ElapsedGives ==
  ASSUME NEW e, Orderly(e)
  PROVE  LET f == Elapsed(e)
         IN /\ Orderly(f) /\ Spares(e, f) /\ GoesOn(e, f)
            /\ f.pulse = Tick(e.pulse) /\ f.loops = e.loops /\ Cycled(e, f)
            /\ SameRequests(e.rec, f.rec) /\ f.rec.waitStart = e.rec.waitStart
            /\ f.rec.skip = e.rec.skip /\ f.rec.beats = e.rec.beats
<1> DEFINE r == IF e.rec.slot = None THEN e.rec
                ELSE [e.rec EXCEPT !.elapsed = Smaller(@ + 1, MaxElapsed)]
           p == Tick(e.pulse)
           f == Elapsed(e)
<1>1. e \in Engines /\ e.rec \in Recorders /\ Beating(e.pulse)
  BY OrderlyHas
<1>2. /\ r \in Recorders /\ r.slot = e.rec.slot /\ r.extended = e.rec.extended /\ SameRequests(e.rec, r)
      /\ r.waitStart = e.rec.waitStart /\ r.skip = e.rec.skip /\ r.beats = e.rec.beats
  <2>1. Smaller(e.rec.elapsed + 1, MaxElapsed) \in Nat
    <3>1. e.rec.elapsed + 1 \in Nat
      BY <1>1, RecorderFields
    <3> QED BY <3>1, EngineBounds, Lesser
  <2> QED BY <1>1, <2>1 DEF Recorders, SameRequests
<1>3. Beating(p) /\ Longer(e.pulse, p)
  BY <1>1, TickBeats, TicksOn DEF Beating
<1>4. f = With(e.loops, r, p, e.ready)
  <2>1. Counted(e) = With(e.loops, r, e.pulse, e.ready)
    <3>1. CASE e.rec.slot = None
      BY <1>1, <3>1, WithIs DEF Counted
    <3>2. CASE e.rec.slot # None
      <4>1. Counted(e) = [e EXCEPT !.rec = r]
        BY <3>2 DEF Counted
      <4> HIDE DEF r
      <4> QED BY <1>1, <4>1, WithIs
    <3> QED BY <3>1, <3>2
  <2>2. f = [Counted(e) EXCEPT !.pulse = Tick(@)]
    BY DEF Elapsed
  <2> HIDE DEF r, f
  <2> QED BY <2>1, <2>2 DEF With
<1> HIDE DEF r, p, f
<1>5. Orderly(f) /\ Spares(e, f) /\ f.rec = r /\ f.loops = e.loops /\ f.pulse = p
  BY <1>2, <1>3, <1>4, ChangeRecorder
<1>6. GoesOn(e, f)
  BY <1>2, <1>5 DEF GoesOn, Unasked, SameRequests
<1>7. Cycled(e, f)
  BY <1>1, <1>2, <1>3, <1>5, CoversOn, SharesItself DEF Cycled, RecordsOn
<1> QED BY <1>2, <1>5, <1>6, <1>7 DEF f, p

\* A whole frame.
LEMMA FrameGives ==
  ASSUME NEW e, Orderly(e)
  PROVE  LET f == Elapsed(FinishFrame(Beat(e), AllSlotsFrame(Beat(e))))
         IN Orderly(f) /\ Spares(e, f) /\ Cycled(e, f)
<1> DEFINE h == Beat(e)
           a == AllSlotsFrame(h)
           n == FinishFrame(h, a)
<1>1. Orderly(h) /\ Spares(e, h) /\ Cycled(e, h)
  BY BeatGives
<1>2. Orderly(a) /\ Spares(h, a) /\ Cycled(h, a)
  BY <1>1, AllSlotsGives
<1>3. Orderly(n) /\ Spares(a, n) /\ Cycled(a, n)
  BY <1>2, FinishGives
<1>4. Orderly(Elapsed(n)) /\ Spares(n, Elapsed(n)) /\ Cycled(n, Elapsed(n))
  BY <1>3, ElapsedGives
<1> HIDE DEF h, a, n
<1>5. Orderly(Elapsed(n)) /\ Spares(e, Elapsed(n)) /\ Cycled(e, Elapsed(n))
  BY <1>1, <1>2, <1>3, <1>4, SparesOn, CycledOn
<1> QED BY <1>5 DEF h, a, n

\* ... ends no recording or overdub nobody asked to stop, unless it is full.
LEMMA FrameFollows ==
  ASSUME NEW e, Orderly(e), Unasked(e)
  PROVE  LET f == Elapsed(FinishFrame(Beat(e), AllSlotsFrame(Beat(e))))
         IN /\ Unasked(f)
            /\ f.rec.slot = e.rec.slot \/ (f.rec.slot = None /\ Full(e.loops[e.rec.slot]))
<1> DEFINE h == Beat(e)
           a == AllSlotsFrame(h)
           n == FinishFrame(h, a)
<1>1. Orderly(h) /\ Unasked(h) /\ GoesOn(e, h)
  BY BeatGives DEF GoesOn
<1>2. /\ Orderly(a) /\ Unasked(a)
      /\ a.rec.slot = h.rec.slot \/ (a.rec.slot = None /\ Full(h.loops[h.rec.slot]))
      /\ \A j \in LoopSlots : a.loops[j].ending = h.loops[j].ending
  BY <1>1, AllSlotsGives, AllSlotsPlayed
<1>3. Orderly(n) /\ Unasked(n) /\ n.rec.slot = a.rec.slot
  BY <1>2, FinishGives, FinishFollows
<1>4. Unasked(Elapsed(n)) /\ Elapsed(n).rec.slot = n.rec.slot
  BY <1>3, ElapsedGives DEF GoesOn
<1> HIDE DEF h, a, n
<1>5. h.rec.slot = None \/ h.rec.slot \in LoopSlots
  BY <1>1, OrderlyHas, RecorderFields
<1>6. Elapsed(n).rec.slot = e.rec.slot \/ (Elapsed(n).rec.slot = None /\ Full(e.loops[e.rec.slot]))
  BY <1>1, <1>2, <1>3, <1>4, <1>5 DEF GoesOn
<1> QED BY <1>4, <1>6 DEF h, a, n

--------------------------------------------------------------------------
(* The other commands                                                      *)

\* Another loop in slot i, that is recorded or overdubbed only if the one before it was.
LEMMA SlotSet ==
  ASSUME NEW e, Orderly(e), NEW i \in LoopSlots, NEW m \in LoopRecords, Provided(m), Inside(m),
         NEW r \in Recorders, NEW p, Beating(p),
         Live(m) => Live(e.loops[i]) /\ r.slot = e.rec.slot,
         r.slot = e.rec.slot \/ e.rec.slot = i,
         NEW f, f = WithLoop(e, i, m, r, p, e.ready)
  PROVE  /\ Orderly(f) /\ f.loops[i] = m
         /\ \A j \in LoopSlots : j # i => f.loops[j] = e.loops[j]
         /\ (/\ r.slot # None => SameRequests(e.rec, r)
             /\ Live(m) => m.ending = e.loops[i].ending /\ m.mode = e.loops[i].mode) => Heeds(e, f)
<1>1. /\ WorkingBut(e, i) /\ e.ready \in Nat /\ (Supplied => e.ready > 0)
      /\ \A j \in LoopSlots : Inside(e.loops[j]) /\ (Live(e.loops[j]) => e.rec.slot = j)
  BY OrderlyHas, WorkingIs DEF Orderly, Healthy, OneAt
<1>2. /\ Working(f)
      /\ f.loops[i] = m /\ \A j \in LoopSlots : j # i => f.loops[j] = e.loops[j]
      /\ f.rec = r /\ f.pulse = p /\ f.ready = e.ready
      /\ (\A j \in LoopSlots : j # i => Inside(e.loops[j])) /\ Inside(m) => Healthy(f)
      /\ Keeps(e.loops[i], m) => Spares(e, f)
      /\ (/\ Live(m) => r.slot = i
          /\ \A j \in LoopSlots : j # i /\ Live(e.loops[j]) => r.slot = j) => OneAt(f)
  BY <1>1, PutInto
<1>3. Live(m) => r.slot = i
  BY <1>1
<1>4. \A j \in LoopSlots : j # i /\ Live(e.loops[j]) => r.slot = j
  BY <1>1
<1>5. (/\ r.slot # None => SameRequests(e.rec, r)
       /\ Live(m) => m.ending = e.loops[i].ending /\ m.mode = e.loops[i].mode) => Heeds(e, f)
  BY <1>2, NoneIs DEF Heeds, Live
<1> QED BY <1>1, <1>2, <1>3, <1>4, <1>5 DEF Orderly

\* A loop is silenced, or plays on.
LEMMA MuteGives ==
  ASSUME NEW e, Orderly(e), NEW i \in LoopSlots, e.loops[i].len > 0
  PROVE  LET f == [e EXCEPT !.loops[i].mode = "Muted", !.loops[i].position = 0]
             g == [e EXCEPT !.loops[i].mode = "Playing"]
         IN /\ Orderly(f) /\ Spares(e, f) /\ Heeds(e, f)
            /\ Orderly(g) /\ Spares(e, g) /\ Heeds(e, g)
<1> DEFINE l == e.loops[i]
           k == [l EXCEPT !.mode = "Muted", !.position = 0]
           m == [l EXCEPT !.mode = "Playing"]
           f == [e EXCEPT !.loops[i].mode = "Muted", !.loops[i].position = 0]
           g == [e EXCEPT !.loops[i].mode = "Playing"]
           Good == /\ Orderly(f) /\ Spares(e, f) /\ Heeds(e, f)
                   /\ Orderly(g) /\ Spares(e, g) /\ Heeds(e, g)
<1> SUFFICES Good
  OBVIOUS
<1>1. /\ e \in Engines /\ e.loops \in [LoopSlots -> LoopRecords] /\ e.rec \in Recorders /\ Beating(e.pulse)
      /\ l \in LoopRecords /\ Provided(l) /\ Inside(l)
  BY OrderlyHas, Slots DEF Orderly, Healthy, Working
<1>2. /\ k \in LoopRecords /\ k.mode = "Muted" /\ k.position = 0 /\ k.len = l.len
      /\ k.blocks = l.blocks /\ k.buffer = l.buffer /\ k.offset = l.offset
  BY <1>1 DEF LoopRecords, Modes
<1>3. /\ m \in LoopRecords /\ m.mode = "Playing" /\ m.position = l.position /\ m.len = l.len
      /\ m.blocks = l.blocks /\ m.buffer = l.buffer /\ m.offset = l.offset
  BY <1>1 DEF LoopRecords, Modes
<1>4. f = [e EXCEPT !.loops = [e.loops EXCEPT ![i] = k]] /\ g = [e EXCEPT !.loops = [e.loops EXCEPT ![i] = m]]
  BY <1>1
<1> HIDE DEF k, m, f, g
<1>5. /\ f = WithLoop(e, i, k, e.rec, e.pulse, e.ready)
      /\ g = WithLoop(e, i, m, e.rec, e.pulse, e.ready)
  BY <1>1, <1>4, WithIs DEF WithLoop
<1>6. Stored(k) = Stored(l) /\ Stored(m) = Stored(l)
  BY <1>2, <1>3, StoredSame
<1>7. Provided(k) /\ Inside(k) /\ Keeps(l, k) /\ ~Live(k)
  BY <1>1, <1>2, <1>6 DEF Provided, Inside, Keeps, Live
<1>8. Provided(m) /\ Inside(m) /\ Keeps(l, m) /\ ~Live(m)
  BY <1>1, <1>3, <1>6 DEF Provided, Inside, Keeps, Live
<1>s. SameRequests(e.rec, e.rec)
  BY DEF SameRequests
<1>9. Orderly(f) /\ Heeds(e, f) /\ f.loops[i] = k /\ \A j \in LoopSlots : j # i => f.loops[j] = e.loops[j]
  BY <1>1, <1>2, <1>5, <1>7, <1>s, SlotSet
<1>10. Orderly(g) /\ Heeds(e, g) /\ g.loops[i] = m /\ \A j \in LoopSlots : j # i => g.loops[j] = e.loops[j]
  BY <1>1, <1>3, <1>5, <1>8, <1>s, SlotSet
<1> QED BY <1>7, <1>8, <1>9, <1>10 DEF Spares, Keeps

LEMMA ErasedIs ==
  ASSUME NEW l \in LoopRecords, NEW m, m = Erased(l)
  PROVE  m \in LoopRecords /\ Provided(m) /\ Inside(m) /\ ~Live(m)
<1> DEFINE b == Release(l)
           k == [b EXCEPT !.offset = 0, !.len = 0, !.position = 0, !.mode = "Empty", !.synced = FALSE]
<1>1. m = [k EXCEPT !.beats = 0, !.alignment = 0, !.jump = None, !.heard = 0]
  BY DEF Erased
<1>2. m \in LoopRecords /\ m.mode = "Empty" /\ m.len = 0 /\ m.position = 0
  <2>1. 0 \in 0..MaxBlocks /\ "Empty" \in Modes /\ None \in Nat
    BY EngineBounds, NoneIs DEF Modes
  <2>2. b \in LoopRecords
    BY <2>1 DEF Release, LoopRecords
  <2> HIDE DEF b
  <2>3. k \in LoopRecords /\ k.mode = "Empty" /\ k.len = 0 /\ k.position = 0
    BY <2>1, <2>2 DEF LoopRecords
  <2> HIDE DEF k
  <2> QED BY <1>1, <2>1, <2>3 DEF LoopRecords
<1>3. Stored(m) \in Nat
  BY <1>2, WholeIs
<1> QED BY <1>2, <1>3 DEF Provided, Inside, Live

LEMMA EraseGives ==
  ASSUME NEW e, Orderly(e), NEW i \in LoopSlots
  PROVE  LET f == [e EXCEPT !.loops[i] = Erased(@), !.rec.slot = IF @ = i THEN None ELSE @]
         IN Orderly(f) /\ Heeds(e, f) /\ \A j \in LoopSlots : j # i => f.loops[j] = e.loops[j]
<1> DEFINE m == Erased(e.loops[i])
           s == IF e.rec.slot = i THEN None ELSE e.rec.slot
           r == [e.rec EXCEPT !.slot = s]
           f == [e EXCEPT !.loops[i] = Erased(@), !.rec.slot = IF @ = i THEN None ELSE @]
           Good == Orderly(f) /\ Heeds(e, f) /\ \A j \in LoopSlots : j # i => f.loops[j] = e.loops[j]
<1> SUFFICES Good
  OBVIOUS
<1>1. /\ e \in Engines /\ e.loops \in [LoopSlots -> LoopRecords] /\ e.rec \in Recorders /\ Beating(e.pulse)
      /\ e.loops[i] \in LoopRecords
  BY OrderlyHas, Slots
<1>2. m \in LoopRecords /\ Provided(m) /\ Inside(m) /\ ~Live(m)
  BY <1>1, ErasedIs
<1>3. r \in Recorders /\ (r.slot = e.rec.slot \/ e.rec.slot = i) /\ SameRequests(e.rec, r)
  <2>1. s \in 0..NSlots
    BY <1>1, RecorderFields, NoneIs
  <2> QED BY <1>1, <2>1 DEF Recorders, SameRequests
<1>4. f = [e EXCEPT !.loops = [e.loops EXCEPT ![i] = m], !.rec = r]
  BY <1>1 DEF Engines
<1> HIDE DEF m, r, f
<1>5. f = WithLoop(e, i, m, r, e.pulse, e.ready)
  BY <1>1, <1>4 DEF Engines, With, WithLoop
<1> QED BY <1>1, <1>2, <1>3, <1>5, SlotSet

LEMMA ImportGives ==
  ASSUME NEW e, Orderly(e), NEW i \in LoopSlots, NEW n \in ImportLengths
  PROVE  LET f == [e EXCEPT !.loops[i] = [Release(@) EXCEPT
                     !.buffer = BufferFrames, !.len = n, !.offset = 0, !.position = 0,
                     !.mode = "Playing", !.synced = FALSE, !.alignment = 0]]
         IN Orderly(f) /\ Heeds(e, f) /\ \A j \in LoopSlots : j # i => f.loops[j] = e.loops[j]
<1> DEFINE l == e.loops[i]
           m == [l EXCEPT !.blocks = 0, !.buffer = BufferFrames, !.len = n, !.offset = 0, !.position = 0,
                          !.mode = "Playing", !.synced = FALSE, !.alignment = 0]
           f == [e EXCEPT !.loops[i] = [Release(@) EXCEPT
                     !.buffer = BufferFrames, !.len = n, !.offset = 0, !.position = 0,
                     !.mode = "Playing", !.synced = FALSE, !.alignment = 0]]
           Good == Orderly(f) /\ Heeds(e, f) /\ \A j \in LoopSlots : j # i => f.loops[j] = e.loops[j]
<1> SUFFICES Good
  OBVIOUS
<1>1. /\ e \in Engines /\ e.loops \in [LoopSlots -> LoopRecords] /\ e.rec \in Recorders /\ Beating(e.pulse)
      /\ l \in LoopRecords
  BY OrderlyHas, Slots
<1>2. n \in Nat /\ n > 0 /\ n <= BufferFrames /\ BufferFrames \in Nat
  BY EngineBounds
<1>3. /\ m \in LoopRecords /\ m.mode = "Playing" /\ m.position = 0 /\ m.len = n
      /\ m.blocks = 0 /\ m.buffer = BufferFrames /\ m.offset = 0
  <2>1. 0 \in 0..MaxBlocks /\ "Playing" \in Modes /\ BufferFrames \in {0, BufferFrames}
    BY EngineBounds DEF Modes
  <2> QED BY <1>1, <1>2, <2>1 DEF LoopRecords
<1>4. f = [e EXCEPT !.loops = [e.loops EXCEPT ![i] = m]]
  BY <1>1 DEF Release
<1> HIDE DEF m, f
<1>5. f = WithLoop(e, i, m, e.rec, e.pulse, e.ready)
  BY <1>1, <1>4, WithIs DEF WithLoop
<1>6. Stored(m) = BufferFrames
  BY <1>2, <1>3 DEF Stored
<1>7. Provided(m) /\ Inside(m) /\ ~Live(m)
  BY <1>2, <1>3, <1>6 DEF Provided, Inside, Live
<1>8. SameRequests(e.rec, e.rec)
  BY DEF SameRequests
<1> QED BY <1>1, <1>3, <1>5, <1>7, <1>8, SlotSet

\* A loop gives the clock its length and follows it.
LEMMA PulseFromLoopGives ==
  ASSUME NEW e, Orderly(e), NEW i \in LoopSlots
  PROVE  LET f == [e EXCEPT !.pulse = PulseOfLoop(@, e.loops[i].len, e.loops[i].position, Subdivision),
                            !.loops[i] = [@ EXCEPT !.synced = TRUE, !.beats = Subdivision, !.alignment = 0]]
         IN Orderly(f) /\ Spares(e, f) /\ Heeds(e, f)
<1> DEFINE l == e.loops[i]
           m == [l EXCEPT !.synced = TRUE, !.beats = Subdivision, !.alignment = 0]
           p == PulseOfLoop(e.pulse, l.len, l.position, Subdivision)
           f == [e EXCEPT !.pulse = PulseOfLoop(@, e.loops[i].len, e.loops[i].position, Subdivision),
                            !.loops[i] = [@ EXCEPT !.synced = TRUE, !.beats = Subdivision, !.alignment = 0]]
           Good == Orderly(f) /\ Spares(e, f) /\ Heeds(e, f)
<1> SUFFICES Good
  OBVIOUS
<1>1. /\ e \in Engines /\ e.loops \in [LoopSlots -> LoopRecords] /\ e.rec \in Recorders
      /\ e.pulse \in Pulses /\ l \in LoopRecords /\ Provided(l) /\ Inside(l)
  BY OrderlyHas, Slots DEF Orderly, Healthy, Working
<1>2. /\ m \in LoopRecords /\ m.mode = l.mode /\ m.position = l.position /\ m.len = l.len
      /\ m.blocks = l.blocks /\ m.buffer = l.buffer /\ m.offset = l.offset /\ m.ending = l.ending
  <2>1. Subdivision \in Nat
    BY EngineBounds
  <2> QED BY <1>1, <2>1 DEF LoopRecords
<1>3. Beating(p)
  BY <1>1, LoopFields, PulseOfLoopBeats
<1>4. f = [e EXCEPT !.loops = [e.loops EXCEPT ![i] = m], !.pulse = p]
  <2> HIDE DEF p
  <2>1. f = [e EXCEPT !.pulse = p, !.loops[i] = [@ EXCEPT !.synced = TRUE, !.beats = Subdivision, !.alignment = 0]]
    BY DEF p
  <2> HIDE DEF f
  <2>2. f = [e EXCEPT !.pulse = p, !.loops = [e.loops EXCEPT ![i] = m]]
    BY <1>1, <2>1
  <2> HIDE DEF m
  <2> QED BY <1>1, <2>2 DEF Engines
<1> HIDE DEF m, p, f
<1>5. f = WithLoop(e, i, m, e.rec, p, e.ready)
  BY <1>1, <1>4, WithMore DEF WithLoop
<1>6. Stored(m) = Stored(l)
  BY <1>2, StoredSame
<1>7. Provided(m) /\ Inside(m) /\ Keeps(l, m) /\ (Live(m) => Live(l))
  BY <1>1, <1>2, <1>6 DEF Provided, Inside, Keeps, Live
<1>s. SameRequests(e.rec, e.rec)
  BY DEF SameRequests
<1>8. Orderly(f) /\ Heeds(e, f) /\ f.loops[i] = m /\ \A j \in LoopSlots : j # i => f.loops[j] = e.loops[j]
  BY <1>1, <1>2, <1>3, <1>5, <1>7, <1>s, SlotSet
<1> QED BY <1>7, <1>8 DEF Spares, Keeps

\* The clock is set, tapped or stopped; no loop hears of it.
LEMMA ClockGives ==
  ASSUME NEW e, Orderly(e), NEW p, Beating(p), NEW f, f = [e EXCEPT !.pulse = p]
  PROVE  Orderly(f) /\ Spares(e, f) /\ Heeds(e, f)
<1>1. e \in Engines /\ e.rec \in Recorders
  BY OrderlyHas
<1>2. f = With(e.loops, e.rec, p, e.ready)
  BY <1>1, WithIs
<1>3. Orderly(f) /\ Spares(e, f) /\ f.rec = e.rec /\ f.loops = e.loops
  BY <1>1, <1>2, ChangeRecorder
<1> QED BY <1>3 DEF Heeds, SameRequests

\* The recorder follows the loop that moves.
LEMMA MoveGives ==
  ASSUME NEW e, Orderly(e), NEW from \in LoopSlots, NEW to \in LoopSlots, from # to
  PROVE  LET f == [e EXCEPT !.loops[from] = e.loops[to], !.loops[to] = e.loops[from],
                            !.rec = Moved(@, from, to)]
         IN Orderly(f) /\ Heeds(e, f) /\ \A j \in LoopSlots : j # from /\ j # to => f.loops[j] = e.loops[j]
<1> DEFINE L == [e.loops EXCEPT ![from] = e.loops[to], ![to] = e.loops[from]]
           s == CASE e.rec.slot = from -> to [] e.rec.slot = to -> from [] OTHER -> e.rec.slot
           r == [e.rec EXCEPT !.slot = s]
           f == [e EXCEPT !.loops[from] = e.loops[to], !.loops[to] = e.loops[from],
                          !.rec = Moved(@, from, to)]
           Good == Orderly(f) /\ Heeds(e, f) /\ \A j \in LoopSlots : j # from /\ j # to => f.loops[j] = e.loops[j]
<1> SUFFICES Good
  OBVIOUS
<1>1. /\ e \in Engines /\ e.loops \in [LoopSlots -> LoopRecords] /\ e.rec \in Recorders
      /\ e.pulse \in Pulses /\ Beating(e.pulse) /\ e.ready \in Nat /\ (Supplied => e.ready > 0)
      /\ \A j \in LoopSlots : Provided(e.loops[j]) /\ Inside(e.loops[j]) /\ (Live(e.loops[j]) => e.rec.slot = j)
  BY OrderlyHas DEF Orderly, Healthy, Working, OneAt
<1>2. /\ L \in [LoopSlots -> LoopRecords] /\ L[from] = e.loops[to] /\ L[to] = e.loops[from]
      /\ \A j \in LoopSlots : j # from /\ j # to => L[j] = e.loops[j]
  BY <1>1
<1>3. /\ e.rec.slot = from => s = to
      /\ e.rec.slot = to => s = from
      /\ e.rec.slot # from /\ e.rec.slot # to => s = e.rec.slot
  OBVIOUS
<1>4. r \in Recorders /\ r.slot = s /\ SameRequests(e.rec, r)
  <2>1. s \in 0..NSlots
    BY <1>1, <1>3, RecorderFields, NoneIs
  <2> HIDE DEF s
  <2> QED BY <1>1, <2>1 DEF Recorders, SameRequests
<1>5. f = [e EXCEPT !.loops = L, !.rec = r]
  <2>1. Moved(e.rec, from, to) = r
    BY DEF Moved
  <2> HIDE DEF r
  <2> QED BY <1>1, <2>1 DEF Engines
<1> HIDE DEF L, s, r, f
<1>6. f = With(L, r, e.pulse, e.ready)
  BY <1>1, <1>5, WithMore
<1>7. f \in Engines /\ f.loops = L /\ f.rec = r /\ f.pulse = e.pulse /\ f.ready = e.ready
  BY <1>1, <1>2, <1>4, <1>6, WithFits, WithHas
<1>8. ASSUME NEW j \in LoopSlots
      PROVE  Provided(L[j]) /\ Inside(L[j]) /\ (Live(L[j]) => s = j)
  <2>1. CASE j = from
    BY <1>1, <1>2, <1>3, <2>1
  <2>2. CASE j = to
    BY <1>1, <1>2, <1>3, <2>2
  <2>3. CASE j # from /\ j # to
    BY <1>1, <1>2, <1>3, <2>3
  <2> QED BY <2>1, <2>2, <2>3
<1>9. Orderly(f)
  BY <1>1, <1>4, <1>7, <1>8 DEF Orderly, Healthy, Working, OneAt
<1>10. Heeds(e, f)
  <2>1. s # None => e.rec.slot # None
    BY <1>3, NoneIs
  <2>2. \A j \in LoopSlots : \E k \in LoopSlots : L[j] = e.loops[k]
    BY <1>2
  <2> QED BY <1>4, <1>7, <2>1, <2>2 DEF Heeds
<1> QED BY <1>2, <1>7, <1>9, <1>10

\* Every synchronised loop goes, also the one being recorded.
LEMMA DeleteGives ==
  ASSUME NEW e, Orderly(e)
  PROVE  LET f == [e EXCEPT
                    !.loops = [i \in LoopSlots |-> IF @[i].synced THEN Erased(@[i]) ELSE @[i]],
                    !.rec.slot = IF @ # None /\ e.loops[e.rec.slot].synced THEN None ELSE @,
                    !.pulse = NoPulse(@)]
         IN Orderly(f) /\ Heeds(e, f)
<1> DEFINE L == [i \in LoopSlots |-> IF e.loops[i].synced THEN Erased(e.loops[i]) ELSE e.loops[i]]
           s == IF e.rec.slot # None /\ e.loops[e.rec.slot].synced THEN None ELSE e.rec.slot
           r == [e.rec EXCEPT !.slot = s]
           p == NoPulse(e.pulse)
           f == [e EXCEPT !.loops = L, !.rec = r, !.pulse = p]
<1>1. /\ e \in Engines /\ e.loops \in [LoopSlots -> LoopRecords] /\ e.rec \in Recorders
      /\ e.pulse \in Pulses /\ Beating(e.pulse) /\ e.ready \in Nat /\ (Supplied => e.ready > 0)
      /\ \A j \in LoopSlots : /\ e.loops[j] \in LoopRecords
                              /\ Provided(e.loops[j]) /\ Inside(e.loops[j]) /\ (Live(e.loops[j]) => e.rec.slot = j)
  BY OrderlyHas, Slots DEF Orderly, Healthy, Working, OneAt
<1>2. ASSUME NEW j \in LoopSlots
      PROVE  /\ L[j] \in LoopRecords /\ Provided(L[j]) /\ Inside(L[j]) /\ (Live(L[j]) => s = j)
             /\ Live(L[j]) => L[j] = e.loops[j]
  <2>1. CASE e.loops[j].synced
    <3>1. L[j] = Erased(e.loops[j])
      BY <2>1
    <3> HIDE DEF L
    <3> QED BY <1>1, <3>1, ErasedIs
  <2>2. CASE ~e.loops[j].synced
    <3>1. L[j] = e.loops[j]
      BY <2>2
    <3>2. Live(e.loops[j]) => s = j
      BY <1>1, <2>2
    <3> HIDE DEF L, s
    <3> QED BY <1>1, <3>1, <3>2
  <2> QED BY <2>1, <2>2
<1>3. L \in [LoopSlots -> LoopRecords]
  <2>1. L = [j \in LoopSlots |-> L[j]]
    OBVIOUS
  <2> HIDE DEF L
  <2> QED BY <1>2, <2>1
<1>4. r \in Recorders /\ r.slot = s /\ SameRequests(e.rec, r) /\ (s # None => e.rec.slot # None)
  <2>1. s \in 0..NSlots
    BY <1>1, RecorderFields, NoneIs
  <2>2. s # None => e.rec.slot # None
    OBVIOUS
  <2> HIDE DEF s
  <2> QED BY <1>1, <2>1, <2>2 DEF Recorders, SameRequests
<1>5. Beating(p)
  BY <1>1, NoPulseBeats
<1>6. [e EXCEPT
         !.loops = [i \in LoopSlots |-> IF @[i].synced THEN Erased(@[i]) ELSE @[i]],
         !.rec.slot = IF @ # None /\ e.loops[e.rec.slot].synced THEN None ELSE @,
         !.pulse = NoPulse(@)] = f
  <2> HIDE DEF L, p
  <2>1. [e EXCEPT
         !.loops = [i \in LoopSlots |-> IF @[i].synced THEN Erased(@[i]) ELSE @[i]],
         !.rec.slot = IF @ # None /\ e.loops[e.rec.slot].synced THEN None ELSE @,
         !.pulse = NoPulse(@)] = [e EXCEPT !.loops = L, !.rec.slot = s, !.pulse = p]
    BY DEF L, p
  <2> HIDE DEF s
  <2>2. [e EXCEPT !.loops = L, !.rec.slot = s, !.pulse = p] = f
    BY <1>1 DEF Engines
  <2> QED BY <2>1, <2>2
<1> HIDE DEF L, s, r, p
<1>7. f = With(L, r, p, e.ready)
  <2>1. f = [[[e EXCEPT !.loops = L] EXCEPT !.rec = r] EXCEPT !.pulse = p]
    OBVIOUS
  <2> HIDE DEF f
  <2>2. [e EXCEPT !.loops = L] = With(L, e.rec, e.pulse, e.ready)
    BY <1>1, WithIs
  <2>3. [With(L, e.rec, e.pulse, e.ready) EXCEPT !.rec = r] = With(L, r, e.pulse, e.ready)
    BY DEF With
  <2>4. [With(L, r, e.pulse, e.ready) EXCEPT !.pulse = p] = With(L, r, p, e.ready)
    BY DEF With
  <2> QED BY <2>1, <2>2, <2>3, <2>4
<1> HIDE DEF f
<1>8. f \in Engines /\ f.loops = L /\ f.rec = r /\ f.pulse = p /\ f.ready = e.ready
  <2>1. p \in Pulses
    BY <1>5 DEF Beating
  <2> QED BY <1>1, <1>3, <1>4, <1>7, <2>1, WithFits, WithHas
<1>9. Orderly(f)
  BY <1>1, <1>2, <1>4, <1>5, <1>8 DEF Orderly, Healthy, Working, OneAt
<1>10. Heeds(e, f)
  BY <1>2, <1>4, <1>8 DEF Heeds, Live
<1> QED BY <1>6, <1>9, <1>10

--------------------------------------------------------------------------
(* Whole beats                                                             *)

\* The clock beats as it did at the start: no tap holds a downbeat back, and what was heard
\* of a beat before its middle fits the one block that a recording has for sure.
Even(p) == ~p.suppressed /\ (p.active => p.frames <= 2 * BlockFrames)

\* A recording asked to stop like `how` has the frames of its beats.
OnTime(p, r, l, how) ==
  IF p.active THEN Stuck(l) \/ (Beaten(p, r, l) /\ (how = "once" => Due(p, r, l)))
  ELSE how # "once"

InTime(e, how) ==
  \A i \in LoopSlots : e.loops[i].mode = "Recording" => OnTime(e.pulse, e.rec, e.loops[i], how)

\* One more beat.
LEMMA OneMore ==
  ASSUME NEW b \in Nat, NEW n \in Nat
  PROVE  (b + 1) * n = b * n + n /\ b * n \in Nat /\ 0 * n = 0
  OBVIOUS

\* Between a downbeat and the slots.
Counts(p, r, l) ==
  /\ l.synced /\ r.skip = 0
  /\ \/ r.waitStart /\ l.len = 0 /\ r.beats = 0 /\ p.position # 0
     \/ ~r.waitStart /\ l.len = r.beats * p.frames + p.position

\* The recorder hears of a downbeat, and nothing else becomes of a recording.
LEMMA DownbeatCounts ==
  ASSUME NEW e, Orderly(e), NEW i \in LoopSlots, e.loops[i].mode = "Recording",
         e.pulse.active, ~e.pulse.suppressed
  PROVE  LET h == Beat(e)
             l == e.loops[i]
             r == e.rec
         IN /\ h.pulse = e.pulse /\ h.loops[i] = l
            /\ h.rec.target = r.target /\ h.rec.skip = r.skip
            /\ e.pulse.position # 0 => h.rec = r
            /\ e.pulse.position = 0 =>
                 /\ ~h.rec.waitStart /\ ~h.rec.waitStop
                 /\ h.rec.tail = IF r.waitStop THEN RecordingTailFrames ELSE r.tail
                 /\ l.synced => h.rec.beats = IF l.len # 0 THEN r.beats + 1 ELSE r.beats
<1> DEFINE h == Beat(e)
           l == e.loops[i]
           r == e.rec
<1>1. /\ e \in Engines /\ r \in Recorders /\ l \in LoopRecords /\ e.pulse \in Pulses
      /\ e.loops \in [LoopSlots -> LoopRecords] /\ r.slot = i /\ l.mode = "Recording"
      /\ \A j \in LoopSlots : e.loops[j].mode = "Recording" => j = i
  BY OrderlyHas, Slots DEF Orderly, OneAt, Live
<1>2. CASE e.pulse.position # 0
  <2>1. ~Downbeat(e.pulse) /\ Heard(e.pulse) = e.pulse
    BY <1>2 DEF Downbeat, Heard, AtZero
  <2>2. h = e
    <3>1. h = [e EXCEPT !.pulse = Heard(e.pulse)]
      BY <2>1 DEF Beat
    <3> HIDE DEF h
    <3>2. h = [e EXCEPT !.pulse = e.pulse]
      BY <2>1, <3>1
    <3> QED BY <1>1, <3>2 DEF Engines
  <2> HIDE DEF h
  <2> QED BY <1>2, <2>2 DEF h
<1>3. CASE e.pulse.position = 0
  <2> DEFINE s == IF r.waitStop
                  THEN [r EXCEPT !.waitStop = FALSE, !.waitStart = FALSE, !.tail = RecordingTailFrames]
                  ELSE [r EXCEPT !.waitStart = FALSE]
             counted == {j \in LoopSlots : LET k == e.loops[j]
                                       IN k.mode = "Recording" /\ k.synced /\ k.len # 0}
             realigns(k) == /\ k.mode \in {"Playing", "Overdubbing"}
                            /\ k.synced /\ k.beats # 0 /\ k.len # 0
                            /\ e.pulse.longCount % k.beats = 0
                            /\ k.position # LoopPosition(e.pulse, k)
             realigned(k) == [k EXCEPT !.position = LoopPosition(e.pulse, k),
                                       !.jump = IF k.mode = "Overdubbing" /\ k.heard # 0 THEN 1 ELSE @]
             q == IF counted = {} THEN s ELSE [s EXCEPT !.beats = @ + Cardinality(counted), !.late = FALSE]
             L == [j \in LoopSlots |-> IF realigns(e.loops[j]) THEN realigned(e.loops[j]) ELSE e.loops[j]]
  <2>1. Downbeat(e.pulse)
    BY <1>3 DEF Downbeat, AtZero
  <2>2. h = [e EXCEPT !.rec = q, !.loops = L]
    BY <2>1 DEF Beat, AtDownbeat
  <2>3. L[i] = l
    BY <1>1
  <2>4. /\ s.skip = r.skip /\ s.target = r.target /\ s.beats = r.beats /\ ~s.waitStart /\ ~s.waitStop
        /\ s.tail = IF r.waitStop THEN RecordingTailFrames ELSE r.tail
        /\ DOMAIN s = DOMAIN r
    BY <1>1 DEF Recorders
  <2>5. /\ counted = {} => q = s
        /\ counted # {} => q = [s EXCEPT !.beats = @ + Cardinality(counted), !.late = FALSE]
    OBVIOUS
  <2>6. l.synced => counted = IF l.len # 0 THEN {i} ELSE {}
    BY <1>1
  <2> HIDE DEF h, s, L, counted, q
  <2>7. h.pulse = e.pulse /\ h.loops = L /\ h.rec = q
    BY <1>1, <2>2 DEF Engines
  <2>8. /\ q.skip = r.skip /\ q.target = r.target /\ ~q.waitStart /\ ~q.waitStop
        /\ q.tail = IF r.waitStop THEN RecordingTailFrames ELSE r.tail
    <3>1. CASE counted = {}
      BY <2>4, <2>5, <3>1
    <3>2. CASE counted # {}
      BY <1>1, <2>4, <2>5, <3>2 DEF Recorders
    <3> QED BY <3>1, <3>2
  <2>9. l.synced => q.beats = IF l.len # 0 THEN r.beats + 1 ELSE r.beats
    <3>1. CASE l.synced /\ l.len # 0
      <4>1. counted = {i} /\ Cardinality({i}) = 1
        BY <2>6, <3>1, FS_Singleton
      <4>2. q = [s EXCEPT !.beats = @ + 1, !.late = FALSE]
        BY <2>5, <4>1
      <4> QED BY <1>1, <2>4, <3>1, <4>2 DEF Recorders
    <3>2. CASE l.synced /\ l.len = 0
      BY <2>4, <2>5, <2>6, <3>2
    <3> QED BY <3>1, <3>2
  <2> QED BY <1>3, <2>3, <2>7, <2>8, <2>9 DEF h
<1> QED BY <1>2, <1>3

LEMMA BeatPulse ==
  ASSUME NEW e \in Engines, ~e.pulse.suppressed
  PROVE  Beat(e).pulse = e.pulse
<1>1. CASE Downbeat(e.pulse)
  <2>1. AtDownbeat(e).pulse = e.pulse
    BY DEF AtDownbeat, Engines
  <2> QED BY <1>1, <2>1 DEF Beat
<1>2. CASE ~Downbeat(e.pulse)
  <2>1. Heard(e.pulse) = e.pulse
    BY <1>2 DEF Downbeat, AtZero, Heard
  <2>2. Beat(e) = [e EXCEPT !.pulse = e.pulse]
    BY <1>2, <2>1 DEF Beat
  <2> QED BY <2>2 DEF Engines
<1> QED BY <1>1, <1>2

LEMMA BeatCounts ==
  ASSUME NEW e, Orderly(e), NEW i \in LoopSlots, e.loops[i].mode = "Recording",
         e.pulse.active, ~e.pulse.suppressed, Beaten(e.pulse, e.rec, e.loops[i]),
         NEW how, how = "once" => Due(e.pulse, e.rec, e.loops[i])
  PROVE  LET h == Beat(e)
         IN Counts(h.pulse, h.rec, h.loops[i]) /\ (how = "once" => Due(h.pulse, h.rec, h.loops[i]))
<1> DEFINE h == Beat(e)
           l == e.loops[i]
           r == e.rec
           p == e.pulse
<1>1. /\ l.len \in Nat /\ l.beats \in Nat /\ r.beats \in Nat /\ r.tail \in Nat /\ r.target \in Nat
      /\ p.position \in Nat /\ p.frames \in Nat /\ p.frames > 0
  <2>1. p \in Pulses /\ r \in Recorders /\ l \in LoopRecords /\ Beating(p)
    BY OrderlyHas, Slots
  <2> QED BY <2>1, PulseFields, RecorderFields, LoopFields DEF Beating
<1>2. /\ h.pulse = p /\ h.loops[i] = l
      /\ h.rec.target = r.target /\ h.rec.skip = r.skip
      /\ p.position # 0 => h.rec = r
      /\ p.position = 0 =>
           /\ ~h.rec.waitStart /\ ~h.rec.waitStop
           /\ h.rec.tail = IF r.waitStop THEN RecordingTailFrames ELSE r.tail
           /\ l.synced => h.rec.beats = IF l.len # 0 THEN r.beats + 1 ELSE r.beats
  BY DownbeatCounts
<1>3. (r.beats + 1) * p.frames = r.beats * p.frames + p.frames /\ r.beats * p.frames \in Nat /\ 0 * p.frames = 0
  BY <1>1, OneMore
<1> HIDE DEF h
<1>4. CASE p.position # 0
  <2>1. Counts(p, r, l)
    BY <1>1, <1>3, <1>4 DEF Beaten, Counts
  <2> QED BY <1>2, <1>4, <2>1 DEF h
<1>5. CASE p.position = 0
  <2>1. /\ l.synced /\ r.skip = 0 /\ ~h.rec.waitStart
        /\ l.len = h.rec.beats * p.frames /\ h.rec.beats \in Nat
    <3>1. \/ l.len = 0 /\ r.beats = 0
          \/ l.len = (r.beats + 1) * p.frames /\ l.len # 0
      BY <1>1, <1>3, <1>5 DEF Beaten
    <3>2. CASE l.len = 0 /\ r.beats = 0
      <4>1. h.rec.beats = 0
        BY <1>2, <1>5, <3>2 DEF Beaten
      <4> QED BY <1>2, <1>3, <1>5, <3>2, <4>1 DEF Beaten
    <3>3. CASE l.len = (r.beats + 1) * p.frames /\ l.len # 0
      <4>1. h.rec.beats = r.beats + 1
        BY <1>2, <1>5, <3>3 DEF Beaten
      <4> QED BY <1>1, <1>2, <1>5, <3>3, <4>1 DEF Beaten
    <3> QED BY <3>1, <3>2, <3>3
  <2>2. l.len = h.rec.beats * p.frames + p.position
    BY <1>1, <1>5, <2>1
  <2>3. Counts(p, h.rec, l)
    BY <1>2, <2>1, <2>2 DEF Counts
  <2>4. ASSUME how = "once" PROVE Due(p, h.rec, l)
    <3>1. Due(p, r, l)
      BY <2>4
    <3>2. CASE r.waitStop
      <4>1. l.beats = h.rec.beats /\ h.rec.tail = RecordingTailFrames /\ h.rec.target = None /\ ~h.rec.waitStop
        BY <1>1, <1>2, <1>5, <2>1, <3>1, <3>2 DEF Due
      <4>2. RecordingTailFrames # None /\ RecordingTailFrames \in Nat
        BY EngineBounds DEF RecordingTailFrames, Larger, None
      <4> HIDE DEF p, l, r
      <4> QED BY <2>1, <3>1, <4>1, <4>2 DEF Due
    <3>3. CASE ~r.waitStop
      <4>1. h.rec.tail = r.tail /\ h.rec.target = r.target /\ ~h.rec.waitStop
        BY <1>2, <1>5, <3>3
      <4> QED BY <3>1, <3>3, <4>1 DEF Due
    <3> QED BY <3>2, <3>3
  <2> QED BY <1>2, <2>3, <2>4 DEF h
<1> QED BY <1>4, <1>5

\* The frames of all slots: that of the one being recorded is among them, and no fade ends.
LEMMA AllSlotsTake ==
  ASSUME NEW e, Orderly(e), NEW i \in LoopSlots, e.loops[i].mode = "Recording",
         e.rec.skip = 0 \/ Stuck(e.loops[i])
  PROVE  LET a == AllSlotsFrame(e)
         IN /\ Takes(e, a, i) /\ a.pulse = e.pulse
            /\ \A j \in LoopSlots : a.loops[j].ending = e.loops[j].ending
<1>1. NSlots \in Nat
  BY EngineBounds
<1>2. PICK f : SlotsFrom(e, NSlots, f) /\ AllSlotsFrame(e) = f[NSlots]
  BY <1>1, AllSlots
<1>3. \A j \in LoopSlots : e.loops[j].mode # "Overdubbing" /\ (j # i => e.loops[j].mode # "Recording")
  BY DEF Orderly, OneAt, Live
<1> DEFINE Kept(k) ==
             /\ Orderly(f[k]) /\ f[k].pulse = e.pulse
             /\ IF k < i THEN f[k].rec = e.rec ELSE Takes(e, f[k], i)
             /\ \A j \in LoopSlots : /\ f[k].loops[j].ending = e.loops[j].ending
                                     /\ j > k => f[k].loops[j] = e.loops[j]
           T == {k \in 0..NSlots : ~Kept(k)}
<1>4. Kept(0)
  <2>1. f[0] = e /\ 0 < i
    BY <1>2 DEF SlotsFrom, LoopSlots
  <2> QED BY <2>1
<1>5. ASSUME NEW m \in 1..NSlots, Kept(m - 1) PROVE Kept(m)
  <2>1. m \in LoopSlots /\ f[m] = SlotFrame(f[m - 1], m) /\ m \in Int /\ i \in Int /\ m > m - 1
    BY <1>2 DEF SlotsFrom, LoopSlots
  <2>2. f[m - 1].loops[m] = e.loops[m]
    BY <1>5, <2>1
  <2>3. /\ Orderly(f[m]) /\ Played(f[m - 1], f[m], m)
        /\ f[m - 1].loops[m].mode = "Recording" /\ (f[m - 1].rec.skip = 0 \/ Stuck(f[m - 1].loops[m]))
             => Takes(f[m - 1], f[m], m)
    BY <1>5, <2>1, SlotFrameGives
  <2>4. f[m].pulse = e.pulse
    BY <1>5, <2>3 DEF Played
  <2>5. ASSUME NEW j \in LoopSlots
        PROVE  f[m].loops[j].ending = e.loops[j].ending /\ (j > m => f[m].loops[j] = e.loops[j])
    <3>1. CASE j = m
      BY <1>3, <2>2, <2>3, <3>1 DEF Played
    <3>2. CASE j # m
      <4>1. f[m].loops[j] = f[m - 1].loops[j]
        BY <2>3, <3>2 DEF Played
      <4>2. j > m => j > m - 1
        BY DEF LoopSlots
      <4> QED BY <1>5, <4>1, <4>2
    <3> QED BY <3>1, <3>2
  <2>6. IF m < i THEN f[m].rec = e.rec ELSE Takes(e, f[m], i)
    <3>1. CASE m < i
      <4>1. m - 1 < i /\ m # i
        BY <2>1, <3>1
      <4> QED BY <1>3, <1>5, <2>1, <2>2, <2>3, <3>1, <4>1 DEF Played
    <3>2. CASE m = i
      <4>1. m - 1 < i
        BY <2>1, <3>2
      <4>2. f[m - 1].rec = e.rec
        BY <1>5, <4>1
      <4>3. Takes(f[m - 1], f[m], i)
        BY <2>2, <2>3, <3>2, <4>2
      <4> QED BY <2>1, <2>2, <3>2, <4>2, <4>3 DEF Takes
    <3>3. CASE m > i
      <4>1. ~(m - 1 < i) /\ m # i /\ ~(m < i)
        BY <2>1, <3>3
      <4>2. f[m].rec = f[m - 1].rec /\ f[m].loops[i] = f[m - 1].loops[i]
        BY <1>3, <2>1, <2>2, <2>3, <4>1 DEF Played
      <4> QED BY <1>5, <4>1, <4>2 DEF Takes
    <3> QED BY <2>1, <3>1, <3>2, <3>3
  <2> QED BY <2>3, <2>4, <2>5, <2>6
<1> HIDE DEF Kept
<1>6. Kept(NSlots)
  <2>1. CASE T = {}
    <3>1. NSlots \in 0..NSlots
      BY <1>1
    <3> QED BY <2>1, <3>1
  <2>2. CASE T # {}
    <3>1. PICK m \in T : \A x \in T : m <= x
      <4> T \in SUBSET (0..NSlots)
        OBVIOUS
      <4> HIDE DEF T
      <4> QED BY <1>1, <2>2, Least
    <3>2. m \in 1..NSlots /\ m - 1 \in 0..NSlots /\ ~(m <= m - 1)
      <4>1. m \in 0..NSlots /\ m # 0
        BY <1>4
      <4> QED BY <1>1, <4>1
    <3>3. Kept(m - 1)
      BY <3>1, <3>2
    <3> QED BY <1>5, <3>2, <3>3
  <2> QED BY <2>1, <2>2
<1>7. ~(NSlots < i)
  BY <1>1 DEF LoopSlots
<1> QED BY <1>2, <1>6, <1>7 DEF Kept

\* Between the slots and the clock: the frame has been counted.
Spent(p, r, l) ==
  /\ l.synced /\ r.skip = 0
  /\ \/ r.waitStart /\ l.len = 0 /\ r.beats = 0 /\ p.position # 0
     \/ ~r.waitStart /\ l.len = r.beats * p.frames + p.position + 1

\* What a frame ends has its beats, what it does not end goes on.
LEMMA FinishCounts ==
  ASSUME NEW h, NEW a, Orderly(h), Orderly(a), NEW i \in LoopSlots, h.loops[i].mode = "Recording",
         h.pulse.active, Counts(h.pulse, h.rec, h.loops[i]),
         NEW how, how = "once" => Due(h.pulse, h.rec, h.loops[i]),
         Takes(h, a, i), a.pulse = h.pulse, a.rec.slot # None,
         \A j \in LoopSlots : a.loops[j].ending = h.loops[j].ending
  PROVE  LET f == FinishFrame(h, a)
         IN \/ /\ f.rec.slot = None
               /\ how = "once" => f.loops[i].len = f.loops[i].beats * f.pulse.frames + RecordingTailFrames
            \/ /\ f.rec.slot # None /\ f.pulse = a.pulse /\ Spent(f.pulse, f.rec, f.loops[i])
               /\ how = "once" => Due(f.pulse, f.rec, f.loops[i])
<1> DEFINE l == h.loops[i]
           m == a.loops[i]
           r == h.rec
           p == h.pulse
           whole == l.beats * p.frames + RecordingTailFrames
           atTarget == r.target # None /\ m.len >= r.target /\ m.len > l.len
           next == [a EXCEPT !.pulse.position = (@ + 1) % Larger(a.pulse.frames, 1), !.rec.tail = None]
           f == FinishFrame(h, a)
<1>1. /\ l.len \in Nat /\ l.beats \in Nat /\ r.beats \in Nat /\ r.tail \in Nat /\ r.target \in Nat
      /\ p.position \in Nat /\ p.frames \in Nat /\ m.len \in Nat /\ r.slot = i
      /\ p \in Pulses /\ r \in Recorders /\ a \in Engines /\ Beating(p)
  <2>1. p \in Pulses /\ r \in Recorders /\ l \in LoopRecords /\ m \in LoopRecords /\ a \in Engines /\ Beating(p)
    BY OrderlyHas, Slots
  <2>2. r.slot = i
    BY DEF Orderly, OneAt, Live
  <2> QED BY <2>1, <2>2, PulseFields, RecorderFields, LoopFields
<1>2. /\ a.rec = r /\ m.mode = "Recording" /\ m.synced = l.synced /\ m.beats = l.beats
      /\ IF r.waitStart THEN m = l ELSE m.len = l.len + 1
  BY DEF Takes
<1>3. l.beats * p.frames \in Nat /\ r.beats * p.frames \in Nat /\ RecordingTailFrames \in Nat
  BY <1>1, OneMore, EngineBounds, Lesser DEF RecordingTailFrames
<1>4. Spent(p, r, m)
  BY <1>1, <1>2, <1>3 DEF Counts, Spent
<1>5. how = "once" => ~r.waitStart /\ m.len = l.len + 1 /\ m.len # 0
  BY <1>1, <1>2 DEF Counts, Due
<1>6. f = CASE atTarget -> StopRecording(a)
            [] ~atTarget /\ r.tail > 1 -> [a EXCEPT !.rec.tail = @ - 1]
            [] ~atTarget /\ r.tail = 1 -> [StopRecording(next) EXCEPT !.pulse.position = a.pulse.position]
            [] OTHER -> a
  BY <1>1, <1>2, NoneIs DEF FinishFrame
<1>7. /\ SamePulse(p, f.pulse) /\ f.loops[i].len = m.len
  BY FinishGives
<1> HIDE DEF f
<1>8. CASE atTarget
  <2>1. f = StopRecording(a)
    BY <1>6, <1>8
  <2>2. f.rec.slot = None /\ (m.len # 0 /\ l.synced => f.loops[i].beats = Larger(l.beats, 1))
    BY <1>1, <1>2, <2>1, NoneIs, StopOrders DEF Rested
  <2>3. ASSUME how = "once" PROVE m.len = whole /\ f.loops[i].beats = l.beats
    <3>1. Due(p, r, l) /\ l.synced
      BY <2>3 DEF Counts
    <3>2. l.len < r.target /\ r.target = whole /\ l.beats > 0
      BY <1>8, <3>1 DEF Due
    <3>3. m.len = whole
      BY <1>1, <1>3, <1>5, <1>8, <2>3, <3>2
    <3>4. Larger(l.beats, 1) = l.beats
      BY <1>1, <3>2 DEF Larger
    <3> QED BY <1>5, <2>2, <2>3, <3>1, <3>3, <3>4
  <2> QED BY <1>7, <2>2, <2>3 DEF f, SamePulse
<1>9. CASE ~atTarget /\ r.tail > 1
  <2> DEFINE s == [r EXCEPT !.tail = @ - 1]
  <2>1. f = [a EXCEPT !.rec = s]
    BY <1>2, <1>6, <1>9
  <2>2. /\ s.waitStart = r.waitStart /\ s.waitStop = r.waitStop /\ s.target = r.target
        /\ s.skip = r.skip /\ s.beats = r.beats /\ s.tail = r.tail - 1
        /\ s.slot = r.slot
    BY <1>1 DEF Recorders
  <2> HIDE DEF s
  <2>3. f.rec = s /\ f.loops = a.loops /\ f.pulse = p
    BY <1>1, <2>1 DEF Engines
  <2>4. Spent(p, s, m)
    BY <1>4, <2>2 DEF Spent
  <2>5. ASSUME how = "once" PROVE Due(p, s, m)
    <3>1. Due(p, r, l)
      BY <2>5
    <3>2. ~r.waitStop /\ r.tail # None /\ r.target = None /\ l.len + r.tail = whole /\ l.beats > 0
      BY <1>9, <3>1, NoneIs DEF Due, None
    <3>3. m.len + s.tail = whole /\ s.tail # None /\ m.len > 0
      BY <1>1, <1>3, <1>5, <1>9, <2>2, <2>5, <3>2 DEF None
    <3> QED BY <1>2, <2>2, <3>2, <3>3 DEF Due
  <2> QED BY <1>2, <2>2, <2>3, <2>4, <2>5 DEF f
<1>10. CASE ~atTarget /\ r.tail = 1
  <2> DEFINE g == StopRecording(next)
             x == (p.position + 1) % Larger(p.frames, 1)
             q == [p EXCEPT !.position = x]
             s == [r EXCEPT !.tail = None]
  <2>1. next = [a EXCEPT !.pulse = q, !.rec = s]
    BY <1>1, <1>2 DEF Engines
  <2>2. x \in Nat /\ x < p.frames
    <3>1. Larger(p.frames, 1) = p.frames /\ p.frames > 0
      BY <1>1 DEF Beating, Larger
    <3>2. p.position + 1 \in Nat /\ p.frames \in Nat \ {0}
      BY <1>1, <3>1
    <3> QED BY <3>1, <3>2, Divided
  <2> HIDE DEF x, next
  <2>3. Beating(q) /\ s \in Recorders /\ s.slot = i
    <3>1. s \in Recorders /\ s.slot = i
      BY <1>1, NoneIs DEF Recorders
    <3> QED BY <1>1, <2>2, <3>1, PlacedBeats
  <2> HIDE DEF q, s
  <2>4. next = With(a.loops, s, q, a.ready)
    BY <1>1, <2>1 DEF Engines, With
  <2>5. Orderly(next) /\ next.rec = s /\ next.loops = a.loops
    BY <1>1, <1>2, <2>3, <2>4, ChangeRecorder
  <2>6. g.rec.slot = None /\ (m.len # 0 /\ l.synced => g.loops[i].beats = Larger(l.beats, 1))
    BY <1>1, <1>2, <2>3, <2>5, NoneIs, StopOrders DEF Rested
  <2>7. f = [g EXCEPT !.pulse.position = a.pulse.position] /\ g \in Engines
    BY <1>6, <1>10, <2>5, StopOrders, OrderlyHas
  <2> HIDE DEF g
  <2>8. f.rec = g.rec /\ f.loops = g.loops
    BY <2>7 DEF Engines
  <2>9. ASSUME how = "once" PROVE m.len = whole /\ f.loops[i].beats = l.beats
    <3>1. Due(p, r, l) /\ l.synced
      BY <2>9 DEF Counts
    <3>2. l.len + 1 = whole /\ l.beats > 0
      BY <1>10, <3>1 DEF Due, None
    <3>3. Larger(l.beats, 1) = l.beats
      BY <1>1, <3>2 DEF Larger
    <3> QED BY <1>5, <2>6, <2>8, <2>9, <3>1, <3>2, <3>3
  <2> QED BY <1>7, <2>6, <2>8, <2>9 DEF f, SamePulse
<1>11. CASE ~atTarget /\ ~(r.tail > 1) /\ r.tail # 1
  <2>1. f = a
    BY <1>6, <1>11
  <2>2. ASSUME how = "once" PROVE Due(p, r, m)
    <3>1. Due(p, r, l) /\ r.tail = None
      BY <1>1, <1>11, <2>2 DEF None
    <3>2. r.target # None => m.len < r.target
      BY <1>1, <1>5, <1>11, <2>2
    <3>3. m.len > 0
      BY <1>1, <1>5, <2>2
    <3> QED BY <1>2, <3>1, <3>2, <3>3 DEF Due
  <2> QED BY <1>2, <1>4, <2>1, <2>2 DEF f
<1> QED BY <1>8, <1>9, <1>10, <1>11

\* The clock moves on, and the frame is one since the last downbeat.
LEMMA TickCounts ==
  ASSUME NEW e, Orderly(e), NEW i \in LoopSlots, Spent(e.pulse, e.rec, e.loops[i]),
         NEW how, how = "once" => Due(e.pulse, e.rec, e.loops[i])
  PROVE  LET f == Elapsed(e)
         IN Beaten(f.pulse, f.rec, f.loops[i]) /\ (how = "once" => Due(f.pulse, f.rec, f.loops[i]))
<1> DEFINE p == e.pulse
           r == e.rec
           l == e.loops[i]
           f == Elapsed(e)
           q == Tick(p)
<1>1. /\ l.len \in Nat /\ r.beats \in Nat /\ p.position \in Nat /\ p.frames \in Nat /\ p.position < p.frames
      /\ p \in Pulses
  <2>1. p \in Pulses /\ r \in Recorders /\ l \in LoopRecords /\ Beating(p)
    BY OrderlyHas, Slots
  <2> QED BY <2>1, PulseFields, RecorderFields, LoopFields DEF Beating
<1>2. /\ f.pulse = q /\ f.loops = e.loops
      /\ SameRequests(r, f.rec) /\ f.rec.waitStart = r.waitStart
      /\ f.rec.skip = r.skip /\ f.rec.beats = r.beats
  BY ElapsedGives
<1>3. q.frames = p.frames /\ q.position = IF p.position + 1 >= p.frames THEN 0 ELSE p.position + 1
  BY <1>1, TickIs
<1>4. (r.beats + 1) * p.frames = r.beats * p.frames + p.frames /\ r.beats * p.frames \in Nat
  BY <1>1, OneMore
<1> HIDE DEF f, q
<1>5. Beaten(q, f.rec, l)
  <2>1. l.synced /\ f.rec.skip = 0
    BY <1>2 DEF Spent
  <2>2. CASE r.waitStart
    BY <1>2, <2>1, <2>2 DEF Spent, Beaten
  <2>3. CASE ~r.waitStart
    <3>1. l.len = r.beats * p.frames + p.position + 1
      BY <2>3 DEF Spent
    <3>2. CASE p.position + 1 >= p.frames
      <4>1. q.position = 0 /\ l.len = (r.beats + 1) * p.frames
        BY <1>1, <1>3, <1>4, <3>1, <3>2
      <4> QED BY <1>2, <1>3, <2>1, <2>3, <4>1 DEF Beaten
    <3>3. CASE ~(p.position + 1 >= p.frames)
      <4>1. q.position # 0 /\ l.len = r.beats * p.frames + q.position
        BY <1>1, <1>3, <1>4, <3>1, <3>3
      <4> QED BY <1>2, <1>3, <2>1, <2>3, <4>1 DEF Beaten
    <3> QED BY <3>2, <3>3
  <2> QED BY <2>2, <2>3
<1>6. how = "once" => Due(q, f.rec, l)
  BY <1>2, <1>3 DEF Due, SameRequests
<1> QED BY <1>2, <1>5, <1>6 DEF f

\* A whole frame.
LEMMA FrameInTime ==
  ASSUME NEW e, Orderly(e), Even(e.pulse), NEW how, InTime(e, how)
  PROVE  LET f == Elapsed(FinishFrame(Beat(e), AllSlotsFrame(Beat(e))))
         IN /\ Even(f.pulse) /\ InTime(f, how)
            /\ \A i \in LoopSlots :
                 e.pulse.active /\ e.loops[i].mode = "Recording" /\ f.rec.slot = None
                 /\ f.loops[i].len = e.loops[i].len + 1 /\ how = "once"
                 => f.loops[i].len = f.loops[i].beats * e.pulse.frames + RecordingTailFrames
<1> DEFINE h == Beat(e)
           a == AllSlotsFrame(h)
           n == FinishFrame(h, a)
           f == Elapsed(n)
<1>1. Orderly(h) /\ Spares(e, h) /\ GoesOn(e, h) /\ SamePulse(e.pulse, h.pulse)
  <2>1. h.pulse = e.pulse
    BY OrderlyHas, BeatPulse DEF Even
  <2> QED BY <2>1, BeatGives DEF SamePulse
<1>2. Orderly(a) /\ Spares(h, a) /\ a.pulse = h.pulse
  BY <1>1, AllSlotsGives
<1>3. /\ Orderly(n) /\ Spares(a, n) /\ SamePulse(a.pulse, n.pulse)
      /\ \A j \in LoopSlots : n.loops[j].len = a.loops[j].len
      /\ n.rec.slot \in {None, a.rec.slot} /\ (n.rec.slot = None \/ n.loops = a.loops)
  BY <1>2, FinishGives
<1>4. /\ Orderly(f) /\ Spares(n, f) /\ f.pulse = Tick(n.pulse) /\ f.loops = n.loops /\ f.rec.slot = n.rec.slot
  BY <1>3, ElapsedGives DEF GoesOn
<1>5. Spares(e, f)
  BY <1>1, <1>2, <1>3, <1>4, SparesOn
<1>6. /\ f.pulse.frames = e.pulse.frames /\ f.pulse.active = e.pulse.active
      /\ f.pulse.suppressed = e.pulse.suppressed
  <2>1. n.pulse \in Pulses
    BY <1>3, OrderlyHas
  <2> QED BY <1>1, <1>2, <1>3, <1>4, <2>1, TickIs DEF SamePulse
<1>7. Even(f.pulse)
  BY <1>6 DEF Even
<1> DEFINE Right(i) ==
       /\ f.rec.slot # None => OnTime(f.pulse, f.rec, f.loops[i], how)
       /\ e.pulse.active /\ f.rec.slot = None /\ f.loops[i].len = e.loops[i].len + 1 /\ how = "once"
            => f.loops[i].len = f.loops[i].beats * e.pulse.frames + RecordingTailFrames
<1>8. ASSUME NEW i \in LoopSlots, e.loops[i].mode = "Recording"
      PROVE  Right(i)
  <2> DEFINE l == e.loops[i]
  <2> HIDE DEF h, a, n, f
  <2>0. l.len \in Nat /\ OnTime(e.pulse, e.rec, l, how)
    BY <1>8, OrderlyHas, Slots, LoopFields DEF InTime
  <2>1. CASE ~e.pulse.active
    BY <1>6, <2>0, <2>1 DEF OnTime
  <2>2. CASE e.pulse.active
    <3>0. e.pulse.active /\ ~e.pulse.suppressed
      BY <2>2 DEF Even
    <3>1. /\ h.pulse = e.pulse /\ h.loops[i] = l /\ h.rec.skip = e.rec.skip
      BY <1>8, <3>0, DownbeatCounts DEF h
    <3>2. h.loops[i].mode = "Recording" /\ (h.rec.skip = 0 \/ Stuck(h.loops[i]))
      BY <1>8, <2>0, <3>0, <3>1 DEF OnTime, Beaten
    <3>3. /\ Takes(h, a, i) /\ a.pulse = h.pulse
          /\ \A j \in LoopSlots : a.loops[j].ending = h.loops[j].ending
      BY <1>1, <3>2, AllSlotsTake DEF a
    <3>4. f.loops[i].len = a.loops[i].len
      BY <1>3, <1>4
    <3>5. CASE a.rec.slot = None
      <4>1. h.rec.slot = i
        BY <1>1, <3>2 DEF Orderly, OneAt, Live
      <4>2. f.rec.slot = None /\ f.loops[i].len <= l.len
        BY <1>3, <1>4, <3>1, <3>3, <3>4, <3>5, <4>1, NoneIs DEF Takes
      <4>3. f.loops[i].len # l.len + 1
        <5>1. f.loops[i].len \in Nat
          BY <1>4, OrderlyHas, Slots, LoopFields
        <5> QED BY <2>0, <4>2, <5>1
      <4> QED BY <4>2, <4>3
    <3>6. CASE a.rec.slot # None /\ Stuck(l)
      <4>1. a.loops[i] = l
        BY <3>1, <3>3, <3>6 DEF Takes
      <4>2. f.loops[i].len # l.len + 1
        BY <2>0, <3>4, <4>1
      <4>3. f.rec.slot # None => f.loops[i] = l
        BY <1>3, <1>4, <4>1
      <4> QED BY <1>6, <3>0, <3>6, <4>2, <4>3 DEF OnTime
    <3>7. CASE a.rec.slot # None /\ ~Stuck(l)
      <4>1. Beaten(e.pulse, e.rec, l) /\ (how = "once" => Due(e.pulse, e.rec, l))
        BY <2>0, <3>0, <3>7 DEF OnTime
      <4>2. Counts(h.pulse, h.rec, h.loops[i]) /\ (how = "once" => Due(h.pulse, h.rec, h.loops[i]))
        BY <1>8, <3>0, <4>1, BeatCounts DEF h
      <4>3. \/ /\ n.rec.slot = None
               /\ how = "once" => n.loops[i].len = n.loops[i].beats * n.pulse.frames + RecordingTailFrames
            \/ /\ n.rec.slot # None /\ n.pulse = a.pulse /\ Spent(n.pulse, n.rec, n.loops[i])
               /\ how = "once" => Due(n.pulse, n.rec, n.loops[i])
        BY <1>1, <1>2, <3>0, <3>1, <3>2, <3>3, <3>7, <4>2, FinishCounts DEF n
      <4>4. n.pulse.frames = e.pulse.frames
        BY <1>3, <3>1, <3>3 DEF SamePulse
      <4>5. CASE /\ n.rec.slot = None
                 /\ how = "once" => n.loops[i].len = n.loops[i].beats * n.pulse.frames + RecordingTailFrames
        BY <1>4, <4>4, <4>5
      <4>6. CASE /\ n.rec.slot # None /\ n.pulse = a.pulse /\ Spent(n.pulse, n.rec, n.loops[i])
                 /\ how = "once" => Due(n.pulse, n.rec, n.loops[i])
        <5>1. /\ Beaten(f.pulse, f.rec, f.loops[i]) /\ (how = "once" => Due(f.pulse, f.rec, f.loops[i]))
          BY <1>3, <4>6, TickCounts DEF f
        <5> QED BY <1>4, <1>6, <3>0, <4>6, <5>1 DEF OnTime
      <4> QED BY <4>3, <4>5, <4>6
    <3> QED BY <3>5, <3>6, <3>7
  <2> QED BY <2>1, <2>2
<1>9. InTime(f, how)
  <2> SUFFICES ASSUME NEW i \in LoopSlots, f.loops[i].mode = "Recording"
               PROVE  OnTime(f.pulse, f.rec, f.loops[i], how)
    BY DEF InTime
  <2>1. e.loops[i].mode = "Recording"
    BY <1>5 DEF Spares, Keeps
  <2>2. f.rec.slot = i
    BY <1>4 DEF Orderly, OneAt, Live
  <2> HIDE DEF f
  <2> QED BY <1>8, <2>1, <2>2, NoneIs
<1>10. \A i \in LoopSlots : e.loops[i].mode = "Recording" => Right(i)
  BY <1>8
<1> HIDE DEF f
<1> QED BY <1>7, <1>9, <1>10 DEF f

\* A stop is asked for: what it had been asked like `how` it has now been asked like the
\* second of the two.
AskedOnce(e, how) ==
  IF how = "no" THEN IF e.rec.slot # None /\ e.loops[e.rec.slot].len > 0 THEN "once" ELSE "early"
  ELSE IF how = "early" THEN "early" ELSE "again"

LEMMA StopInTime ==
  ASSUME NEW e, Orderly(e), Even(e.pulse), NEW how, InTime(e, how), how = "no" => Unasked(e)
  PROVE  LET f == RequestStop(e) IN Even(f.pulse) /\ InTime(f, AskedOnce(e, how))
<1> DEFINE f == RequestStop(e)
           next == AskedOnce(e, how)
<1>1. /\ Orderly(f) /\ Spares(e, f) /\ SamePulse(e.pulse, f.pulse)
      /\ Quiet(f) \/ e.loops[e.rec.slot].mode = "Overdubbing" \/ Asked(e, f)
  BY RequestStopGives DEF Orderly
<1>2. next = "once" =>
        how = "no" /\ e.rec.slot # None /\ e.loops[e.rec.slot].len > 0
  BY DEF AskedOnce
<1> HIDE DEF f, next
<1>3. Even(f.pulse)
  BY <1>1 DEF Even, SamePulse
<1>4. ASSUME NEW i \in LoopSlots, f.loops[i].mode = "Recording"
      PROVE  OnTime(f.pulse, f.rec, f.loops[i], next)
  <2> DEFINE l == e.loops[i]
             m == f.loops[i]
             r == e.rec
             q == f.rec
  <2>1. l.mode = "Recording" /\ r.slot = i
    BY <1>1, <1>4 DEF Spares, Keeps, Orderly, OneAt, Live
  <2>2. Asked(e, f)
    BY <1>1, <1>4, <2>1 DEF Quiet, Live
  <2>3. /\ e.pulse.active /\ f.pulse.active
        /\ f.pulse.frames = e.pulse.frames /\ f.pulse.position = e.pulse.position
    BY <1>1, <2>2 DEF Asked, SamePulse
  <2>4. /\ m.len = l.len /\ m.synced = l.synced
        /\ m.blocks = l.blocks /\ m.buffer = l.buffer /\ m.offset = l.offset
        /\ q.waitStart = r.waitStart /\ q.skip = r.skip /\ q.beats = r.beats /\ q.tail = r.tail
        /\ \/ q.waitStop /\ q.target = r.target /\ m.beats = r.beats + 1
           \/ /\ q.waitStop = r.waitStop /\ m.beats > 0 /\ l.len < q.target
              /\ q.target = m.beats * f.pulse.frames + RecordingTailFrames
    BY <2>1, <2>2, <2>3 DEF Asked
  <2>5. Stuck(l) \/ Beaten(e.pulse, r, l)
    BY <2>1, <2>3 DEF InTime, OnTime
  <2>6. CASE Stuck(l)
    <3>1. Stored(m) = Stored(l)
      BY <2>4, StoredSame
    <3> QED BY <2>3, <2>4, <2>6, <3>1 DEF OnTime, Stuck, Full
  <2>7. CASE Beaten(e.pulse, r, l)
    <3>1. Beaten(f.pulse, q, m)
      BY <2>3, <2>4, <2>7 DEF Beaten
    <3>2. ASSUME next = "once" PROVE Due(f.pulse, q, m)
      <4>1. ~r.waitStop /\ r.tail = None /\ r.target = None /\ l.len > 0
        BY <1>2, <2>1, <3>2 DEF Unasked
      <4>2. l.len \in Nat /\ r.beats \in Nat /\ q.target \in Nat
        <5>1. l \in LoopRecords /\ r \in Recorders /\ q \in Recorders
          BY <1>1, OrderlyHas, Slots
        <5> QED BY <5>1, LoopFields, RecorderFields
      <4>3. CASE q.waitStop /\ q.target = r.target /\ m.beats = r.beats + 1
        BY <2>4, <4>1, <4>2, <4>3 DEF Due
      <4>4. CASE /\ q.waitStop = r.waitStop /\ m.beats > 0 /\ l.len < q.target
                 /\ q.target = m.beats * f.pulse.frames + RecordingTailFrames
        <5>1. q.target # None
          BY <4>2, <4>4 DEF None
        <5> QED BY <2>4, <4>1, <4>4, <5>1 DEF Due
      <4> QED BY <2>4, <4>3, <4>4
    <3> QED BY <2>3, <3>1, <3>2 DEF OnTime
  <2> QED BY <2>5, <2>6, <2>7
<1> QED BY <1>3, <1>4 DEF InTime, f, next

\* Becoming f, e goes on with what it records, if with anything: the loop and the recorder's
\* orders are the same, whichever slot it is in.
Carries(e, f) ==
  /\ SamePulse(e.pulse, f.pulse) /\ SameRequests(e.rec, f.rec)
  /\ f.rec.waitStart = e.rec.waitStart /\ f.rec.skip = e.rec.skip /\ f.rec.beats = e.rec.beats
  /\ \A i \in LoopSlots : f.loops[i].mode = "Recording" => \E j \in LoopSlots : f.loops[i] = e.loops[j]

LEMMA CarriesInTime ==
  ASSUME NEW e, NEW f, Carries(e, f), Even(e.pulse), NEW how, InTime(e, how)
  PROVE  Even(f.pulse) /\ InTime(f, how)
<1>1. Even(f.pulse)
  BY DEF Carries, SamePulse, Even
<1>2. ASSUME NEW i \in LoopSlots, f.loops[i].mode = "Recording"
      PROVE  OnTime(f.pulse, f.rec, f.loops[i], how)
  <2>1. PICK j \in LoopSlots : f.loops[i] = e.loops[j]
    BY <1>2 DEF Carries
  <2>2. OnTime(e.pulse, e.rec, e.loops[j], how)
    BY <1>2, <2>1 DEF InTime
  <2> DEFINE l == e.loops[j]
  <2>3. OnTime(e.pulse, e.rec, l, how)
    BY <2>2
  <2> HIDE DEF l
  <2>4. Beaten(e.pulse, e.rec, l) => Beaten(f.pulse, f.rec, l)
    BY DEF Carries, SamePulse, Beaten
  <2>5. Due(e.pulse, e.rec, l) => Due(f.pulse, f.rec, l)
    BY DEF Carries, SamePulse, SameRequests, Due
  <2>6. OnTime(f.pulse, f.rec, l, how)
    BY <2>3, <2>4, <2>5 DEF OnTime, Carries, SamePulse
  <2> QED BY <2>1, <2>6 DEF l
<1> QED BY <1>1, <1>2 DEF InTime

\* A command to one slot, that records no more if it did.
LEMMA CarriesBut ==
  ASSUME NEW e, NEW i \in LoopSlots, NEW f, SamePulse(e.pulse, f.pulse), SameRequests(e.rec, f.rec),
         f.rec.waitStart = e.rec.waitStart, f.rec.skip = e.rec.skip, f.rec.beats = e.rec.beats,
         f.loops[i].mode # "Recording", \A j \in LoopSlots : j # i => f.loops[j] = e.loops[j]
  PROVE  Carries(e, f)
  BY DEF Carries

\* A command to one slot that is not recorded, or no more.
LEMMA CycledBut ==
  ASSUME NEW e \in Engines, NEW i \in LoopSlots, NEW f, f.pulse = e.pulse,
         f.rec.slot \in {None, e.rec.slot} \ {i}, f.rec.extended = e.rec.extended,
         Shares(e.loops[i], f.loops[i]) \/ ~f.loops[i].synced,
         \A j \in LoopSlots : j # i => f.loops[j] = e.loops[j]
  PROVE  Cycled(e, f)
<1>1. e.rec.slot = None \/ e.rec.slot \in LoopSlots
  BY WithIs, RecorderFields
<1>2. RecordsOn(e, f)
  BY <1>1 DEF RecordsOn
<1>3. Covered(e) => Covered(f)
  BY DEF Covered, Shares
<1> QED BY <1>2, <1>3 DEF Cycled

LEMMA SoundCarries ==
  ASSUME NEW e, Orderly(e), NEW i \in LoopSlots, NEW mode \in {"Playing", "Overdubbing"}
  PROVE  LET f == Sound(e, i, mode)
         IN Carries(e, f) /\ f.rec = e.rec /\ f \in Engines /\ SamePulse(e.pulse, f.pulse)
<1> DEFINE l == e.loops[i]
           x == IF l.synced /\ e.pulse.active THEN LoopPosition(e.pulse, l) ELSE 0
           m == [l EXCEPT !.mode = mode, !.position = x]
           p == IF l.synced THEN Extend(e.pulse, Larger(l.beats, 1), TRUE) ELSE e.pulse
           f == Sound(e, i, mode)
<1>1. /\ e \in Engines /\ e.loops \in [LoopSlots -> LoopRecords] /\ l \in LoopRecords
      /\ Beating(e.pulse) /\ e.pulse \in Pulses
  BY OrderlyHas, Slots
<1>2. x \in Nat
  BY <1>1, LoopPositionFits
<1>3. SamePulse(e.pulse, p) /\ p \in Pulses
  <2>1. Larger(l.beats, 1) \in Nat
    BY <1>1, LoopFields, Lesser
  <2>2. SamePulse(e.pulse, Extend(e.pulse, Larger(l.beats, 1), TRUE))
        /\ Beating(Extend(e.pulse, Larger(l.beats, 1), TRUE))
    BY <1>1, <2>1, ExtendBeats
  <2> QED BY <1>1, <2>2 DEF SamePulse, Beating
<1>4. f = [e EXCEPT !.loops = [e.loops EXCEPT ![i] = m], !.pulse = p]
  <2>1. f = [e EXCEPT !.loops[i].mode = mode, !.loops[i].position = x, !.pulse = p]
    BY DEF Sound
  <2> HIDE DEF x, p, f
  <2> QED BY <1>1, <2>1 DEF Engines, LoopRecords
<1>5. m \in LoopRecords /\ m.mode = mode
  <2> HIDE DEF x
  <2> QED BY <1>1, <1>2 DEF LoopRecords, Modes
<1> HIDE DEF m, p, f
<1>6. [e.loops EXCEPT ![i] = m] \in [LoopSlots -> LoopRecords]
  BY <1>1, <1>5
<1>7. /\ f.rec = e.rec /\ f.pulse = p /\ f \in Engines
      /\ f.loops[i] = m /\ \A j \in LoopSlots : j # i => f.loops[j] = e.loops[j]
  <2> DEFINE L == [e.loops EXCEPT ![i] = m]
  <2>1. L[i] = m /\ \A j \in LoopSlots : j # i => L[j] = e.loops[j]
    BY <1>1
  <2>2. L \in [LoopSlots -> LoopRecords]
    BY <1>6
  <2> HIDE DEF L
  <2>3. f.rec = e.rec /\ f.pulse = p /\ f \in Engines /\ f.loops = L
    BY <1>1, <1>3, <1>4, <2>2 DEF Engines, L
  <2> QED BY <2>1, <2>3
<1>8. SameRequests(e.rec, f.rec) /\ SamePulse(e.pulse, f.pulse)
  BY <1>3, <1>7 DEF SameRequests
<1>9. Carries(e, f)
  BY <1>5, <1>7, <1>8, CarriesBut
<1> QED BY <1>7, <1>8, <1>9 DEF f

LEMMA OverdubLeaves ==
  ASSUME NEW e, Orderly(e), NEW i \in LoopSlots
  PROVE  LET f == Overdub(e, i)
         IN SamePulse(e.pulse, f.pulse) /\ (f = e \/ f.rec.slot = i)
<1> DEFINE s == Sound(e, i, "Overdubbing")
           f == Overdub(e, i)
<1>1. CASE e.loops[i].len = 0
  BY <1>1 DEF Overdub, SamePulse
<1>2. CASE e.loops[i].len # 0
  <2>1. s \in Engines /\ SamePulse(e.pulse, s.pulse)
    BY SoundCarries
  <2>2. f = [s EXCEPT !.loops[i].ending = None, !.loops[i].jump = None, !.loops[i].heard = 0, !.rec.slot = i]
    BY <1>2 DEF Overdub
  <2> HIDE DEF s, f
  <2>3. f.pulse = s.pulse /\ f.rec.slot = i
    BY <2>1, <2>2 DEF Engines, Recorders
  <2> QED BY <2>1, <2>3 DEF f, s
<1> QED BY <1>1, <1>2

LEMMA MuteCarries ==
  ASSUME NEW e, Orderly(e), NEW i \in LoopSlots
  PROVE  LET f == [e EXCEPT !.loops[i].mode = "Muted", !.loops[i].position = 0]
             g == [e EXCEPT !.loops[i].mode = "Playing"]
         IN /\ Carries(e, f) /\ Carries(e, g) /\ f.rec = e.rec /\ g.rec = e.rec
            /\ (e.rec.slot # i => Cycled(e, f) /\ Cycled(e, g))
<1> DEFINE f == [e EXCEPT !.loops[i].mode = "Muted", !.loops[i].position = 0]
           g == [e EXCEPT !.loops[i].mode = "Playing"]
<1>1. e \in Engines /\ e.loops \in [LoopSlots -> LoopRecords]
  BY OrderlyHas
<1>2. /\ f.pulse = e.pulse /\ f.rec = e.rec /\ f.loops[i].mode # "Recording"
      /\ Shares(e.loops[i], f.loops[i])
      /\ \A j \in LoopSlots : j # i => f.loops[j] = e.loops[j]
  BY <1>1 DEF Engines, LoopRecords, Shares, Sounds
<1>3. /\ g.pulse = e.pulse /\ g.rec = e.rec /\ g.loops[i].mode # "Recording"
      /\ Shares(e.loops[i], g.loops[i])
      /\ \A j \in LoopSlots : j # i => g.loops[j] = e.loops[j]
  BY <1>1 DEF Engines, LoopRecords, Shares, Sounds
<1> HIDE DEF f, g
<1>4. Carries(e, f)
  BY <1>2 DEF Carries, SamePulse, SameRequests
<1>5. Carries(e, g)
  BY <1>3 DEF Carries, SamePulse, SameRequests
<1>6. e.rec.slot # i => Cycled(e, f) /\ Cycled(e, g)
  BY <1>1, <1>2, <1>3, CycledBut
<1> QED BY <1>2, <1>3, <1>4, <1>5, <1>6 DEF f, g

LEMMA EraseCarries ==
  ASSUME NEW e, Orderly(e), NEW i \in LoopSlots
  PROVE  LET f == [e EXCEPT !.loops[i] = Erased(@), !.rec.slot = IF @ = i THEN None ELSE @]
         IN /\ Carries(e, f) /\ f.loops[i].mode # "Playing" /\ (e.rec.slot = i \/ f.rec.slot = e.rec.slot)
            /\ Cycled(e, f)
<1> DEFINE m == Erased(e.loops[i])
           s == IF e.rec.slot = i THEN None ELSE e.rec.slot
           r == [e.rec EXCEPT !.slot = s]
           f == [e EXCEPT !.loops[i] = Erased(@), !.rec.slot = IF @ = i THEN None ELSE @]
<1>1. e \in Engines /\ e.loops \in [LoopSlots -> LoopRecords] /\ e.rec \in Recorders /\ e.loops[i] \in LoopRecords
  BY OrderlyHas, Slots
<1>2. m.mode = "Empty" /\ ~m.synced
  <2> DEFINE b == Release(e.loops[i])
  <2>1. b \in [mode : Modes, len : Nat, position : Nat, blocks : {0}, buffer : {0, BufferFrames},
               offset : Nat, synced : BOOLEAN, beats : Nat, alignment : Nat, ending : Nat, jump : Nat, heard : Nat]
    BY <1>1 DEF Release, LoopRecords
  <2> HIDE DEF b
  <2> QED BY <2>1 DEF Erased, b
<1>3. /\ r.waitStop = e.rec.waitStop /\ r.tail = e.rec.tail /\ r.target = e.rec.target
      /\ r.waitStart = e.rec.waitStart /\ r.skip = e.rec.skip /\ r.beats = e.rec.beats /\ r.slot = s
      /\ r.extended = e.rec.extended
  BY <1>1 DEF Recorders
<1>4. f = [e EXCEPT !.loops = [e.loops EXCEPT ![i] = m], !.rec = r]
  BY <1>1 DEF Engines
<1>5. (e.rec.slot = i \/ s = e.rec.slot) /\ s \in {None, e.rec.slot} \ {i}
  BY NoneIs
<1> HIDE DEF m, s, r, f
<1>6. /\ f.pulse = e.pulse /\ f.rec = r /\ f.loops[i] = m
      /\ \A j \in LoopSlots : j # i => f.loops[j] = e.loops[j]
  BY <1>1, <1>4 DEF Engines
<1>7. Carries(e, f)
  BY <1>2, <1>3, <1>6 DEF Carries, SamePulse, SameRequests
<1>8. Cycled(e, f)
  BY <1>1, <1>2, <1>3, <1>5, <1>6, CycledBut
<1> QED BY <1>2, <1>3, <1>5, <1>6, <1>7, <1>8 DEF f

LEMMA ImportCarries ==
  ASSUME NEW e, Orderly(e), NEW i \in LoopSlots, NEW n \in ImportLengths
  PROVE  LET f == [e EXCEPT !.loops[i] = [Release(@) EXCEPT
                     !.buffer = BufferFrames, !.len = n, !.offset = 0, !.position = 0,
                     !.mode = "Playing", !.synced = FALSE, !.alignment = 0]]
         IN Carries(e, f) /\ f.rec = e.rec /\ (e.rec.slot # i => Cycled(e, f))
<1> DEFINE m == [Release(e.loops[i]) EXCEPT
                     !.buffer = BufferFrames, !.len = n, !.offset = 0, !.position = 0,
                     !.mode = "Playing", !.synced = FALSE, !.alignment = 0]
           f == [e EXCEPT !.loops[i] = [Release(@) EXCEPT
                     !.buffer = BufferFrames, !.len = n, !.offset = 0, !.position = 0,
                     !.mode = "Playing", !.synced = FALSE, !.alignment = 0]]
<1>1. e \in Engines /\ e.loops \in [LoopSlots -> LoopRecords] /\ e.loops[i] \in LoopRecords
  BY OrderlyHas, Slots
<1>2. m.mode = "Playing" /\ ~m.synced
  BY <1>1 DEF Release, LoopRecords
<1>3. f = [e EXCEPT !.loops = [e.loops EXCEPT ![i] = m]]
  BY <1>1
<1> HIDE DEF m, f
<1>4. /\ f.pulse = e.pulse /\ f.rec = e.rec /\ f.loops[i] = m
      /\ \A j \in LoopSlots : j # i => f.loops[j] = e.loops[j]
  BY <1>1, <1>3 DEF Engines
<1>5. Carries(e, f)
  BY <1>2, <1>4 DEF Carries, SamePulse, SameRequests
<1>6. e.rec.slot # i => Cycled(e, f)
  BY <1>1, <1>2, <1>4, CycledBut
<1> QED BY <1>4, <1>5, <1>6 DEF f

LEMMA MoveCarries ==
  ASSUME NEW e, Orderly(e), NEW from \in LoopSlots, NEW to \in LoopSlots, from # to
  PROVE  LET f == [e EXCEPT !.loops[from] = e.loops[to], !.loops[to] = e.loops[from],
                            !.rec = Moved(@, from, to)]
         IN /\ Carries(e, f) /\ (e.rec.slot # None => f.rec.slot # None)
            /\ Covered(e) => Covered(f)
            /\ (Attended(e) => Attended(f)) /\ (Uncommitted(e) => Uncommitted(f))
<1> DEFINE L == [e.loops EXCEPT ![from] = e.loops[to], ![to] = e.loops[from]]
           r == Moved(e.rec, from, to)
           f == [e EXCEPT !.loops[from] = e.loops[to], !.loops[to] = e.loops[from],
                          !.rec = Moved(@, from, to)]
<1>1. e \in Engines /\ e.loops \in [LoopSlots -> LoopRecords] /\ e.rec \in Recorders
  BY OrderlyHas
<1>2. /\ \A j \in LoopSlots : \E k \in LoopSlots : L[j] = e.loops[k]
      /\ L[from] = e.loops[to] /\ L[to] = e.loops[from]
      /\ \A j \in LoopSlots : j # from /\ j # to => L[j] = e.loops[j]
  BY <1>1
<1>3. /\ r.waitStop = e.rec.waitStop /\ r.tail = e.rec.tail /\ r.target = e.rec.target
      /\ r.waitStart = e.rec.waitStart /\ r.skip = e.rec.skip /\ r.beats = e.rec.beats
      /\ r.slot \in {e.rec.slot, from, to} /\ r.extended = e.rec.extended
      /\ r.slot = CASE e.rec.slot = from -> to [] e.rec.slot = to -> from [] OTHER -> e.rec.slot
  BY <1>1 DEF Recorders, Moved
<1>4. f = [e EXCEPT !.loops = L, !.rec = r]
  <2> HIDE DEF r
  <2>1. f = [e EXCEPT !.loops[from] = e.loops[to], !.loops[to] = e.loops[from], !.rec = r]
    BY DEF r
  <2> HIDE DEF f
  <2> QED BY <1>1, <2>1 DEF Engines
<1> HIDE DEF L, r, f
<1>5. f.pulse = e.pulse /\ f.rec = r /\ f.loops = L
  BY <1>1, <1>4 DEF Engines
<1>6. Carries(e, f)
  BY <1>2, <1>3, <1>5 DEF Carries, SamePulse, SameRequests
<1>7. e.rec.slot # None => f.rec.slot # None
  BY <1>3, <1>5, NoneIs
<1>8. Covered(e) => Covered(f)
  BY <1>2, <1>5 DEF Covered
<1>9. /\ r.slot # None => e.rec.slot # None /\ L[r.slot] = e.loops[e.rec.slot]
      /\ e.rec.slot = None \/ e.rec.slot \in LoopSlots
  <2>1. e.rec.slot = None \/ e.rec.slot \in LoopSlots
    BY <1>1, RecorderFields
  <2>2. CASE e.rec.slot = from
    BY <1>2, <1>3, <2>2, NoneIs
  <2>3. CASE e.rec.slot = to
    BY <1>2, <1>3, <2>3, NoneIs
  <2>4. CASE e.rec.slot # from /\ e.rec.slot # to
    <3>1. r.slot = e.rec.slot
      BY <1>3, <2>4
    <3> QED BY <1>2, <2>1, <2>4, <3>1
  <2> QED BY <2>1, <2>2, <2>3, <2>4
<1>10. (Attended(e) => Attended(f)) /\ (Uncommitted(e) => Uncommitted(f))
  BY <1>3, <1>5, <1>9 DEF Attended, Uncommitted
<1> QED BY <1>6, <1>7, <1>8, <1>10 DEF f

--------------------------------------------------------------------------
(* The invariant                                                           *)

\* The engine of the callback is orderly: the clock is inside its beat and its cycle, every
\* loop is inside its storage and its length, and only the recorder's slot records.
EngineInv == Orderly(Now)

\* Nothing ends a recording or an overdub that goes on and that nobody asked to stop.
AskedInv == asked = "no" => Unasked(Now)

\* No command of the instance takes the storage of a loop without asking whether it is
\* being exported: a Record that comes with the length of a key press does, and DeletePulse.
Guarded == {"RecordHeld", "DeletePulse"} \cap Commands = {}

Jobs == [slot : 0..NSlots, cursor : Nat, frames : Nat]

\* The export has frames left, all of them in the storage of its source.
ExportFits ==
  job.slot # None => /\ job.cursor < job.frames
                     /\ loops[job.slot].mode # "Recording"
                     /\ Supplied => job.frames <= Stored(loops[job.slot])

JobInv == job \in Jobs /\ ("RequestLoopExport" \notin Commands => job.slot = None)

\* What a step leaves of the loop that is being exported.
Spared == \A k \in LoopSlots : job.slot = k => Keeps(loops[k], loops'[k])

Stepped == EngineInv' /\ (Guarded => Spared) /\ (AskedInv => AskedInv')

LEMMA BecomeIs ==
  ASSUME NEW e \in Engines, NEW how, BecomeAs(e, how)
  PROVE  /\ Now' = e /\ loops' = e.loops /\ rec' = e.rec /\ pulse' = e.pulse /\ ready' = e.ready
         /\ asked' = IF e.rec.slot = None THEN "no" ELSE how
<1>1. /\ loops' = e.loops /\ rec' = e.rec /\ pulse' = e.pulse /\ ready' = e.ready
      /\ asked' = IF e.rec.slot = None THEN "no" ELSE how
  BY DEF BecomeAs
<1>2. Now' = With(e.loops, e.rec, e.pulse, e.ready)
  BY <1>1 DEF Now, With
<1> QED BY <1>1, <1>2, WithIs

LEMMA NowHas == Now.loops = loops /\ Now.rec = rec /\ Now.pulse = pulse /\ Now.ready = ready
  BY DEF Now

\* The engine becomes an orderly one that keeps what is exported.
LEMMA Becomes ==
  ASSUME NEW e, Orderly(e), NEW how, BecomeAs(e, how),
         Guarded => \A k \in LoopSlots : job.slot = k => Keeps(loops[k], e.loops[k]),
         AskedInv /\ how = "no" => Unasked(e)
  PROVE  Stepped
<1>1. e \in Engines
  BY OrderlyHas
<1>2. Now' = e /\ loops' = e.loops /\ asked' = IF e.rec.slot = None THEN "no" ELSE how
  BY <1>1, BecomeIs
<1>3. EngineInv'
  BY <1>2 DEF EngineInv
<1>4. Guarded => Spared
  BY <1>2 DEF Spared
<1>5. AskedInv => AskedInv'
  BY <1>2 DEF AskedInv, Unasked
<1> QED BY <1>3, <1>4, <1>5 DEF Stepped

LEMMA BecomesSparing ==
  ASSUME NEW e, Orderly(e), Spares(Now, e), NEW how, BecomeAs(e, how),
         AskedInv /\ how = "no" => Unasked(e)
  PROVE  Stepped
<1>1. \A k \in LoopSlots : Keeps(loops[k], e.loops[k])
  BY NowHas DEF Spares
<1> QED BY <1>1, Becomes

\* A command that asks for nothing.
LEMMA HeedsAsked ==
  ASSUME NEW e, Heeds(Now, e)
  PROVE  AskedInv /\ asked = "no" => Unasked(e)
  BY HeedsOn DEF AskedInv

LEMMA StartsOrderly == Init => EngineInv /\ JobInv /\ ExportFits
<1> SUFFICES ASSUME Init PROVE EngineInv /\ JobInv /\ ExportFits
  OBVIOUS
<1> DEFINE idle == IdlePulse(BlockFrames)
<1>1. /\ idle \in Pulses /\ idle.frames = BlockFrames /\ idle.position = 0
      /\ idle.longCount = 0 /\ idle.longLength = 1
  BY EngineBounds DEF IdlePulse, Pulses
<1> HIDE DEF idle
<1>2. Beating(idle)
  BY <1>1, EngineBounds DEF Beating
<1>3. Beating(pulse)
  <2>1. CASE StartPulse = 0
    BY <1>2, <2>1 DEF Init, idle
  <2>2. CASE StartPulse # 0
    <3>1. pulse = SetPulse(idle, StartPulse)
      BY <2>2 DEF Init, idle
    <3> QED BY <1>1, <3>1, EngineBounds, SetPulseBeats
  <2> QED BY <2>1, <2>2
<1>4. EmptyLoop \in LoopRecords /\ EmptyLoop.mode = "Empty" /\ EmptyLoop.len = 0 /\ EmptyLoop.position = 0
  <2>1. 0 \in 0..MaxBlocks /\ None \in Nat /\ "Empty" \in Modes
    BY EngineBounds, NoneIs DEF Modes
  <2> QED BY <2>1 DEF EmptyLoop, LoopRecords
<1>5. Provided(EmptyLoop) /\ Inside(EmptyLoop) /\ ~Live(EmptyLoop)
  BY <1>4, WholeIs DEF Provided, Inside, Live
<1>6. loops \in [LoopSlots -> LoopRecords] /\ \A i \in LoopSlots : loops[i] = EmptyLoop
  BY <1>4 DEF Init
<1>7. rec \in Recorders
  BY NoneIs DEF Init, IdleRecorder, Recorders
<1>8. ready \in Nat /\ (Supplied => ready > 0)
  BY EngineBounds DEF Init, Supplied
<1>9. Now \in Engines
  BY <1>3, <1>6, <1>7, <1>8 DEF Now, Engines, Beating
<1>10. EngineInv
  BY <1>3, <1>5, <1>6, <1>8, <1>9, NowHas DEF EngineInv, Orderly, Healthy, Working, OneAt
<1>11. job = NoJob /\ NoJob.slot = None /\ NoJob \in Jobs
  BY NoneIs DEF Init, NoJob, Jobs
<1> QED BY <1>10, <1>11 DEF JobInv, ExportFits

LEMMA FrameSteps ==
  ASSUME EngineInv, Frame
  PROVE  Stepped
<1> DEFINE e == Elapsed(FinishFrame(Beat(Now), AllSlotsFrame(Beat(Now))))
<1>1. Orderly(e) /\ Spares(Now, e)
  BY FrameGives DEF EngineInv
<1>2. BecomeAs(e, asked)
  BY DEF Frame, Become
<1>3. AskedInv /\ asked = "no" => Unasked(e)
  BY FrameFollows DEF EngineInv, AskedInv
<1> HIDE DEF e
<1> QED BY <1>1, <1>2, <1>3, BecomesSparing

LEMMA RefillSteps ==
  ASSUME EngineInv, Refill
  PROVE  Stepped
<1>1. Now' = [Now EXCEPT !.ready = ready + 1] /\ loops' = loops /\ asked' = asked
  BY DEF Refill, Now
<1>2. Now \in Engines /\ ready \in Nat
  BY OrderlyHas, NowHas DEF EngineInv
<1> DEFINE f == [Now EXCEPT !.ready = ready + 1]
<1>3. f \in Engines /\ f.loops = Now.loops /\ f.rec = Now.rec /\ f.pulse = Now.pulse /\ f.ready > 0
  BY <1>2 DEF Engines
<1> HIDE DEF f
<1>4. Orderly(f)
  BY <1>3 DEF EngineInv, Orderly, Healthy, Working, OneAt
<1>5. EngineInv'
  BY <1>1, <1>4 DEF EngineInv, f
<1>6. Spared
  BY <1>1 DEF Spared, Keeps
<1>7. AskedInv => AskedInv'
  BY <1>1, <1>3 DEF AskedInv, Unasked, f
<1> QED BY <1>5, <1>6, <1>7 DEF Stepped

LEMMA RecordSteps ==
  ASSUME EngineInv, NEW i \in LoopSlots, RecordLoop(i)
  PROVE  Stepped
<1> DEFINE s == StopRecording(Now)
           e == Record(Provide(s, i), i)
<1>1. Orderly(s) /\ Quiet(s) /\ Spares(Now, s) /\ Rested(s.rec)
  BY StopOrders DEF EngineInv
<1>2. BecomeAs(e, "no") /\ (Mutable(i) \/ "RecordHeld" \in Commands)
  BY DEF RecordLoop, HandleAs, Drains
<1> HIDE DEF s
<1>3. /\ Healthy(e) /\ OneAt(e) /\ Unasked(e)
      /\ \A j \in LoopSlots : j # i => e.loops[j] = s.loops[j]
  BY <1>1, RecordGives DEF Orderly
<1> HIDE DEF e
<1>4. ASSUME Guarded, NEW k \in LoopSlots, job.slot = k
      PROVE  Keeps(loops[k], e.loops[k])
  <2>1. k # i
    BY <1>2, <1>4 DEF Guarded, Mutable
  <2> QED BY <1>1, <1>3, <2>1, NowHas DEF Spares
<1> QED BY <1>2, <1>3, <1>4, Becomes DEF Orderly

LEMMA OverdubSteps ==
  ASSUME EngineInv, NEW i \in LoopSlots, OverdubLoop(i)
  PROVE  Stepped
<1> DEFINE s == StopRecording(Now)
           e == Overdub(s, i)
<1>1. Orderly(s) /\ Quiet(s) /\ Spares(Now, s) /\ Rested(s.rec)
  BY StopOrders DEF EngineInv
<1>2. BecomeAs(e, "no")
  BY DEF OverdubLoop, HandleAs
<1> HIDE DEF s
<1>3. Healthy(e) /\ OneAt(e) /\ Spares(s, e) /\ Unasked(e)
  BY <1>1, OverdubGives DEF Orderly
<1> HIDE DEF e
<1>4. Orderly(e) /\ Spares(Now, e)
  BY <1>1, <1>3, SparesOn DEF Orderly
<1> QED BY <1>2, <1>3, <1>4, BecomesSparing

LEMMA StopSteps ==
  ASSUME EngineInv, StopRecord
  PROVE  Stepped
<1> DEFINE e == RequestStop(Now)
           how == IF asked = "no" THEN IF rec.slot # None /\ loops[rec.slot].len > 0 THEN "once" ELSE "early"
                  ELSE IF asked = "early" THEN "early" ELSE "again"
<1>1. Healthy(e) /\ OneAt(e) /\ Spares(Now, e)
  BY RequestStopGives DEF EngineInv, Orderly
<1>2. BecomeAs(e, how)
  BY DEF StopRecord, HandleAs
<1>3. how # "no"
  OBVIOUS
<1> HIDE DEF e, how
<1> QED BY <1>1, <1>2, <1>3, BecomesSparing DEF Orderly

LEMMA TriggerSteps ==
  ASSUME EngineInv, NEW i \in LoopSlots, Trigger(i)
  PROVE  Stepped
<1> DEFINE e == Sound(Now, i, "Playing")
<1>1. Now.loops[i].len > 0 /\ BecomeAs(e, asked)
  BY NowHas DEF Trigger, Handle, Become
<1>2. Healthy(e) /\ OneAt(e) /\ Spares(Now, e) /\ Heeds(Now, e)
  BY <1>1, TriggerGives DEF EngineInv, Orderly
<1> HIDE DEF e
<1> QED BY <1>1, <1>2, HeedsAsked, BecomesSparing DEF Orderly

LEMMA MuteSteps ==
  ASSUME EngineInv, NEW i \in LoopSlots, Mute(i) \/ Unmute(i)
  PROVE  Stepped
<1> DEFINE e == [Now EXCEPT !.loops[i].mode = "Muted", !.loops[i].position = 0]
           g == [Now EXCEPT !.loops[i].mode = "Playing"]
<1>1. Now.loops[i].len > 0 /\ (BecomeAs(e, asked) \/ BecomeAs(g, asked))
  BY NowHas DEF Mute, Unmute, Handle, Become
<1>2. /\ Orderly(e) /\ Spares(Now, e) /\ Heeds(Now, e)
      /\ Orderly(g) /\ Spares(Now, g) /\ Heeds(Now, g)
  BY <1>1, MuteGives DEF EngineInv
<1> HIDE DEF e, g
<1> QED BY <1>1, <1>2, HeedsAsked, BecomesSparing

LEMMA EraseSteps ==
  ASSUME EngineInv, NEW i \in LoopSlots, Erase(i)
  PROVE  Stepped
<1> DEFINE e == [Now EXCEPT !.loops[i] = Erased(@), !.rec.slot = IF @ = i THEN None ELSE @]
<1>1. BecomeAs(e, asked) /\ job.slot # i
  BY DEF Erase, Handle, Become, Mutable
<1>2. Orderly(e) /\ Heeds(Now, e) /\ \A j \in LoopSlots : j # i => e.loops[j] = Now.loops[j]
  BY EraseGives DEF EngineInv
<1> HIDE DEF e
<1>3. \A k \in LoopSlots : job.slot = k => Keeps(loops[k], e.loops[k])
  BY <1>1, <1>2, NowHas DEF Keeps
<1> QED BY <1>1, <1>2, <1>3, HeedsAsked, Becomes

LEMMA ImportSteps ==
  ASSUME EngineInv, NEW i \in LoopSlots, NEW n \in ImportLengths, ImportLoop(i, n)
  PROVE  Stepped
<1> DEFINE e == [Now EXCEPT !.loops[i] = [Release(@) EXCEPT
                     !.buffer = BufferFrames, !.len = n, !.offset = 0, !.position = 0,
                     !.mode = "Playing", !.synced = FALSE, !.alignment = 0]]
<1>1. BecomeAs(e, asked) /\ job.slot # i
  BY DEF ImportLoop, Handle, Become, Mutable
<1>2. Orderly(e) /\ Heeds(Now, e) /\ \A j \in LoopSlots : j # i => e.loops[j] = Now.loops[j]
  BY ImportGives DEF EngineInv
<1> HIDE DEF e
<1>3. \A k \in LoopSlots : job.slot = k => Keeps(loops[k], e.loops[k])
  BY <1>1, <1>2, NowHas DEF Keeps
<1> QED BY <1>1, <1>2, <1>3, HeedsAsked, Becomes

LEMMA MoveSteps ==
  ASSUME EngineInv, NEW from \in LoopSlots, NEW to \in LoopSlots, MoveLoop(from, to)
  PROVE  Stepped
<1> DEFINE e == [Now EXCEPT !.loops[from] = Now.loops[to], !.loops[to] = Now.loops[from],
                            !.rec = Moved(@, from, to)]
<1>1. BecomeAs(e, asked) /\ job.slot # from /\ job.slot # to /\ from # to
  BY NowHas DEF MoveLoop, Handle, Become, Mutable
<1>2. Orderly(e) /\ Heeds(Now, e) /\ \A j \in LoopSlots : j # from /\ j # to => e.loops[j] = Now.loops[j]
  BY <1>1, MoveGives DEF EngineInv
<1> HIDE DEF e
<1>3. \A k \in LoopSlots : job.slot = k => Keeps(loops[k], e.loops[k])
  BY <1>1, <1>2, NowHas DEF Keeps
<1> QED BY <1>1, <1>2, <1>3, HeedsAsked, Becomes

LEMMA PulseFromLoopSteps ==
  ASSUME EngineInv, NEW i \in LoopSlots, SetPulseFromLoop(i)
  PROVE  Stepped
<1> DEFINE e == [Now EXCEPT !.pulse = PulseOfLoop(@, Now.loops[i].len, Now.loops[i].position, Subdivision),
                            !.loops[i] = [@ EXCEPT !.synced = TRUE, !.beats = Subdivision, !.alignment = 0]]
<1>1. BecomeAs(e, asked)
  BY NowHas DEF SetPulseFromLoop, Handle, Become
<1>2. Orderly(e) /\ Spares(Now, e) /\ Heeds(Now, e)
  BY PulseFromLoopGives DEF EngineInv
<1> HIDE DEF e
<1> QED BY <1>1, <1>2, HeedsAsked, BecomesSparing

LEMMA ClockSteps ==
  ASSUME EngineInv,
         \/ \E n \in PulseLengths : DefinePulse(n)
         \/ \E newLen \in BOOLEAN, gap \in TapGaps : Tap(newLen, gap)
         \/ ClearPulse
  PROVE  Stepped
<1>1. Now.pulse = pulse /\ Beating(pulse) /\ pulse \in Pulses
  BY OrderlyHas, NowHas DEF EngineInv
<1>2. \E p : Beating(p) /\ BecomeAs([Now EXCEPT !.pulse = p], asked)
  <2>1. CASE \E n \in PulseLengths : DefinePulse(n)
    <3>1. PICK n \in PulseLengths : DefinePulse(n)
      BY <2>1
    <3>2. Beating(SetPulse(pulse, n))
      BY <1>1, EngineBounds, SetPulseBeats
    <3>3. BecomeAs([Now EXCEPT !.pulse = SetPulse(pulse, n)], asked)
      BY <1>1, <3>1 DEF DefinePulse, Handle, Become
    <3> QED BY <3>2, <3>3
  <2>2. CASE \E newLen \in BOOLEAN, gap \in TapGaps : Tap(newLen, gap)
    <3>1. PICK newLen \in BOOLEAN, gap \in TapGaps : Tap(newLen, gap)
      BY <2>2
    <3>2. Beating(TapPulse(pulse, newLen, gap))
      BY <1>1, EngineBounds, TapBeats
    <3>3. BecomeAs([Now EXCEPT !.pulse = TapPulse(pulse, newLen, gap)], asked)
      BY <1>1, <3>1 DEF Tap, Handle, Become
    <3> QED BY <3>2, <3>3
  <2>3. CASE ClearPulse
    <3>1. Beating(NoPulse(pulse))
      BY <1>1, NoPulseBeats
    <3>2. BecomeAs([Now EXCEPT !.pulse = NoPulse(pulse)], asked)
      BY <1>1, <2>3 DEF ClearPulse, Handle, Become
    <3> QED BY <3>1, <3>2
  <2> QED BY <2>1, <2>2, <2>3
<1>3. PICK p : Beating(p) /\ BecomeAs([Now EXCEPT !.pulse = p], asked)
  BY <1>2
<1> DEFINE e == [Now EXCEPT !.pulse = p]
<1>4. Orderly(e) /\ Spares(Now, e) /\ Heeds(Now, e)
  BY <1>3, ClockGives DEF EngineInv
<1>5. BecomeAs(e, asked)
  BY <1>3
<1> HIDE DEF e
<1> QED BY <1>4, <1>5, HeedsAsked, BecomesSparing

LEMMA DeleteSteps ==
  ASSUME EngineInv, DeletePulse
  PROVE  Stepped
<1> DEFINE e == [Now EXCEPT
       !.loops = [i \in LoopSlots |-> IF @[i].synced THEN Erased(@[i]) ELSE @[i]],
       !.rec.slot = IF @ # None /\ Now.loops[Now.rec.slot].synced THEN None ELSE @,
       !.pulse = NoPulse(@)]
<1>1. BecomeAs(e, asked) /\ ~Guarded
  BY NowHas DEF DeletePulse, Handle, Become, Drains, Guarded
<1>2. Orderly(e) /\ Heeds(Now, e)
  BY DeleteGives DEF EngineInv
<1> HIDE DEF e
<1> QED BY <1>1, <1>2, HeedsAsked, Becomes

\* What leaves the engine alone.
LEMMA LeavesEngine ==
  ASSUME EngineInv, UNCHANGED <<loops, rec, pulse, ready, asked>>
  PROVE  Stepped
<1>1. Now' = Now
  BY DEF Now
<1>2. EngineInv'
  BY <1>1 DEF EngineInv
<1>3. Spared
  BY DEF Spared, Keeps
<1>4. AskedInv => AskedInv'
  BY <1>1 DEF AskedInv
<1> QED BY <1>2, <1>3, <1>4 DEF Stepped

\* Every step keeps the engine orderly.
LEMMA EngineSteps ==
  ASSUME EngineInv, [Next]_vars
  PROVE  Stepped
<1>1. CASE Frame
  BY <1>1, FrameSteps
<1>2. CASE Refill
  BY <1>2, RefillSteps
<1>3. CASE StopRecord
  BY <1>3, StopSteps
<1>4. CASE DeletePulse
  BY <1>4, DeleteSteps
<1>5. CASE \/ \E n \in PulseLengths : DefinePulse(n)
           \/ \E newLen \in BOOLEAN, gap \in TapGaps : Tap(newLen, gap)
           \/ ClearPulse
  BY <1>5, ClockSteps
<1>6. CASE \/ CalibrateLatency \/ Calibrated \/ UNCHANGED vars
           \/ \E i \in LoopSlots : RequestLoopExport(i)
  <2>1. UNCHANGED <<loops, rec, pulse, ready, asked>>
    BY <1>6 DEF CalibrateLatency, Calibrated, RequestLoopExport, vars
  <2> QED BY <2>1, LeavesEngine
<1>7. ASSUME NEW i \in LoopSlots,
             \/ RecordLoop(i) \/ OverdubLoop(i) \/ Trigger(i) \/ Mute(i) \/ Unmute(i)
             \/ Erase(i) \/ SetPulseFromLoop(i)
             \/ \E n \in ImportLengths : ImportLoop(i, n)
             \/ \E to \in LoopSlots : MoveLoop(i, to)
      PROVE  Stepped
  BY <1>7, RecordSteps, OverdubSteps, TriggerSteps, MuteSteps, EraseSteps, PulseFromLoopSteps,
     ImportSteps, MoveSteps
<1> QED BY <1>1, <1>2, <1>3, <1>4, <1>5, <1>6, <1>7 DEF Next

--------------------------------------------------------------------------
(* Theorems                                                                *)

\* The engine stays in order, whatever the commands.
LEMMA EngineInvariant == Spec => []EngineInv
<1>1. Init => EngineInv
  BY StartsOrderly
<1>2. EngineInv /\ [Next]_vars => EngineInv'
  BY EngineSteps DEF Stepped
<1> QED BY <1>1, <1>2, PTL DEF Spec

\* Only the slot the recorder names records or overdubs: through every frame, stop, move,
\* erasure and change of the clock, also those that end a recording inside another handler.
THEOREM OneRecorderAlways == Spec => []OneRecorder
<1>1. EngineInv => OneRecorder
  BY NowHas DEF EngineInv, Orderly, OneAt, Live, OneRecorder
<1> QED BY <1>1, EngineInvariant, PTL

LEMMA EndsWhenAsked ==
  ASSUME EngineInv, AskedInv, Frame, asked = "no",
         NEW i \in LoopSlots, rec.slot = i, rec'.slot = None
  PROVE  loops[i].len = Stored(loops[i])
<1> DEFINE e == Elapsed(FinishFrame(Beat(Now), AllSlotsFrame(Beat(Now))))
<1>1. e.rec.slot = Now.rec.slot \/ (e.rec.slot = None /\ Full(Now.loops[Now.rec.slot]))
  BY FrameFollows DEF EngineInv, AskedInv
<1>2. BecomeAs(e, asked) /\ e \in Engines
  BY FrameGives, OrderlyHas DEF Frame, Become, EngineInv
<1> HIDE DEF e
<1>3. rec'.slot = e.rec.slot
  BY <1>2, BecomeIs
<1> QED BY <1>1, <1>3, NowHas, NoneIs DEF Full

\* No frame ends a recording or an overdub nobody asked to stop, unless it is full: no stop
\* that waits, no tail, no target and no fade of an earlier recording outlives it, through
\* every Move, Erase, Trigger and Import of the slot it was in and every change of the pulse.
THEOREM EndsOnlyWhenAskedAlways == Spec => EndsOnlyWhenAsked
<1>1. Init => EngineInv /\ AskedInv
  <2>1. Init => AskedInv
    BY NowHas DEF Init, IdleRecorder, AskedInv, Unasked
  <2> QED BY <2>1, StartsOrderly
<1>2. EngineInv /\ AskedInv /\ [Next]_vars => (EngineInv /\ AskedInv)'
  BY EngineSteps DEF Stepped
<1> DEFINE Ends == Frame => \A i \in LoopSlots :
             (/\ rec.slot = i /\ rec'.slot = None /\ asked = "no"
              /\ loops[i].mode \in {"Recording", "Overdubbing"})
             => loops[i].len = Stored(loops[i])
<1>3. EngineInv /\ AskedInv => [Ends]_vars
  BY EndsWhenAsked
<1>4. Spec => [][Ends]_vars
  <2> HIDE DEF Ends
  <2> QED BY <1>1, <1>2, <1>3, PTL DEF Spec
<1> QED BY <1>4 DEF EndsOnlyWhenAsked


\* No command of the instance gives the clock another length.
OnePulse == {"SetPulse", "TapPulse", "SetPulseFromLoop", "ClearPulse", "DeletePulse"} \cap Commands = {}

\* A synchronised recording has the frames since its downbeat, and one asked to stop once
\* the orders that end it at its beats and the tail.
TimeInv == EngineInv /\ AskedInv /\ Even(pulse) /\ InTime(Now, asked)

EndsWhole == \A i \in LoopSlots : EndedByFrame(i) /\ asked = "once" => WholeBeats(i)

\* What a step leaves of it.
Timely == Even(pulse)' /\ InTime(Now, asked)' /\ EndsWhole

LEMMA BecomesTimely ==
  ASSUME NEW e, Orderly(e), NEW how, BecomeAs(e, how), Even(e.pulse), InTime(e, how),
         \A i \in LoopSlots :
           /\ asked = "once" /\ e.rec.slot = None /\ rec.slot = i
           /\ loops[i].mode = "Recording" /\ e.loops[i].mode = "Playing" /\ loops[i].synced
           /\ e.loops[i].len = loops[i].len + 1
           => e.loops[i].len = e.loops[i].beats * pulse.frames + RecordingTailFrames
  PROVE  Timely
<1>1. e \in Engines
  BY OrderlyHas
<1>2. /\ Now' = e /\ loops' = e.loops /\ rec' = e.rec /\ pulse' = e.pulse
      /\ asked' = IF e.rec.slot = None THEN "no" ELSE how
  BY <1>1, BecomeIs
<1>3. Even(pulse)'
  BY <1>2
<1>4. InTime(e, IF e.rec.slot = None THEN "no" ELSE how)
  <2>1. CASE e.rec.slot = None
    <3>1. \A i \in LoopSlots : e.loops[i].mode # "Recording"
      BY <2>1, NoneIs DEF Orderly, OneAt, Live
    <3> QED BY <2>1, <3>1 DEF InTime
  <2>2. CASE e.rec.slot # None
    BY <2>2
  <2> QED BY <2>1, <2>2
<1>5. InTime(Now, asked)'
  BY <1>2, <1>4
<1>6. EndsWhole
  BY <1>2 DEF EndsWhole, EndedByFrame, WholeBeats
<1> QED BY <1>3, <1>5, <1>6 DEF Timely

\* A command that goes on with the recording, and leaves the recorder on.
LEMMA CarriesTimely ==
  ASSUME TimeInv, NEW e, Orderly(e), BecomeAs(e, asked), Carries(Now, e),
         \A i \in LoopSlots : rec.slot = i /\ e.rec.slot = None => e.loops[i].mode # "Playing"
  PROVE  Timely
<1>1. Even(e.pulse) /\ InTime(e, asked)
  BY CarriesInTime, NowHas DEF TimeInv
<1> QED BY <1>1, BecomesTimely

LEMMA FrameTimely ==
  ASSUME TimeInv, Frame
  PROVE  Timely
<1> DEFINE e == Elapsed(FinishFrame(Beat(Now), AllSlotsFrame(Beat(Now))))
<1>1. Orderly(e)
  BY FrameGives DEF TimeInv, EngineInv
<1>2. BecomeAs(e, asked)
  BY DEF Frame, Become
<1>3. /\ Even(e.pulse) /\ InTime(e, asked)
      /\ \A i \in LoopSlots :
           Now.pulse.active /\ Now.loops[i].mode = "Recording" /\ e.rec.slot = None
           /\ e.loops[i].len = Now.loops[i].len + 1 /\ asked = "once"
           => e.loops[i].len = e.loops[i].beats * Now.pulse.frames + RecordingTailFrames
  BY FrameInTime, NowHas DEF TimeInv, EngineInv
<1> HIDE DEF e
<1>4. ASSUME NEW i \in LoopSlots, asked = "once", loops[i].mode = "Recording"
      PROVE  pulse.active
  BY <1>4, NowHas DEF TimeInv, InTime, OnTime
<1> QED BY <1>1, <1>2, <1>3, <1>4, NowHas, BecomesTimely

LEMMA RecordTimely ==
  ASSUME TimeInv, NEW i \in LoopSlots, RecordLoop(i)
  PROVE  Timely
<1> DEFINE s == StopRecording(Now)
           e == Record(Provide(s, i), i)
<1>1. /\ Orderly(s) /\ Quiet(s) /\ Rested(s.rec) /\ SamePulse(pulse, s.pulse)
      /\ \A j \in LoopSlots : s.loops[j].len = loops[j].len
  BY StopOrders, NowHas DEF TimeInv, EngineInv
<1>2. BecomeAs(e, "no")
  BY DEF RecordLoop, HandleAs
<1> HIDE DEF s
<1>3. /\ Orderly(e) /\ e.pulse = s.pulse
      /\ \/ /\ e.rec.slot = None /\ Quiet(e)
            /\ \A j \in LoopSlots : e.loops[j].len = s.loops[j].len
         \/ /\ e.rec.slot = i
            /\ s.pulse.active /\ s.pulse.frames <= 2 * BlockFrames
                 => Stuck(e.loops[i]) \/ Beaten(e.pulse, e.rec, e.loops[i])
  BY <1>1, RecordGives DEF Orderly
<1> HIDE DEF e
<1>4. Even(e.pulse)
  BY <1>1, <1>3 DEF TimeInv, Even, SamePulse
<1>5. ASSUME NEW j \in LoopSlots, e.loops[j].mode = "Recording"
      PROVE  OnTime(e.pulse, e.rec, e.loops[j], "no")
  <2>1. e.rec.slot = j
    BY <1>3, <1>5 DEF Orderly, OneAt, Live
  <2>2. j = i
    BY <1>3, <1>5, <2>1 DEF Quiet, Live
  <2> QED BY <1>3, <1>4, <2>1, <2>2, NoneIs DEF OnTime, Even
<1>6. InTime(e, "no")
  BY <1>5 DEF InTime
<1>7. ASSUME NEW j \in LoopSlots, e.rec.slot = None
      PROVE  e.loops[j].len # loops[j].len + 1
  <2>1. e.loops[j].len = loops[j].len
    BY <1>1, <1>3, <1>7, NoneIs
  <2>2. e.loops[j].len \in Nat
    BY <1>3, OrderlyHas, Slots, LoopFields
  <2> QED BY <2>1, <2>2
<1> QED BY <1>2, <1>3, <1>4, <1>6, <1>7, BecomesTimely

LEMMA OverdubTimely ==
  ASSUME TimeInv, NEW i \in LoopSlots, OverdubLoop(i)
  PROVE  Timely
<1> DEFINE s == StopRecording(Now)
           e == Overdub(s, i)
<1>1. /\ Orderly(s) /\ Quiet(s) /\ Rested(s.rec) /\ SamePulse(pulse, s.pulse)
      /\ \A j \in LoopSlots : s.loops[j].len = loops[j].len
  BY StopOrders, NowHas DEF TimeInv, EngineInv
<1>2. BecomeAs(e, "no")
  BY DEF OverdubLoop, HandleAs
<1> HIDE DEF s
<1>3. Orderly(e) /\ Spares(s, e)
  BY <1>1, OverdubGives DEF Orderly
<1>4. SamePulse(s.pulse, e.pulse) /\ (e = s \/ e.rec.slot = i)
  BY <1>1, OverdubLeaves
<1> HIDE DEF e
<1>5. Even(e.pulse)
  BY <1>1, <1>4 DEF TimeInv, Even, SamePulse
<1>6. InTime(e, "no")
  <2>1. \A j \in LoopSlots : e.loops[j].mode # "Recording"
    BY <1>1, <1>3 DEF Quiet, Live, Spares, Keeps
  <2> QED BY <2>1 DEF InTime
<1>7. ASSUME NEW j \in LoopSlots, e.rec.slot = None
      PROVE  e.loops[j].len # loops[j].len + 1
  <2>1. e.loops[j].len = loops[j].len
    BY <1>1, <1>4, <1>7, NoneIs
  <2>2. e.loops[j].len \in Nat
    BY <1>3, OrderlyHas, Slots, LoopFields
  <2> QED BY <2>1, <2>2
<1> QED BY <1>2, <1>3, <1>5, <1>6, <1>7, BecomesTimely

LEMMA StopTimely ==
  ASSUME TimeInv, StopRecord
  PROVE  Timely
<1> DEFINE e == RequestStop(Now)
           how == AskedOnce(Now, asked)
<1>1. /\ Orderly(e)
      /\ e.rec.slot = None => \A j \in LoopSlots : e.loops[j].len <= loops[j].len
  BY RequestStopGives, NowHas DEF TimeInv, EngineInv, Orderly
<1>2. BecomeAs(e, how)
  BY NowHas DEF StopRecord, HandleAs, AskedOnce
<1>3. Even(e.pulse) /\ InTime(e, how)
  BY StopInTime, NowHas DEF TimeInv, EngineInv, AskedInv
<1> HIDE DEF e, how
<1>4. ASSUME NEW j \in LoopSlots, e.rec.slot = None
      PROVE  e.loops[j].len # loops[j].len + 1
  <2>1. e.loops[j].len <= loops[j].len
    BY <1>1, <1>4
  <2>2. e.loops[j].len \in Nat /\ loops[j].len \in Nat
    BY <1>1, OrderlyHas, Slots, LoopFields, NowHas DEF TimeInv, EngineInv
  <2> QED BY <2>1, <2>2
<1> QED BY <1>1, <1>2, <1>3, <1>4, BecomesTimely

LEMMA TriggerTimely ==
  ASSUME TimeInv, NEW i \in LoopSlots, Trigger(i)
  PROVE  Timely
<1> DEFINE e == Sound(Now, i, "Playing")
<1>1. Now.loops[i].len > 0 /\ BecomeAs(e, asked)
  BY NowHas DEF Trigger, Handle, Become
<1>2. Orderly(e)
  BY <1>1, TriggerGives DEF TimeInv, EngineInv, Orderly
<1>3. Carries(Now, e) /\ e.rec = rec
  BY SoundCarries, NowHas DEF TimeInv, EngineInv
<1> HIDE DEF e
<1> QED BY <1>1, <1>2, <1>3, NoneIs, CarriesTimely

LEMMA MuteTimely ==
  ASSUME TimeInv, NEW i \in LoopSlots, Mute(i) \/ Unmute(i)
  PROVE  Timely
<1> DEFINE e == [Now EXCEPT !.loops[i].mode = "Muted", !.loops[i].position = 0]
           g == [Now EXCEPT !.loops[i].mode = "Playing"]
<1>1. Now.loops[i].len > 0 /\ (BecomeAs(e, asked) \/ BecomeAs(g, asked))
  BY NowHas DEF Mute, Unmute, Handle, Become
<1>2. Orderly(e) /\ Orderly(g)
  BY <1>1, MuteGives DEF TimeInv, EngineInv
<1>3. Carries(Now, e) /\ Carries(Now, g) /\ e.rec = rec /\ g.rec = rec
  BY MuteCarries, NowHas DEF TimeInv, EngineInv
<1> HIDE DEF e, g
<1> QED BY <1>1, <1>2, <1>3, NoneIs, CarriesTimely

LEMMA EraseTimely ==
  ASSUME TimeInv, NEW i \in LoopSlots, Erase(i)
  PROVE  Timely
<1> DEFINE e == [Now EXCEPT !.loops[i] = Erased(@), !.rec.slot = IF @ = i THEN None ELSE @]
<1>1. BecomeAs(e, asked)
  BY DEF Erase, Handle, Become
<1>2. Orderly(e)
  BY EraseGives DEF TimeInv, EngineInv
<1>3. Carries(Now, e) /\ e.loops[i].mode # "Playing" /\ (rec.slot = i \/ e.rec.slot = rec.slot)
  BY EraseCarries, NowHas DEF TimeInv, EngineInv
<1> HIDE DEF e
<1>4. \A j \in LoopSlots : rec.slot = j /\ e.rec.slot = None => e.loops[j].mode # "Playing"
  BY <1>3, NoneIs
<1> QED BY <1>1, <1>2, <1>3, <1>4, CarriesTimely

LEMMA ImportTimely ==
  ASSUME TimeInv, NEW i \in LoopSlots, NEW n \in ImportLengths, ImportLoop(i, n)
  PROVE  Timely
<1> DEFINE e == [Now EXCEPT !.loops[i] = [Release(@) EXCEPT
                     !.buffer = BufferFrames, !.len = n, !.offset = 0, !.position = 0,
                     !.mode = "Playing", !.synced = FALSE, !.alignment = 0]]
<1>1. BecomeAs(e, asked)
  BY DEF ImportLoop, Handle, Become
<1>2. Orderly(e)
  BY ImportGives DEF TimeInv, EngineInv
<1>3. Carries(Now, e) /\ e.rec = rec
  BY ImportCarries, NowHas DEF TimeInv, EngineInv
<1> HIDE DEF e
<1> QED BY <1>1, <1>2, <1>3, NoneIs, CarriesTimely

LEMMA MoveTimely ==
  ASSUME TimeInv, NEW from \in LoopSlots, NEW to \in LoopSlots, MoveLoop(from, to)
  PROVE  Timely
<1> DEFINE e == [Now EXCEPT !.loops[from] = Now.loops[to], !.loops[to] = Now.loops[from],
                            !.rec = Moved(@, from, to)]
<1>1. BecomeAs(e, asked) /\ from # to
  BY NowHas DEF MoveLoop, Handle, Become
<1>2. Orderly(e)
  BY <1>1, MoveGives DEF TimeInv, EngineInv
<1>3. Carries(Now, e) /\ (rec.slot # None => e.rec.slot # None)
  BY <1>1, MoveCarries, NowHas DEF TimeInv, EngineInv
<1> HIDE DEF e
<1> QED BY <1>1, <1>2, <1>3, NoneIs, CarriesTimely

\* What leaves the loops, the recorder and the clock alone.
LEMMA LeavesTimely ==
  ASSUME TimeInv, UNCHANGED <<loops, rec, pulse, asked>>
  PROVE  Timely
<1>1. Even(pulse)'
  BY DEF TimeInv
<1>2. Now'.loops = Now.loops /\ Now'.rec = Now.rec /\ Now'.pulse = Now.pulse
  BY DEF Now
<1>3. InTime(Now, asked)'
  BY <1>2 DEF TimeInv, InTime
<1>4. EndsWhole
  <2>1. ASSUME NEW i \in LoopSlots PROVE ~EndedByFrame(i)
    BY NoneIs DEF EndedByFrame
  <2> QED BY <2>1 DEF EndsWhole
<1> QED BY <1>1, <1>3, <1>4 DEF Timely

LEMMA TimeSteps ==
  ASSUME TimeInv, OnePulse, [Next]_vars
  PROVE  Timely
<1>1. CASE Frame
  BY <1>1, FrameTimely
<1>2. CASE StopRecord
  BY <1>2, StopTimely
<1>3. CASE \/ Refill \/ CalibrateLatency \/ Calibrated \/ UNCHANGED vars
           \/ \E i \in LoopSlots : RequestLoopExport(i)
  <2>1. UNCHANGED <<loops, rec, pulse, asked>>
    BY <1>3 DEF Refill, CalibrateLatency, Calibrated, RequestLoopExport, vars
  <2> QED BY <2>1, LeavesTimely
<1>4. ASSUME NEW i \in LoopSlots,
             \/ RecordLoop(i) \/ OverdubLoop(i) \/ Trigger(i) \/ Mute(i) \/ Unmute(i) \/ Erase(i)
             \/ \E n \in ImportLengths : ImportLoop(i, n)
             \/ \E to \in LoopSlots : MoveLoop(i, to)
      PROVE  Timely
  BY <1>4, RecordTimely, OverdubTimely, TriggerTimely, MuteTimely, EraseTimely, ImportTimely, MoveTimely
<1>5. ASSUME \/ ClearPulse \/ DeletePulse
             \/ \E n \in PulseLengths : DefinePulse(n)
             \/ \E newLen \in BOOLEAN, gap \in TapGaps : Tap(newLen, gap)
             \/ \E i \in LoopSlots : SetPulseFromLoop(i)
      PROVE  FALSE
  BY <1>5 DEF OnePulse, ClearPulse, DeletePulse, DefinePulse, Tap, SetPulseFromLoop, Drains
<1> QED BY <1>1, <1>2, <1>3, <1>4, <1>5 DEF Next

LEMMA StartsInTime ==
  ASSUME StartPulse <= 2 * BlockFrames
  PROVE  Init => TimeInv
<1> SUFFICES ASSUME Init PROVE TimeInv
  OBVIOUS
<1>1. EngineInv /\ AskedInv
  <2>1. AskedInv
    BY NowHas DEF Init, IdleRecorder, AskedInv, Unasked
  <2> QED BY <2>1, StartsOrderly
<1>2. Even(pulse)
  <2>1. CASE StartPulse = 0
    BY <2>1 DEF Init, IdlePulse, Even
  <2>2. CASE StartPulse # 0
    <3>1. Larger(StartPulse, 1) = StartPulse
      BY <2>2, EngineBounds DEF Larger
    <3>2. pulse.frames = StartPulse /\ ~pulse.suppressed
      BY <2>2, <3>1 DEF Init, IdlePulse, SetPulse
    <3> QED BY <3>2 DEF Even
  <2> QED BY <2>1, <2>2
<1>3. InTime(Now, asked)
  <2>1. \A i \in LoopSlots : loops[i].mode = "Empty"
    BY DEF Init, EmptyLoop
  <2> QED BY <2>1, NowHas DEF InTime
<1> QED BY <1>1, <1>2, <1>3 DEF TimeInv

\* A synchronised recording that is asked to stop once, after its first frame, and is ended
\* by a frame has the frames of its beats and the tail, however its start and its stop lie in
\* their beats, through every Move, Trigger and Erase around it, for as long as the pulse
\* keeps its length.  The beat is no longer than two blocks: the input of its first half,
\* which a recording begins with, must be in the one block that it has for sure.
THEOREM RecordsWholeBeatsAlways ==
  ASSUME OnePulse, StartPulse <= 2 * BlockFrames
  PROVE  Spec => RecordsWholeBeats
<1>1. Init => TimeInv
  BY StartsInTime
<1>2. TimeInv /\ [Next]_vars => TimeInv'
  BY EngineSteps, TimeSteps DEF Stepped, Timely, TimeInv
<1>3. TimeInv /\ [Next]_vars => [EndsWhole]_vars
  BY TimeSteps DEF Timely
<1>4. Spec => [][EndsWhole]_vars
  <2> HIDE DEF EndsWhole
  <2> QED BY <1>1, <1>2, <1>3, PTL DEF Spec
<1> QED BY <1>4 DEF RecordsWholeBeats, EndsWhole

\* The long cycle covers every synchronised loop, also the recorded one once it has its beats,
\* which it gets when it is asked to stop.
CycleInv == /\ EngineInv /\ Covered(Now) /\ Attended(Now)
            /\ asked = "no" => Uncommitted(Now)

\* Nobody asks a recording to stop twice, or plays, silences or replaces the loop meanwhile.
AskedSimply == {"StopAgain", "DuringRecording"} \cap Commands = {}

LEMMA BecomesCycling ==
  ASSUME NEW e, Orderly(e), NEW how, BecomeAs(e, how), Covered(e), Attended(e),
         how = "no" => Uncommitted(e)
  PROVE  CycleInv'
<1>1. e \in Engines
  BY OrderlyHas
<1>2. Now' = e /\ asked' = IF e.rec.slot = None THEN "no" ELSE how
  BY <1>1, BecomeIs
<1>3. asked' = "no" => Uncommitted(e)
  BY <1>2 DEF Uncommitted
<1> QED BY <1>2, <1>3 DEF CycleInv, EngineInv

\* What the recorder hears nothing of.
LEMMA CycledSteps ==
  ASSUME CycleInv, NEW e, Orderly(e), BecomeAs(e, asked), Cycled(Now, e)
  PROVE  CycleInv'
<1>1. Covered(e) /\ Attended(e) /\ (asked = "no" => Uncommitted(e))
  BY CycledKeeps DEF CycleInv, Cycled
<1> QED BY <1>1, BecomesCycling

LEMMA FrameCycles ==
  ASSUME CycleInv, Frame
  PROVE  CycleInv'
<1> DEFINE e == Elapsed(FinishFrame(Beat(Now), AllSlotsFrame(Beat(Now))))
<1>1. Orderly(e) /\ Cycled(Now, e)
  BY FrameGives DEF CycleInv, EngineInv
<1>2. BecomeAs(e, asked)
  BY DEF Frame, Become
<1> HIDE DEF e
<1> QED BY <1>1, <1>2, CycledSteps

\* The recording before is in the cycle when the next one begins.
LEMMA RecordCycles ==
  ASSUME CycleInv, NEW i \in LoopSlots, RecordLoop(i) \/ OverdubLoop(i)
  PROVE  CycleInv'
<1> DEFINE s == StopRecording(Now)
           e == Record(Provide(s, i), i)
           g == Overdub(s, i)
<1>1. Orderly(s) /\ Quiet(s) /\ Rested(s.rec) /\ Covered(s)
  BY StopOrders DEF CycleInv, EngineInv, Cycled
<1>2. BecomeAs(e, "no") \/ BecomeAs(g, "no")
  BY DEF RecordLoop, OverdubLoop, HandleAs
<1> HIDE DEF s
<1>3. Orderly(e) /\ Cycling(e)
  BY <1>1, RecordGives DEF Orderly
<1>4. Orderly(g) /\ Cycling(g)
  BY <1>1, OverdubGives DEF Orderly
<1> HIDE DEF e, g
<1> QED BY <1>2, <1>3, <1>4, BecomesCycling DEF Cycling

LEMMA StopCycles ==
  ASSUME CycleInv, AskedSimply, StopRecord
  PROVE  CycleInv'
<1> DEFINE e == RequestStop(Now)
           how == IF asked = "no" THEN IF rec.slot # None /\ loops[rec.slot].len > 0 THEN "once" ELSE "early"
                  ELSE IF asked = "early" THEN "early" ELSE "again"
<1>1. BecomeAs(e, how) /\ how # "no"
  BY DEF StopRecord, HandleAs
<1>2. asked = "no"
  BY DEF StopRecord, AskedSimply
<1>3. Orderly(e) /\ Covered(e) /\ Attended(e)
  BY <1>2, RequestStopGives DEF CycleInv, EngineInv, Orderly, Cycling
<1> HIDE DEF e, how
<1> QED BY <1>1, <1>3, BecomesCycling

LEMMA SoundCycles ==
  ASSUME CycleInv, AskedSimply, NEW i \in LoopSlots, Trigger(i) \/ Mute(i) \/ Unmute(i)
  PROVE  CycleInv'
<1> DEFINE e == Sound(Now, i, "Playing")
           f == [Now EXCEPT !.loops[i].mode = "Muted", !.loops[i].position = 0]
           g == [Now EXCEPT !.loops[i].mode = "Playing"]
<1>1. Now.loops[i].len > 0 /\ (BecomeAs(e, asked) \/ BecomeAs(f, asked) \/ BecomeAs(g, asked))
  BY NowHas DEF Trigger, Mute, Unmute, Handle, Become
<1>2. Now.rec.slot # i
  BY NowHas DEF Trigger, Mute, Unmute, Aimed, AskedSimply
<1>3. Orderly(e) /\ Cycled(Now, e)
  BY <1>1, <1>2, TriggerGives DEF CycleInv, EngineInv, Orderly
<1>4. Orderly(f) /\ Orderly(g)
  BY <1>1, MuteGives DEF CycleInv, EngineInv
<1>5. Cycled(Now, f) /\ Cycled(Now, g)
  BY <1>2, MuteCarries DEF CycleInv, EngineInv
<1> HIDE DEF e, f, g
<1> QED BY <1>1, <1>3, <1>4, <1>5, CycledSteps

LEMMA EraseCycles ==
  ASSUME CycleInv, NEW i \in LoopSlots, Erase(i)
  PROVE  CycleInv'
<1> DEFINE e == [Now EXCEPT !.loops[i] = Erased(@), !.rec.slot = IF @ = i THEN None ELSE @]
<1>1. BecomeAs(e, asked)
  BY DEF Erase, Handle, Become
<1>2. Orderly(e) /\ Cycled(Now, e)
  BY EraseGives, EraseCarries DEF CycleInv, EngineInv
<1> HIDE DEF e
<1> QED BY <1>1, <1>2, CycledSteps

LEMMA ImportCycles ==
  ASSUME CycleInv, AskedSimply, NEW i \in LoopSlots, NEW n \in ImportLengths, ImportLoop(i, n)
  PROVE  CycleInv'
<1> DEFINE e == [Now EXCEPT !.loops[i] = [Release(@) EXCEPT
                     !.buffer = BufferFrames, !.len = n, !.offset = 0, !.position = 0,
                     !.mode = "Playing", !.synced = FALSE, !.alignment = 0]]
<1>1. BecomeAs(e, asked) /\ Now.rec.slot # i
  BY NowHas DEF ImportLoop, Handle, Become, Aimed, AskedSimply
<1>2. Orderly(e)
  BY ImportGives DEF CycleInv, EngineInv
<1>3. Cycled(Now, e)
  BY <1>1, ImportCarries DEF CycleInv, EngineInv
<1> HIDE DEF e
<1> QED BY <1>1, <1>2, <1>3, CycledSteps

LEMMA MoveCycles ==
  ASSUME CycleInv, NEW from \in LoopSlots, NEW to \in LoopSlots, MoveLoop(from, to)
  PROVE  CycleInv'
<1> DEFINE e == [Now EXCEPT !.loops[from] = Now.loops[to], !.loops[to] = Now.loops[from],
                            !.rec = Moved(@, from, to)]
<1>1. BecomeAs(e, asked) /\ from # to
  BY NowHas DEF MoveLoop, Handle, Become
<1>2. Orderly(e)
  BY <1>1, MoveGives DEF CycleInv, EngineInv
<1>3. Covered(e) /\ Attended(e) /\ (asked = "no" => Uncommitted(e))
  BY <1>1, MoveCarries DEF CycleInv, EngineInv
<1> HIDE DEF e
<1> QED BY <1>1, <1>2, <1>3, BecomesCycling

\* What leaves the loops, the recorder and the clock alone.
LEMMA LeavesCycles ==
  ASSUME CycleInv, EngineInv', UNCHANGED <<loops, rec, pulse, asked>>
  PROVE  CycleInv'
<1>1. Now'.loops = Now.loops /\ Now'.rec = Now.rec /\ Now'.pulse = Now.pulse
  BY DEF Now
<1> QED BY <1>1 DEF CycleInv, Covered, Attended, Uncommitted

LEMMA CycleSteps ==
  ASSUME CycleInv, OnePulse, AskedSimply, [Next]_vars
  PROVE  CycleInv'
<1>1. CASE Frame
  BY <1>1, FrameCycles
<1>2. CASE StopRecord
  BY <1>2, StopCycles
<1>3. CASE \/ Refill \/ CalibrateLatency \/ Calibrated \/ UNCHANGED vars
           \/ \E i \in LoopSlots : RequestLoopExport(i)
  <2>1. UNCHANGED <<loops, rec, pulse, asked>>
    BY <1>3 DEF Refill, CalibrateLatency, Calibrated, RequestLoopExport, vars
  <2>2. EngineInv'
    BY EngineSteps DEF CycleInv, Stepped
  <2> QED BY <2>1, <2>2, LeavesCycles
<1>4. ASSUME NEW i \in LoopSlots,
             \/ RecordLoop(i) \/ OverdubLoop(i) \/ Trigger(i) \/ Mute(i) \/ Unmute(i) \/ Erase(i)
             \/ \E n \in ImportLengths : ImportLoop(i, n)
             \/ \E to \in LoopSlots : MoveLoop(i, to)
      PROVE  CycleInv'
  BY <1>4, RecordCycles, SoundCycles, EraseCycles, ImportCycles, MoveCycles
<1>5. ASSUME \/ ClearPulse \/ DeletePulse
             \/ \E n \in PulseLengths : DefinePulse(n)
             \/ \E newLen \in BOOLEAN, gap \in TapGaps : Tap(newLen, gap)
             \/ \E i \in LoopSlots : SetPulseFromLoop(i)
      PROVE  FALSE
  BY <1>5 DEF OnePulse, ClearPulse, DeletePulse, DefinePulse, Tap, SetPulseFromLoop, Drains
<1> QED BY <1>1, <1>2, <1>3, <1>4, <1>5 DEF Next

LEMMA StartsCycling == Init => CycleInv
<1> SUFFICES ASSUME Init PROVE CycleInv
  OBVIOUS
<1>1. EngineInv
  BY StartsOrderly
<1>2. rec.slot = None /\ \A i \in LoopSlots : loops[i].mode = "Empty" /\ loops[i].len = 0
  BY DEF Init, EmptyLoop, IdleRecorder
<1> QED BY <1>1, <1>2, NowHas DEF CycleInv, Covered, Sounds, Attended, Uncommitted

\* A synchronised loop that plays has a whole number of turns in the long cycle, which every
\* loop's phase is counted in: through every recording and overdub that ends, whoever ends
\* it, every Trigger, and every Move, Erase and Import around it, for as long as the clock
\* keeps its length and the cycle is below the largest number.  A recording is asked to stop
\* once, and nothing plays its slot meanwhile: a second stop may give it beats more, and the
\* cycle those of the first; so may a stop of a recording that a Trigger plays already.
THEOREM CycleCoversLoopsAlways ==
  ASSUME OnePulse, AskedSimply
  PROVE  Spec => [](pulse.longLength # U32Max => CycleCoversLoops)
<1>1. Init => CycleInv
  BY StartsCycling
<1>2. CycleInv /\ [Next]_vars => CycleInv'
  BY CycleSteps
<1>3. CycleInv => (pulse.longLength # U32Max => CycleCoversLoops)
  <2> SUFFICES ASSUME CycleInv, pulse.longLength # U32Max, pulse.active, NEW i \in LoopSlots,
                      loops[i].mode = "Playing", loops[i].synced, loops[i].beats # 0
               PROVE  pulse.longLength % loops[i].beats = 0
    BY DEF CycleCoversLoops
  <2>1. loops[i].len # 0
    <3>1. Provided(Now.loops[i]) /\ Now.loops[i].len \in Nat
      BY OrderlyHas, Slots, LoopFields DEF CycleInv, EngineInv, Orderly, Healthy, Working
    <3> QED BY <3>1, NowHas DEF Provided
  <2>2. InCycle(Now.pulse, Now.loops[i].beats)
    BY <2>1, NowHas DEF CycleInv, Covered, Sounds
  <2> QED BY <2>2, NowHas DEF InCycle
<1> QED BY <1>1, <1>2, <1>3, PTL DEF Spec

LEMMA OrderlyPlays ==
  ASSUME EngineInv, Supplied
  PROVE  Playable
<1>1. Beating(pulse) /\ \A i \in LoopSlots : loops[i] \in LoopRecords /\ Provided(loops[i]) /\ Inside(loops[i])
  <2>1. Beating(Now.pulse) /\ Now \in Engines
        /\ \A i \in LoopSlots : Provided(Now.loops[i]) /\ Inside(Now.loops[i])
    BY OrderlyHas DEF EngineInv, Orderly, Healthy, Working
  <2> QED BY <2>1, Slots, NowHas
<1>2. pulse.position < Larger(pulse.frames, 1) /\ pulse.longCount < pulse.longLength
  BY <1>1, PulseFields DEF Beating
<1>3. ASSUME NEW i \in LoopSlots, loops[i].mode \in {"Playing", "Overdubbing"}
      PROVE  loops[i].len \in 1..Stored(loops[i]) /\ loops[i].position < loops[i].len
  <2>1. /\ loops[i].len \in Nat /\ Stored(loops[i]) \in Nat
        /\ loops[i].len > 0 /\ loops[i].len <= Stored(loops[i])
    BY <1>1, <1>3, LoopFields, WholeIs DEF Provided
  <2> QED BY <1>1, <2>1 DEF Inside
<1> QED BY <1>2, <1>3 DEF Playable

\* What plays or is overdubbed has frames, all of them stored, and is at one of them, as
\* long as the worker replaces what the callback takes before its next frame.
THEOREM PlayableAlways ==
  ASSUME Supplied
  PROVE  Spec => []Playable
<1>1. EngineInv => Playable
  BY OrderlyPlays
<1> QED BY <1>1, EngineInvariant, PTL

LEMMA JobSteps ==
  ASSUME EngineInv, JobInv, [Next]_vars
  PROVE  JobInv'
<1>1. CASE UNCHANGED job
  BY <1>1 DEF JobInv
<1>2. CASE Frame /\ ~UNCHANGED job
  <2>1. /\ job.slot # None
        /\ job' = IF job.cursor + CopyFrames < job.frames THEN [job EXCEPT !.cursor = @ + CopyFrames] ELSE NoJob
    BY <1>2 DEF Frame, AdvanceExport
  <2>2. CASE job.cursor + CopyFrames < job.frames
    <3>1. job.cursor + CopyFrames \in Nat
      BY EngineBounds DEF JobInv, Jobs
    <3>2. job' \in Jobs /\ job'.slot = job.slot
      BY <2>1, <2>2, <3>1 DEF JobInv, Jobs
    <3> QED BY <3>2 DEF JobInv
  <2>3. CASE ~(job.cursor + CopyFrames < job.frames)
    BY <2>1, <2>3, NoneIs DEF NoJob, Jobs, JobInv
  <2> QED BY <2>2, <2>3
<1>3. CASE \E i \in LoopSlots : RequestLoopExport(i)
  <2>1. PICK i \in LoopSlots : RequestLoopExport(i)
    BY <1>3
  <2>2. loops[i] \in LoopRecords
    BY OrderlyHas, Slots, NowHas DEF EngineInv
  <2>3. job' \in Jobs /\ "RequestLoopExport" \in Commands
    BY <2>1, <2>2, LoopFields, NoneIs DEF RequestLoopExport, Drains, Jobs
  <2> QED BY <2>3 DEF JobInv
<1> QED BY <1>1, <1>2, <1>3 DEF Next, vars, Refill, StopRecord, ClearPulse, DeletePulse, CalibrateLatency,
      Calibrated, DefinePulse, Tap, RecordLoop, OverdubLoop, Trigger, Mute, Unmute, Erase,
      SetPulseFromLoop, ImportLoop, MoveLoop, Handle, HandleAs

\* What the export has still to copy stays where it is.
LEMMA ExportSteps ==
  ASSUME EngineInv, JobInv, ExportFits, Guarded, [Next]_vars
  PROVE  ExportFits'
<1>1. Spared /\ job \in Jobs /\ (job.slot = None \/ job.slot \in LoopSlots)
  <2>1. job.slot \in 0..NSlots
    BY DEF JobInv, Jobs
  <2>2. job.slot = None \/ job.slot \in LoopSlots
    BY <2>1, EngineBounds DEF None, LoopSlots
  <2> QED BY <2>2, EngineSteps DEF Stepped, JobInv
<1>2. ASSUME job'.slot = job.slot, job'.frames = job.frames, job.slot # None => job'.cursor < job.frames
      PROVE  ExportFits'
  <2>1. CASE job.slot = None
    BY <1>2, <2>1 DEF ExportFits
  <2>2. CASE job.slot # None
    <3>1. Keeps(loops[job.slot], loops'[job.slot])
      BY <1>1, <2>2 DEF Spared
    <3>2. loops'[job.slot].mode # "Recording" /\ Stored(loops'[job.slot]) = Stored(loops[job.slot])
      BY <2>2, <3>1 DEF ExportFits, Keeps
    <3> QED BY <1>2, <2>2, <3>2 DEF ExportFits
  <2> QED BY <2>1, <2>2
<1>3. CASE UNCHANGED job
  BY <1>2, <1>3 DEF ExportFits
<1>4. CASE Frame /\ ~UNCHANGED job
  <2>1. job' = IF job.cursor + CopyFrames < job.frames THEN [job EXCEPT !.cursor = @ + CopyFrames] ELSE NoJob
    BY <1>4 DEF Frame, AdvanceExport
  <2>2. CASE job.cursor + CopyFrames < job.frames
    <3>1. job'.slot = job.slot /\ job'.frames = job.frames /\ job'.cursor < job.frames
      BY <1>1, <2>1, <2>2 DEF Jobs
    <3> QED BY <1>2, <3>1
  <2>3. CASE ~(job.cursor + CopyFrames < job.frames)
    BY <2>1, <2>3 DEF NoJob, ExportFits
  <2> QED BY <2>2, <2>3
<1>5. CASE \E i \in LoopSlots : RequestLoopExport(i)
  <2>1. PICK i \in LoopSlots : RequestLoopExport(i)
    BY <1>5
  <2>2. loops[i] \in LoopRecords /\ Provided(loops[i])
    <3>1. Now \in Engines /\ Provided(Now.loops[i])
      BY OrderlyHas DEF EngineInv, Working
    <3> QED BY <3>1, Slots, NowHas
  <2>3. /\ job'.slot = i /\ job'.cursor = 0 /\ job'.frames = loops[i].len /\ loops' = loops
        /\ loops[i].len > 0 /\ loops[i].mode # "Recording"
    BY <2>1 DEF RequestLoopExport
  <2>4. Supplied => loops[i].len <= Stored(loops[i])
    BY <2>2 DEF Provided
  <2> QED BY <2>3, <2>4 DEF ExportFits
<1> QED BY <1>3, <1>4, <1>5 DEF Next, vars, Refill, StopRecord, ClearPulse, DeletePulse, CalibrateLatency,
      Calibrated, DefinePulse, Tap, RecordLoop, OverdubLoop, Trigger, Mute, Unmute, Erase,
      SetPulseFromLoop, ImportLoop, MoveLoop, Handle, HandleAs

\* What the callback is about to read exists: what plays and, where no command takes the
\* storage of a loop that is being exported, what is left to export.
THEOREM ReadsInsideAlways ==
  ASSUME Supplied, Guarded \/ "RequestLoopExport" \notin Commands
  PROVE  Spec => []ReadsInside
<1> DEFINE Inv == EngineInv /\ JobInv /\ (Guarded => ExportFits)
<1>1. Init => Inv
  BY StartsOrderly
<1>2. Inv /\ [Next]_vars => Inv'
  BY EngineSteps, JobSteps, ExportSteps DEF Stepped, Guarded
<1>3. Inv => ReadsInside
  <2> SUFFICES ASSUME Inv PROVE ReadsInside
    OBVIOUS
  <2>1. Playable
    BY OrderlyPlays
  <2>2. ExportReadsInside
    <3>1. CASE Guarded
      BY <3>1 DEF ExportFits, ExportReadsInside
    <3>2. CASE ~Guarded
      BY <3>2 DEF JobInv, ExportReadsInside
    <3> QED BY <3>1, <3>2
  <2> QED BY <2>1, <2>2 DEF ReadsInside
<1> QED BY <1>1, <1>2, <1>3, PTL DEF Spec
=========================================================================
