------------------------- MODULE LightningStormProofs -------------------------
(***************************************************************************)
(* Proofs about LightningStorm, for every range of lengths, strengths,     *)
(* pauses and delays that its assumption allows: the types, a flash that   *)
(* is steady until it fades, and the dark pause before every strike.       *)
(***************************************************************************)
EXTENDS LightningStorm, WellFoundedInduction, TLAPS

-----------------------------------------------------------------------------
(* Lemmas about the operators *)

\* A part of a number, at most the whole of it, is at most the number.
LEMMA PartOf ==
    ASSUME NEW n \in Nat, NEW whole \in Nat \ {0}, NEW part \in 0..whole
    PROVE  (n * part) \div whole \in 0..n
<1>1. n * part \in Nat /\ n * part <= n * whole
  BY SMTT(30)
<1> DEFINE q == (n * part) \div whole
<1>2. q \in Nat /\ q * whole <= n * part
  BY <1>1, SMTT(30)
<1>3. q <= n
  <2>1. q * whole <= n * whole
    BY <1>1, <1>2, SMTT(30)
  <2>2. SUFFICES ASSUME q > n PROVE FALSE
    BY <1>2
  <2>3. q * whole >= (n + 1) * whole
    BY <1>2, <2>2, SMTT(30)
  <2> QED BY <2>1, <2>3, SMTT(30)
<1> QED BY <1>2, <1>3

\* A set of numbers that is not empty has a least one.
LEMMA LeastIs ==
    ASSUME NEW S \in SUBSET Nat, S # {}
    PROVE  Least(S) \in S /\ \A y \in S : Least(S) <= y
<1> DEFINE R == OpToRel(<, Nat)
<1>1. PICK x \in S : \A y \in S : ~(<<y, x>> \in R)
  BY NatLessThanWellFounded, WFMin
<1>2. \A a, b \in Nat : a < b => <<a, b>> \in R
  BY Zenon DEF OpToRel
<1> HIDE DEF R
<1>3. \A y \in S : x <= y
  <2> TAKE y \in S
  <2>1. ~(y < x)
    BY <1>1, <1>2
  <2> QED BY <2>1
<1> QED BY <1>3 DEF Least

\* No gap is shorter than the least one.
LEMMA GapIs == MinGap \in Nat \ {0} /\ \A gap \in Gaps : MinGap <= gap
BY LeastIs, StormAssumption DEF MinGap

\* No step comes later than the latest.
LEMMA LagIs == Greatest(Lags) \in Nat \ {0} /\ \A d \in Lags : d <= Greatest(Lags)
BY StormAssumption DEF Greatest

\* Flickers are between the ambient light and the flash's intensity.
LEMMA SpikesType ==
    ASSUME NEW k \in Kinds, NEW i \in 0..Full
    PROVE  /\ Spikes(k, i) \subseteq Ambient..Full
           /\ Spikes(k, i) # {}
<1> DEFINE lowest == (i * Floor[k]) \div 100
<1>1. Floor[k] \in 0..100 /\ Full \in Nat /\ Ambient \in 0..Full
  BY StormAssumption
<1>2. lowest \in 0..i
  <2>1. i \in Nat /\ 100 \in Nat \ {0}
    OBVIOUS
  <2> QED BY <1>1, <2>1, PartOf
<1> HIDE DEF lowest
<1>3. \A l \in lowest..i : (IF l > Ambient THEN l ELSE Ambient) \in Ambient..Full
  BY <1>1, <1>2
<1>4. i \in lowest..i
  BY <1>2
<1> QED BY <1>3, <1>4 DEF Spikes, lowest

\* Every flicker is at least the least one.
LEMMA SpikesLeast ==
    ASSUME NEW k \in Kinds, NEW i \in 0..Full
    PROVE  /\ Least(Spikes(k, i)) \in Nat
           /\ \A l \in Spikes(k, i) : Least(Spikes(k, i)) <= l
<1>1. Spikes(k, i) \subseteq Ambient..Full /\ Spikes(k, i) # {}
  BY SpikesType
<1>2. Ambient..Full \subseteq Nat
  BY StormAssumption
<1>3. Spikes(k, i) \in SUBSET Nat
  BY <1>1, <1>2
<1>4. PICK S \in SUBSET Nat : S = Spikes(k, i)
  BY <1>3
<1>5. Least(S) \in S /\ \A y \in S : Least(S) <= y
  BY <1>1, <1>4, LeastIs
<1> QED BY <1>4, <1>5

\* A fade keeps the light at or above the ambient light and under the flash.
LEMMA FadedType ==
    ASSUME NEW k \in Kinds, NEW l \in Ambient..Full, NEW left \in Nat
    PROVE  Faded(l, k, left) \in Ambient..Full
<1>1. Full \in Nat /\ Ambient \in 0..Full /\ FadeLen[k] \in Nat \ {0}
  BY StormAssumption
<1>2. CASE left < FadeLen[k]
  <2>1. l - Ambient \in Nat /\ left \in 0..FadeLen[k]
    BY <1>1, <1>2
  <2>2. ((l - Ambient) * left) \div FadeLen[k] \in 0..(l - Ambient)
    BY <1>1, <2>1, PartOf
  <2> QED BY <1>1, <1>2, <2>2 DEF Faded
<1> QED BY <1>1, <1>2 DEF Faded

\* Time that is left grows shorter, to nothing at the least.
LEMMA LaterType ==
    ASSUME NEW left \in Nat, NEW d \in Nat
    PROVE  /\ Later(left, d) \in 0..left
           /\ left <= d => Later(left, d) = 0
           /\ left > d => Later(left, d) = left - d
BY DEF Later

\* The history keeps its type.
LEMMA DarkForType ==
    ASSUME NEW d \in Nat, dark \in 0..MinGap, shown \in Ambient..Full
    PROVE  /\ DarkFor(d) \in 0..MinGap
           /\ ~(shown > Ambient) => DarkFor(d) = dark + d \/ DarkFor(d) = MinGap
BY GapIs DEF DarkFor

\* Delays are numbers.
LEMMA LagsType == \A d \in Lags \cup MissLags : d \in Nat \ {0}
BY StormAssumption

-----------------------------------------------------------------------------
(* Type correctness *)

\* In the middle of a storm a step of the storm keeps the types.
LEMMA StepType ==
    ASSUME TypeOK, NEW d \in Lags, Strike(d) \/ Flash(d) \/ Between(d)
    PROVE  TypeOK'
<1>0. /\ d \in Nat \ {0} /\ Full \in Nat /\ Ambient \in 0..Full
      /\ FadeLen \in [Kinds -> Nat \ {0}] /\ StormTime \in Nat
  BY LagsType, StormAssumption
<1>1. storm_left' \in 0..StormTime /\ dark' \in 0..MinGap /\ busy' \in BOOLEAN
  <2>1. TimePasses(d)
    BY DEF Strike, Flash, Between
  <2>2. storm_left' \in 0..StormTime /\ busy' = busy
    BY <1>0, <2>1, LaterType DEF TimePasses, TypeOK
  <2>3. dark' \in 0..MinGap
    BY <1>0, <2>1, DarkForType DEF TimePasses, TypeOK
  <2> QED BY <2>2, <2>3 DEF TypeOK
<1>2. SUFFICES /\ {flash_left', strike_in', spike_in'} \subseteq Nat
               /\ type' \in Kinds /\ intensity' \in 0..Full
               /\ level' \in Ambient..Full /\ shown' = level'
  BY <1>0, <1>1 DEF TypeOK
<1>3. CASE Strike(d)
  <2>1. PICK k \in Kinds : \E i \in Strengths[k], length \in Lengths[k], gap \in Gaps :
          /\ type' = k /\ intensity' = i
          /\ flash_left' = length /\ strike_in' = length + gap
          /\ spike_in' \in Cadences[k]
          /\ \E l \in Spikes(k, i) : level' = Faded(l, k, length)
    BY <1>3 DEF Strike
  <2>2. PICK i \in Strengths[k], length \in Lengths[k], gap \in Gaps :
          /\ type' = k /\ intensity' = i
          /\ flash_left' = length /\ strike_in' = length + gap
          /\ spike_in' \in Cadences[k]
          /\ \E l \in Spikes(k, i) : level' = Faded(l, k, length)
    BY <2>1
  <2>3. i \in 0..Full /\ length \in Nat /\ gap \in Nat /\ Cadences[k] \subseteq Nat
    BY StormAssumption
  <2>4. level' \in Ambient..Full
    BY <2>2, <2>3, SpikesType, FadedType
  <2>5. shown' = level'
    BY <1>3 DEF Strike, Writes
  <2> QED BY <2>2, <2>3, <2>4, <2>5
<1>4. CASE Flash(d)
  <2>1. /\ flash_left' \in Nat /\ strike_in' \in Nat
        /\ type' \in Kinds /\ intensity' \in 0..Full /\ shown' = level'
    BY <1>0, <1>4, LaterType DEF Flash, Writes, TypeOK
  <2>2. CASE spike_in <= d
    <3>1. spike_in' \in Cadences[type]
          /\ \E l \in Spikes(type, intensity) : level' = Faded(l, type, flash_left')
      BY <1>4, <2>2 DEF Flash
    <3>2. type \in Kinds /\ intensity \in 0..Full /\ Cadences[type] \subseteq Nat
      BY StormAssumption DEF TypeOK
    <3>3. level' \in Ambient..Full
      BY <2>1, <3>1, <3>2, SpikesType, FadedType
    <3> QED BY <2>1, <3>1, <3>2, <3>3
  <2>3. CASE ~(spike_in <= d)
    <3>1. spike_in' = spike_in - d /\ level' = Faded(level, type, flash_left')
      BY <1>4, <2>3 DEF Flash
    <3>2. level \in Ambient..Full /\ type \in Kinds
      BY <1>0, <1>4 DEF Flash, TypeOK
    <3>3. level' \in Ambient..Full
      BY <2>1, <3>1, <3>2, FadedType
    <3> QED BY <1>0, <2>1, <2>3, <3>1, <3>3 DEF TypeOK
  <2> QED BY <2>2, <2>3
<1>5. CASE Between(d)
  BY <1>0, <1>5, LaterType DEF Between, Writes, TypeOK
<1> QED BY <1>3, <1>4, <1>5

\* So does the time that passes without a step of the storm.
LEMMA RestType ==
    ASSUME TypeOK, NEW d \in Lags \cup MissLags, Over(d) \/ Missed(d) \/ Calm(d)
    PROVE  TypeOK'
<1>0. d \in Nat /\ Full \in Nat /\ Ambient \in 0..Full /\ StormTime \in Nat
  BY LagsType, StormAssumption
<1>1. /\ flash_left' = Later(flash_left, d) /\ strike_in' = Later(strike_in, d)
      /\ spike_in' = Later(spike_in, d)
      /\ UNCHANGED <<flash, busy>> /\ shown' \in {shown, Ambient}
      /\ dark' = DarkFor(d)
  BY DEF Over, Missed, Calm, Sleeps, TimePasses
<1>2. storm_left' \in 0..storm_left
  <2>1. storm_left' \in {storm_left, Later(storm_left, d)}
    BY DEF Over, Missed, Calm, Sleeps, TimePasses
  <2>2. storm_left \in Nat
    BY <1>0 DEF TypeOK
  <2> QED BY <1>0, <2>1, <2>2, LaterType
<1>3. {flash_left', strike_in', spike_in'} \subseteq Nat
  BY <1>0, <1>1, LaterType DEF TypeOK
<1>4. dark' \in 0..MinGap
  BY <1>0, <1>1, DarkForType DEF TypeOK
<1> QED BY <1>0, <1>1, <1>2, <1>3, <1>4 DEF flash, TypeOK

\* And so do the start of a storm and its end by a command.
LEMMA ArmType == ASSUME TypeOK, ArmStorm \/ CancelStorm PROVE TypeOK'
<1>1. /\ Full \in Nat /\ Ambient \in 0..Full /\ StormTime \in Nat
      /\ FirstStrikes \subseteq Nat
  BY StormAssumption
<1>2. CASE ArmStorm
  BY <1>1, <1>2 DEF ArmStorm, TypeOK
<1>3. CASE CancelStorm
  BY <1>1, <1>3, GapIs DEF CancelStorm, flash, TypeOK
<1> QED BY <1>2, <1>3

\* Every step keeps the types.
LEMMA TypeStep == TypeOK /\ [Next]_vars => TypeOK'
<1>1. CASE UNCHANGED vars
  BY <1>1 DEF vars, schedule, flash, TypeOK
<1> QED BY <1>1, StepType, RestType, ArmType DEF Next, Step

\* Before the first storm the variables have their types.
LEMMA TypeInit == Init => TypeOK
BY StormAssumption, GapIs DEF Init, TypeOK

\* Every variable always has its type; in a storm the light is never below the
\* ambient light.
THEOREM StormType == Spec => []TypeOK
BY TypeInit, TypeStep, PTL DEF Spec

-----------------------------------------------------------------------------
(* A steady flash *)

\* A flash is steady from its strike to its fade.
LEMMA SteadyStep == TypeOK /\ SteadyFlash /\ [Next]_vars => SteadyFlash'
<1> SUFFICES ASSUME TypeOK, SteadyFlash, [Next]_vars,
                    storm_left' > 0, flash_left' >= FadeLen[type']
             PROVE  level' >= Least(Spikes(type', intensity'))
  BY DEF SteadyFlash
<1>0. /\ FadeLen \in [Kinds -> Nat \ {0}] /\ type \in Kinds /\ intensity \in 0..Full
      /\ flash_left \in Nat /\ storm_left \in Nat
  BY StormAssumption DEF TypeOK
<1>1. ASSUME NEW d \in Lags, Strike(d)
      PROVE  level' >= Least(Spikes(type', intensity'))
  <2>1. PICK k \in Kinds : \E i \in Strengths[k], length \in Lengths[k] :
          /\ type' = k /\ intensity' = i /\ flash_left' = length
          /\ \E l \in Spikes(k, i) : level' = Faded(l, k, length)
    BY <1>1 DEF Strike
  <2>2. PICK i \in Strengths[k], length \in Lengths[k] :
          /\ type' = k /\ intensity' = i /\ flash_left' = length
          /\ \E l \in Spikes(k, i) : level' = Faded(l, k, length)
    BY <2>1
  <2>3. FadeLen[k] <= length /\ length \in Nat /\ FadeLen[k] \in Nat /\ i \in 0..Full
    BY StormAssumption
  <2>4. level' \in Spikes(k, i)
    BY <2>2, <2>3 DEF Faded
  <2>5. Spikes(k, i) \subseteq Nat
    BY <2>3, SpikesType, StormAssumption
  <2> QED BY <2>2, <2>3, <2>4, <2>5, SpikesLeast
<1>2. ASSUME NEW d \in Lags, Flash(d)
      PROVE  level' >= Least(Spikes(type', intensity'))
  <2>1. /\ d \in Nat \ {0} /\ type' = type /\ intensity' = intensity
        /\ flash_left' = flash_left - d /\ storm_left > 0
    BY <1>0, <1>2, LagsType DEF Flash
  <2>2. CASE spike_in <= d
    <3>1. \E l \in Spikes(type, intensity) : level' = Faded(l, type, flash_left')
      BY <1>2, <2>2 DEF Flash
    <3>2. level' \in Spikes(type, intensity)
      BY <1>0, <2>1, <3>1 DEF Faded
    <3>3. Spikes(type, intensity) \subseteq Nat
      BY <1>0, SpikesType, StormAssumption
    <3> QED BY <1>0, <2>1, <3>2, <3>3, SpikesLeast
  <2>3. CASE ~(spike_in <= d)
    <3>1. level' = Faded(level, type, flash_left')
      BY <1>2, <2>3 DEF Flash
    <3>2. level' = level
      BY <1>0, <2>1, <3>1 DEF Faded
    <3> QED BY <1>0, <2>1, <3>2 DEF SteadyFlash
  <2> QED BY <2>2, <2>3
<1>3. ASSUME NEW d \in Lags \cup MissLags, Between(d) \/ Over(d) \/ Calm(d)
      PROVE  level' >= Least(Spikes(type', intensity'))
  <2>1. type' = type /\ (flash_left' = 0 \/ storm_left' = 0)
    BY <1>0, <1>3, LagsType, LaterType
       DEF Between, Over, Calm, Sleeps, TimePasses, flash
  <2> QED BY <1>0, <2>1
<1>4. ASSUME NEW d \in MissLags, Missed(d)
      PROVE  level' >= Least(Spikes(type', intensity'))
  <2>1. UNCHANGED flash /\ flash_left' \in 0..flash_left /\ storm_left > 0
    BY <1>0, <1>4, LagsType, LaterType DEF Missed, Sleeps
  <2> QED BY <1>0, <2>1 DEF SteadyFlash, flash
<1>5. CASE ArmStorm \/ CancelStorm
  <2>1. type' = type /\ (flash_left' = 0 \/ storm_left' = 0)
    BY <1>5 DEF ArmStorm, CancelStorm, flash
  <2> QED BY <1>0, <2>1
<1>6. CASE UNCHANGED vars
  BY <1>6 DEF vars, schedule, flash, SteadyFlash
<1> QED BY <1>1, <1>2, <1>3, <1>4, <1>5, <1>6 DEF Next, Step

\* A flash lasts its time without going dark: until it fades the light is no
\* darker than the floor of its kind, whatever the delays, the missed steps and
\* the storms before.
THEOREM FlashIsSteady == Spec => []SteadyFlash
<1>1. Init => SteadyFlash
  BY DEF Init, SteadyFlash
<1>2. TypeOK /\ SteadyFlash /\ [Next]_vars => SteadyFlash'
  BY SteadyStep
<1> QED BY <1>1, <1>2, StormType, PTL DEF Spec

-----------------------------------------------------------------------------
(* The pause before a strike *)

\* While no step is missed, the strike that comes next leaves room for the least
\* gap: after the flash that lasts, after the one whose light still stands, or
\* together with the dark time that has passed, but for one late step.
StrikeLeavesRoom ==
    ~busy /\ storm_left > 0 =>
      \/ flash_left > 0 /\ strike_in >= flash_left + MinGap
      \/ flash_left = 0 /\ strike_in >= MinGap
      \/ /\ flash_left = 0 /\ shown = Ambient
         /\ strike_in + dark + Greatest(Lags) >= MinGap

\* Every step leaves the room, and no strike comes before its time.
LEMMA RoomStep ==
    ASSUME TypeOK, StrikeLeavesRoom, [Next]_vars, ~busy'
    PROVE  /\ StrikeLeavesRoom'
           /\ flash_left' > flash_left => dark' + Greatest(Lags) >= MinGap
<1>0. /\ ~busy
      /\ flash_left \in Nat /\ strike_in \in Nat /\ storm_left \in Nat
      /\ shown \in Nat /\ dark \in 0..MinGap /\ Ambient \in Nat /\ shown >= Ambient
      /\ MinGap \in Nat \ {0} /\ Greatest(Lags) \in Nat \ {0}
  <2>1. busy' = busy
    BY DEF Next, Step, Strike, Flash, Between, Over, Missed, Calm, ArmStorm,
       CancelStorm, Sleeps, TimePasses, vars
  <2>2. shown \in Ambient..Full /\ Full \in Nat /\ Ambient \in 0..Full
    BY StormAssumption DEF TypeOK
  <2> QED BY <2>1, <2>2, GapIs, LagIs DEF TypeOK
<1> DEFINE paused == flash_left' > flash_left => dark' + Greatest(Lags) >= MinGap
<1> SUFFICES StrikeLeavesRoom' /\ paused
  OBVIOUS
<1> USE DEF StrikeLeavesRoom
<1>1. ASSUME NEW d \in Lags, Strike(d)
      PROVE  StrikeLeavesRoom' /\ paused
  <2>1. d \in Nat \ {0} /\ d <= Greatest(Lags)
    BY LagsType, LagIs
  <2>2. /\ storm_left > 0 /\ flash_left <= d /\ strike_in <= d /\ dark' = DarkFor(d)
    BY <1>0, <1>1, <2>1 DEF Strike, TimePasses
  <2>3. PICK k \in Kinds : \E i \in Strengths[k], length \in Lengths[k], gap \in Gaps :
          flash_left' = length /\ strike_in' = length + gap
    BY <1>1 DEF Strike
  <2>4. PICK length \in Lengths[k], gap \in Gaps :
          flash_left' = length /\ strike_in' = length + gap
    BY <2>3
  <2>5. length \in Nat \ {0} /\ gap \in Nat /\ gap >= MinGap
    BY StormAssumption, GapIs
  <2>6. dark' + Greatest(Lags) >= MinGap
    BY <1>0, <2>1, <2>2 DEF DarkFor
  <2> QED BY <1>0, <2>4, <2>5, <2>6
<1>2. ASSUME NEW d \in Lags, Flash(d)
      PROVE  StrikeLeavesRoom' /\ paused
  <2>1. d \in Nat \ {0}
    BY LagsType
  <2>2. /\ storm_left > 0 /\ flash_left > d
        /\ flash_left' = flash_left - d /\ strike_in' = Later(strike_in, d)
    BY <1>0, <1>2, <2>1 DEF Flash
  <2>3. strike_in >= flash_left + MinGap
    BY <1>0, <2>1, <2>2
  <2> QED BY <1>0, <2>1, <2>2, <2>3 DEF Later
<1>3. ASSUME NEW d \in Lags, Between(d)
      PROVE  StrikeLeavesRoom' /\ paused
  <2>1. d \in Nat \ {0} /\ d <= Greatest(Lags)
    BY LagsType, LagIs
  <2>2. /\ storm_left > 0 /\ flash_left <= d /\ strike_in > d
        /\ flash_left' = 0 /\ strike_in' = strike_in - d
        /\ shown' = Ambient /\ dark' = DarkFor(d)
    BY <1>0, <1>3, <2>1 DEF Between, Writes, TimePasses
  <2>3. strike_in' + dark' + Greatest(Lags) >= MinGap
    BY <1>0, <2>1, <2>2 DEF DarkFor
  <2> QED BY <1>0, <2>2, <2>3
<1>4. ASSUME NEW d \in Lags \cup MissLags, Over(d) \/ Missed(d) \/ Calm(d)
      PROVE  StrikeLeavesRoom' /\ paused
  <2>1. storm_left' = 0 /\ flash_left' \in 0..flash_left
    BY <1>0, <1>4, LagsType, LaterType DEF Over, Missed, Calm, Sleeps, TimePasses
  <2> QED BY <1>0, <2>1
<1>5. CASE ArmStorm
  <2>1. strike_in' \in FirstStrikes /\ flash_left' = 0
    BY <1>5 DEF ArmStorm
  <2>2. PICK gap \in Gaps : gap <= strike_in'
    BY <2>1, StormAssumption
  <2>3. strike_in' \in Nat /\ gap \in Nat /\ MinGap <= gap
    BY <2>1, StormAssumption, GapIs
  <2> QED BY <1>0, <2>1, <2>2, <2>3
<1>6. CASE CancelStorm
  BY <1>0, <1>6 DEF CancelStorm
<1>7. CASE UNCHANGED vars
  BY <1>0, <1>7 DEF vars, schedule, flash
<1> HIDE DEF StrikeLeavesRoom, paused
<1> QED BY <1>1, <1>2, <1>3, <1>4, <1>5, <1>6, <1>7 DEF Next, Step

\* While no step is missed, no strike follows on a flash without a dark pause,
\* the least gap but for the lateness of one step; neither when a storm is
\* started anew in the middle of a flash.
THEOREM PauseIsKept == Spec => PauseBeforeStrike
<1>1. Init => StrikeLeavesRoom
  BY DEF Init, StrikeLeavesRoom
<1>2. [Next]_vars => busy' = busy
  BY DEF Next, Step, Strike, Flash, Between, Over, Missed, Calm, ArmStorm,
     CancelStorm, Sleeps, TimePasses, vars
<1>3. TypeOK /\ StrikeLeavesRoom /\ [Next]_vars => StrikeLeavesRoom'
  BY RoomStep DEF StrikeLeavesRoom
<1>4. TypeOK /\ StrikeLeavesRoom /\ [Next]_vars
        => [~busy /\ flash_left' > flash_left => dark' + Greatest(Lags) >= MinGap]_vars
  BY <1>2, RoomStep
<1> QED BY <1>1, <1>3, <1>4, StormType, PTL DEF Spec, PauseBeforeStrike
===============================================================================
