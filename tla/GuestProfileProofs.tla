------------------------- MODULE GuestProfileProofs -------------------------
(***************************************************************************)
(* Proved of GuestProfile for any number of iterations and ticks.          *)
(***************************************************************************)
EXTENDS GuestProfile, SequenceTheorems, TLAPS

\* The deadline is past the last sample once the callback is over, and the
\* ticker has ended once the owner is past the join; the profiler is out in
\* the callback only.
GuestInv ==
    /\ TypeOK
    /\ OneSamplePerTick
    /\ \A i \in 1..Len(samples) : samples[i] <= epoch
    /\ pc # "sampled" => \A i \in 1..Len(samples) : samples[i] < deadline
    /\ pc = "callback" => epoch >= deadline
    /\ pc \in {"guest", "callback", "sampled"} => calls < Iterations
    /\ pc = "new" => ticker = "off"
    /\ pc \in {"finish", "write", "done"} => ticker \in {"off", "ended"}
    /\ session = CASE pc \in {"callback", "sampled"} -> "out"
                   [] pc = "write" -> "gone"
                   [] pc = "done" -> session
                   [] OTHER -> "in"

LEMMA GuestInit == Init => GuestInv
<1> SUFFICES ASSUME Init PROVE GuestInv
  OBVIOUS
<1>1. TypeOK
  <2>1. samples \in Seq(Nat) /\ calls \in 0..Iterations /\ epoch \in Nat /\ deadline \in Nat
    BY GuestAssumption DEF Init
  <2>2. QED
    BY <2>1 DEF Init, TypeOK
<1>2. Len(samples) = 0
  BY DEF Init
<1>3. OneSamplePerTick
  BY <1>2 DEF OneSamplePerTick
<1>4. QED
  BY <1>1, <1>2, <1>3 DEF Init, GuestInv

LEMMA OwnerKeeps == ASSUME GuestInv, Owner PROVE GuestInv'
<1> USE GuestAssumption DEF GuestInv, TypeOK
<1>1. ASSUME samples' = samples PROVE OneSamplePerTick'
  BY <1>1 DEF OneSamplePerTick
<1>2. CASE Start
  BY <1>1, <1>2 DEF Start
<1>3. CASE Call
  BY <1>1, <1>3 DEF Call, storeVars, tickerVars, ownerVars
<1>4. CASE Sample
  <2>1. samples' = Append(samples, epoch) /\ epoch' = epoch /\ pc' = "sampled"
    BY <1>4 DEF Sample, tickerVars
  <2>2. Len(samples') = Len(samples) + 1 /\ samples' \in Seq(Nat)
        /\ \A i \in 1..Len(samples) : samples'[i] = samples[i]
        /\ samples'[Len(samples) + 1] = epoch
    BY <2>1
  <2>3. \A i \in 1..Len(samples) : samples[i] < epoch
    BY <1>4 DEF Sample
  <2>4. OneSamplePerTick'
    <3> SUFFICES ASSUME NEW i \in 1..(Len(samples') - 1)
                 PROVE  samples'[i] < samples'[i + 1]
      BY DEF OneSamplePerTick
    <3>1. i \in 1..Len(samples) /\ samples'[i] = samples[i]
      BY <2>2
    <3>2. CASE i = Len(samples)
      BY <2>2, <2>3, <3>1, <3>2
    <3>3. CASE i # Len(samples)
      <4>1. i \in 1..(Len(samples) - 1) /\ i + 1 \in 1..Len(samples)
        BY <3>1, <3>3
      <4>2. samples'[i + 1] = samples[i + 1] /\ samples[i] < samples[i + 1]
        BY <2>2, <4>1 DEF OneSamplePerTick
      <4>3. QED
        BY <3>1, <4>2
    <3>4. QED
      BY <3>2, <3>3
  <2>5. \A i \in 1..Len(samples') : samples'[i] <= epoch'
    BY <2>1, <2>2, <2>3
  <2>6. QED
    BY <1>4, <2>1, <2>2, <2>4, <2>5 DEF Sample, tickerVars, ownerVars
<1>5. CASE Continue
  BY <1>1, <1>5 DEF Continue, tickerVars, ownerVars
<1>6. CASE Drop
  BY <1>1, <1>6 DEF Drop, storeVars, tickerVars, ownerVars
<1>7. CASE Join
  BY <1>1, <1>7 DEF Join, storeVars, tickerVars, ownerVars
<1>8. CASE Finish
  BY <1>1, <1>8 DEF Finish, tickerVars
<1>9. CASE Write
  BY <1>1, <1>9 DEF Write, storeVars, tickerVars
<1>10. QED
  BY <1>2, <1>3, <1>4, <1>5, <1>6, <1>7, <1>8, <1>9 DEF Owner

LEMMA OthersKeep == ASSUME GuestInv, Guest \/ Check \/ Tick PROVE GuestInv'
<1> USE GuestAssumption DEF GuestInv, TypeOK, OneSamplePerTick
<1>1. CASE EnterCallback
  BY <1>1 DEF EnterCallback, tickerVars, ownerVars
<1>2. CASE Return
  BY <1>2 DEF Return, storeVars, tickerVars
<1>3. CASE Trap
  BY <1>3 DEF Trap, storeVars, tickerVars
<1>4. CASE Check
  BY <1>4 DEF Check, storeVars, ownerVars
<1>5. CASE Tick
  BY <1>5 DEF Tick, storeVars, ownerVars
<1>6. QED
  BY <1>1, <1>2, <1>3, <1>4, <1>5 DEF Guest

\* The inductive invariant of the owner thread, the ticker and the session.
THEOREM GuestInvariance == Spec => []GuestInv
<1>1. GuestInv /\ UNCHANGED vars => GuestInv'
  BY DEF GuestInv, TypeOK, OneSamplePerTick, vars, storeVars, tickerVars, ownerVars
<1>2. GuestInv /\ [Next]_vars => GuestInv'
  BY <1>1, OwnerKeeps, OthersKeep DEF Next
<1>3. QED
  BY GuestInit, <1>2, PTL DEF Spec

\* No tick is sampled twice, however many ticks, calls and checks there are.
THEOREM SamplesDiffer == Spec => []OneSamplePerTick
<1>1. GuestInv => OneSamplePerTick
  BY DEF GuestInv
<1>2. QED
  BY <1>1, GuestInvariance, PTL

\* The profiler is back in the session when the session is consumed.
THEOREM ProfilerIsReturned == Spec => []ProfilerReturned
<1>1. GuestInv => ProfilerReturned
  BY DEF GuestInv, ProfilerReturned
<1>2. QED
  BY <1>1, GuestInvariance, PTL

\* No tick comes after the ticker was dropped.
THEOREM DropIsFinal == Spec => NoTickAfterDrop
<1>1. GuestInv /\ [Next]_vars => [(pc \in {"finish", "write", "done"}) => UNCHANGED epoch]_vars
  <2> SUFFICES ASSUME GuestInv, Next, pc \in {"finish", "write", "done"} PROVE UNCHANGED epoch
    OBVIOUS
  <2>1. ~Tick
    BY DEF Tick, GuestInv
  <2>2. QED
    BY <2>1 DEF Next, Owner, Guest, Start, Call, Sample, Continue, Drop, Join, Finish, Write,
                EnterCallback, Return, Trap, Check, tickerVars
<1>2. QED
  BY <1>1, GuestInvariance, PTL DEF Spec, NoTickAfterDrop
=============================================================================
