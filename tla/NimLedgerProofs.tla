---------------------------- MODULE NimLedgerProofs ----------------------------
(***************************************************************************)
(* Proofs about NimLedger for every rpm, window, clock and number of calls.*)
(* The inductive invariant is the conjunction of the module's properties   *)
(* and of FileIsRecentHistory; that they are what SlotLemmas calls a       *)
(* ledger makes its lemmas about bookings and time the steps of the proof. *)
(***************************************************************************)
EXTENDS NimLedger, SlotLemmas

IInv == /\ TypeOK
        /\ FirstComeFirstServed
        /\ WindowHolds
        /\ NoNeedlessWait
        /\ FileIsRecentHistory

-----------------------------------------------------------------------------
\* The properties of NimLedger are those of a ledger.
LEMMA IInvIsLedger ==
  ASSUME TypeOK
  PROVE  IInv <=> IsLedger(granted, slots, clock)
<1>1. DOMAIN granted = 1 .. Len(granted)
  BY DEF TypeOK
<1> QED BY <1>1 DEF IInv, FirstComeFirstServed, WindowHolds, NoNeedlessWait, FileIsRecentHistory,
               Promise!Ascending, Promise!Spread, IsLedger, Ascending, Spread, Tight, FileOf

\* Nothing is booked at first.
LEMMA InitIInv == Init => IInv
<1> SUFFICES ASSUME Init PROVE IInv
  OBVIOUS
<1>1. TypeOK
  BY BoundAssumption DEF Init, TypeOK
<1>2. granted = << >> /\ slots = << >> /\ Len(granted) = 0
  BY DEF Init
<1>3. FileOf(slots, granted, clock)
  <2>1. 0 \in 0 .. Len(granted) /\ slots = SubSeq(granted, 0 + 1, Len(granted))
    BY <1>2
  <2> QED BY <2>1 DEF FileOf
<1>4. IsLedger(granted, slots, clock)
  BY <1>2, <1>3 DEF IsLedger, Ascending, Spread, Tight
<1> QED BY <1>1, <1>4, IInvIsLedger

\* Time passes: LedgerLater.  A call: BookingKeepsLedger.
LEMMA StepIInv == IInv /\ [Next]_vars => IInv'
<1> SUFFICES ASSUME IInv, [Next]_vars PROVE IInv'
  OBVIOUS
<1>1. /\ TypeOK /\ granted \in Seq(Nat) /\ clock \in Nat /\ MaxTime \in Nat
      /\ IsLedger(granted, slots, clock)
  BY BoundAssumption, IInvIsLedger DEF IInv, TypeOK
<1>2. TypeOK' => (IInv' <=> IsLedger(granted', slots', clock'))
  <2>1. TypeOK' => DOMAIN granted' = 1 .. Len(granted')
    BY DEF TypeOK
  <2> QED BY <2>1 DEF IInv, FirstComeFirstServed, WindowHolds, NoNeedlessWait, FileIsRecentHistory,
                 Promise!Ascending, Promise!Spread, IsLedger, Ascending, Spread, Tight, FileOf
<1>3. CASE Tick
  <2>1. clock' \in 0 .. MaxTime /\ clock' \in Nat /\ clock' >= clock /\ UNCHANGED <<slots, granted>>
    BY <1>1, <1>3 DEF Tick
  <2>2. IsLedger(granted', slots', clock')
    BY <1>1, <2>1, LedgerLater
  <2> QED BY <1>1, <1>2, <2>1, <2>2 DEF TypeOK
<1>4. CASE Reserve
  <2>1. /\ slots' = Booked(slots, clock)
        /\ granted' = Append(granted, StartFor(Live(slots, clock), clock))
        /\ clock' = clock
    BY <1>4 DEF Reserve, Booked
  <2>2. granted' \in Seq(Nat) /\ slots' \in Seq(Nat) /\ IsLedger(granted', slots', clock')
    BY <1>1, <2>1, BookingKeepsLedger
  <2> QED BY <1>1, <1>2, <2>1, <2>2 DEF TypeOK
<1>5. CASE UNCHANGED vars
  BY <1>1, <1>2, <1>5 DEF vars, TypeOK
<1> QED BY <1>3, <1>4, <1>5 DEF Next

-----------------------------------------------------------------------------
(* The inductive invariant, and with it the type invariant, holds of every
   reachable state, for every rpm, window, clock and number of calls. *)
THEOREM Invariance == Spec => []IInv
BY InitIInv, StepIInv, PTL DEF Spec

(* Type correctness: clock, file and history keep their types. *)
THEOREM TypeCorrect == Spec => []TypeOK
<1>1. IInv => TypeOK
  BY DEF IInv
<1> QED BY <1>1, Invariance, PTL

(* reserve() never lets more than Limit reserved calls start within one window,
   whatever the limit and however long it runs. *)
THEOREM LedgerKeepsWindow == Spec => []WindowHolds
<1>1. IInv => WindowHolds
  BY DEF IInv
<1> QED BY <1>1, Invariance, PTL

(* Starts are handed out in the order they are asked for. *)
THEOREM LedgerIsFair == Spec => []FirstComeFirstServed
<1>1. IInv => FirstComeFirstServed
  BY DEF IInv
<1> QED BY <1>1, Invariance, PTL

(* A call is delayed only as far as the window demands. *)
THEOREM LedgerIsTight == Spec => []NoNeedlessWait
<1>1. IInv => NoNeedlessWait
  BY DEF IInv
<1> QED BY <1>1, Invariance, PTL

(* reserve() implements the promise its module documents: every call of it is a
   Grant of RateWindow, everything else a Tick or a stutter. *)
THEOREM LedgerImplementsPromise == Spec => KeepsPromise
<1>1. Init => Promise!Init
  BY DEF Init, Promise!Init
<1>2. IInv /\ IInv' /\ [Next]_vars => [Promise!Next]_(Promise!vars)
  <2> SUFFICES ASSUME IInv, IInv', [Next]_vars
               PROVE  Promise!Next \/ UNCHANGED Promise!vars
    OBVIOUS
  <2>1. CASE Tick
    BY <2>1, BoundAssumption DEF Tick, Promise!Next, Promise!Tick, IInv, TypeOK
  <2>2. CASE Reserve
    <3>1. granted \in Seq(Nat) /\ clock \in Nat /\ IsLedger(granted, slots, clock)
      BY BoundAssumption, IInvIsLedger DEF IInv, TypeOK
    <3>2. PICK start \in Nat : granted' = Append(granted, start) /\ start >= clock
      BY <2>2, <3>1, BookingKeepsLedger DEF Reserve
    <3>3. /\ Len(granted') = Len(granted) + 1
          /\ \A i \in DOMAIN granted : granted'[i] = granted[i]
          /\ granted'[Len(granted')] >= clock
      BY <3>1, <3>2
    <3>4. Promise!Ascending(granted') /\ Promise!Spread(granted')
      BY DEF IInv, FirstComeFirstServed, WindowHolds, Promise!Ascending, Promise!Spread
    <3> QED BY <2>2, <3>3, <3>4 DEF Reserve, Promise!Next, Promise!Grant
  <2>3. CASE UNCHANGED vars
    BY <2>3 DEF vars, Promise!vars
  <2> QED BY <2>1, <2>2, <2>3 DEF Next
<1> QED BY <1>1, <1>2, Invariance, PTL DEF Spec, KeepsPromise, Promise!Spec
=============================================================================
