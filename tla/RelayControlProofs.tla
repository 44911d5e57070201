------------------------- MODULE RelayControlProofs -------------------------
(***************************************************************************)
(* Proofs about RelayControl for any number of relays of either type, any  *)
(* set of requests and any pulse length:                                   *)
(*   - TypeOK;                                                             *)
(*   - OnlyHolderSwitches: the mutex discipline of the timed commands;     *)
(*   - NoCoilLeftOn and CoilsOpposedOnlyByUntimed: what overlapping pulses *)
(*     can and cannot do to the coils of a latching relay;                 *)
(*   - ReportIsTrue: what onGetRelay reports is what the contacts are, and *)
(*     countdowns keep to the time of task_relay.                          *)
(***************************************************************************)
EXTENDS RelayControl, TLAPS

-----------------------------------------------------------------------------
(* The inductive invariant. *)

\* What the mutex says of the tasks, and back.
LockInv ==
  /\ mtx = "NULL" <=> pc["task_relay"] = "create"
  /\ mtx = "task_relay" <=> pc["task_relay"] \in SwitchPcs \union {"scan", "return"}
  /\ mtx = "httpd" <=> /\ pc["httpd"] \in SwitchPcs \union {"return"}
                       /\ req.timems > 0

\* task_relay only ever switches off.
WantInv == pc["task_relay"] \in SwitchPcs => ~want["task_relay"]

\* Task t has set the coil for `on` (A) or for `off` (B) and not cleared it yet.
HoldsA(t, r) == rno[t] = r /\ want[t] /\ pc[t] \in {"setB", "pulse"}
HoldsB(t, r) == rno[t] = r /\ ~want[t] /\ pc[t] \in {"pulse", "clearB"}

\* Every energised coil has a task that will clear it.  Another task may have
\* cleared it already, so the converse does not hold.
CoilInv ==
  \A r \in RelayNos : RelayType[r] = "LATCHING" =>
    /\ EnergisedA(r) => \E t \in Tasks : HoldsA(t, r)
    /\ EnergisedB(r) => \E t \in Tasks : HoldsB(t, r)

IInv == TypeOK /\ LockInv /\ WantInv /\ CoilInv

-----------------------------------------------------------------------------
\* What onSetRelay understands is a triple of integers, whose relay number is
\* at most N_RELAYS.
LEMMA ParsedType ==
  ASSUME NEW q \in Requests, NEW g \in StackValues
  PROVE  /\ Parsed(q, g) \in [relayno : Int, state : Int, timems : Int]
         /\ Parsed(q, g).relayno <= N_RELAYS
<1>1. /\ q.relayno \in {i \in Int : i <= N_RELAYS} \union {Missing}
      /\ q.state \in Int \union {Missing}
      /\ q.timems \in Int \union {Missing}
      /\ g \in Int /\ g <= N_RELAYS
  BY RelayAssumption
<1>2. Found(q.relayno, g) \in Int /\ Found(q.relayno, g) <= N_RELAYS
  BY <1>1 DEF Found
<1>3. Found(q.state, Found(q.relayno, g)) \in Int
  BY <1>1, <1>2 DEF Found
<1>4. Found(q.timems, Found(q.state, Found(q.relayno, g))) \in Int
  BY <1>1, <1>3 DEF Found
<1> QED
  BY <1>2, <1>3, <1>4 DEF Parsed

\* The number of passes of a countdown is an integer.
LEMMA StepsType == ASSUME NEW ms \in Int PROVE Steps(ms) \in Int
  BY RelayAssumption DEF Steps

\* The relay numbers, the loop index and the tick counts, so that their
\* definitions need not be expanded elsewhere.
LEMMA Indices ==
  /\ 1 \in RelayNos /\ 1 \in IndexNos
  /\ \A r \in RelayNos : r \in Int /\ r \in IndexNos /\ r + 1 \in IndexNos
  /\ 0 \in Ticks /\ 1 \in Ticks /\ PulseTicks \in Ticks
  /\ \A d \in Ticks : d \in Int /\ (d > 0 => d - 1 \in Ticks)
                      /\ Smaller(d + 1, PulseTicks) \in Ticks
  BY RelayAssumption DEF RelayNos, IndexNos, Ticks, Smaller

LEMMA RestartTypeOK == ASSUME TypeOK, Restart PROVE TypeOK'
  BY RelayAssumption, Indices
  DEF TypeOK, RangesOK, LocationsOK, Restart, Tasks, Pcs, SwitchPcs, NoRequest

LEMMA InitTypeOK == Init => TypeOK
  BY RelayAssumption, Indices
  DEF Init, Boot, TypeOK, RangesOK, LocationsOK, Tasks, Pcs, SwitchPcs, NoRequest

-----------------------------------------------------------------------------
(* Type correctness. *)

\* relay_switch, whichever task executes it.
LEMMA SwitchTypeOK ==
  ASSUME TypeOK, NEW t \in Tasks, Switch(t)
  PROVE  TypeOK'
<1> USE RelayAssumption, Indices DEF TypeOK, RangesOK, LocationsOK, Tasks, Pcs, SwitchPcs
<1>1. CASE SetA(t)
  BY <1>1 DEF SetA, pinVars, physVars, histVars, Level
<1>2. CASE SetB(t)
  BY <1>2 DEF SetB, pinVars, physVars, histVars, Level
<1>3. CASE ClearA(t)
  BY <1>3 DEF ClearA, pinVars, physVars, histVars
<1>4. CASE ClearB(t)
  BY <1>4 DEF ClearB, pinVars, physVars, histVars
<1>5. CASE Store(t)
  BY <1>5 DEF Store, pinVars, physVars, histVars
<1> QED
  BY <1>1, <1>2, <1>3, <1>4, <1>5 DEF Switch

LEMMA ReceiveTypeOK == ASSUME TypeOK, Receive PROVE TypeOK'
<1>1. PICK q \in Requests, g \in StackValues :
        RejectRequest(q, g) \/ UntimedCommand(q, g) \/ TimedCommand(q, g)
  BY DEF Receive
<1>2. /\ Parsed(q, g) \in [relayno : Int, state : Int, timems : Int]
      /\ Parsed(q, g).relayno <= N_RELAYS
  BY ParsedType
<1>3. CASE RejectRequest(q, g)
  BY <1>2, <1>3, RelayAssumption, Indices
  DEF RejectRequest, Accept, TypeOK, RangesOK, LocationsOK, Tasks, Pcs, SwitchPcs,
      taskVars, pinVars, physVars, histVars
<1>4. CASE UntimedCommand(q, g)
  <2>1. /\ req' \in [relayno : Int, state : Int, timems : Int]
        /\ req'.relayno \in RelayNos
    BY <1>2, <1>4, RelayAssumption DEF UntimedCommand, Accept, Valid, RelayNos
  <2>2. RangesOK'
    BY <1>4, <2>1, Indices
    DEF UntimedCommand, TypeOK, RangesOK, Tasks, Pcs, SwitchPcs, pinVars, physVars
  <2>3. LocationsOK'
    BY <1>4, <2>1
    DEF UntimedCommand, TypeOK, RangesOK, LocationsOK, Tasks, SwitchPcs
  <2> QED
    BY <2>2, <2>3 DEF TypeOK
<1>5. CASE TimedCommand(q, g)
  <2>1. /\ req' \in [relayno : Int, state : Int, timems : Int]
        /\ req'.relayno \in RelayNos
    BY <1>2, <1>5, RelayAssumption DEF TimedCommand, Accept, Valid, RelayNos
  <2>2. RangesOK'
    BY <1>5, <2>1, Indices
    DEF TimedCommand, TypeOK, RangesOK, Tasks, Pcs, SwitchPcs, pinVars, physVars, histVars
  <2>3. LocationsOK'
    BY <1>5, <2>1
    DEF TimedCommand, TypeOK, RangesOK, LocationsOK, Tasks, SwitchPcs
  <2> QED
    BY <2>2, <2>3 DEF TypeOK
<1> QED
  BY <1>1, <1>3, <1>4, <1>5

LEMMA HttpdTypeOK == ASSUME TypeOK, Httpd PROVE TypeOK'
<1>1. CASE TakeNullMutex
  BY <1>1, RestartTypeOK DEF TakeNullMutex
<1>2. CASE ArmTimer
  <2>1. Steps(req.timems) \in Int
    BY StepsType DEF TypeOK, RangesOK
  <2> QED
    BY <1>2, <2>1, RelayAssumption, Indices
    DEF ArmTimer, TypeOK, RangesOK, LocationsOK, Tasks, Pcs, SwitchPcs, pinVars, physVars
<1>3. CASE Switch("httpd")
  BY <1>3, SwitchTypeOK DEF Tasks
<1>4. CASE FinishRequest
  BY <1>4, RelayAssumption, Indices
  DEF FinishRequest, TypeOK, RangesOK, LocationsOK, Tasks, Pcs, SwitchPcs, pinVars, physVars, histVars
<1> QED
  BY <1>1, <1>2, <1>3, <1>4 DEF Httpd

LEMMA TaskRelayTypeOK == ASSUME TypeOK, TaskRelay PROVE TypeOK'
<1> USE RelayAssumption, Indices
    DEF TypeOK, RangesOK, LocationsOK, Tasks, Pcs, SwitchPcs, pinVars, physVars, histVars
<1>1. CASE CreateMutex
  BY <1>1 DEF CreateMutex
<1>2. CASE ZeroTimers
  BY <1>2 DEF ZeroTimers
<1>3. CASE TakeMutex
  BY <1>3 DEF TakeMutex
<1>4. CASE SkipRelay
  BY <1>4 DEF SkipRelay
<1>5. CASE CountDown
  BY <1>5 DEF CountDown
<1>6. CASE Expire
  BY <1>6 DEF Expire
<1>7. CASE NextRelay
  BY <1>7 DEF NextRelay
<1>8. CASE GiveMutex
  BY <1>8 DEF GiveMutex
<1>9. CASE Switch("task_relay")
  BY <1>9, SwitchTypeOK
<1>10. CASE Wake
  BY <1>10 DEF Wake
<1> QED
  BY <1>1, <1>2, <1>3, <1>4, <1>5, <1>6, <1>7, <1>8, <1>9, <1>10 DEF TaskRelay

LEMMA TickTypeOK == ASSUME TypeOK, Tick PROVE TypeOK'
<1>1. ASSUME NEW r \in RelayNos
      PROVE  Driven(r) \in [dir : {"none", "on", "off", "both"}, ticks : Ticks]
  <2>1. Drive(r) \in {"none", "on", "off", "both"}
    BY DEF Drive
  <2>2. pulse[r].ticks \in Ticks
    BY <1>1 DEF TypeOK, RangesOK
  <2>3. Smaller(pulse[r].ticks + 1, PulseTicks) \in Ticks
    BY <2>2, Indices
  <2>4. Driven(r).ticks \in Ticks
    BY <2>3, RelayAssumption, Indices DEF Driven
  <2> QED
    BY <2>1, <2>4 DEF Driven
<1>2. /\ pulse' \in [RelayNos -> [dir : {"none", "on", "off", "both"}, ticks : Ticks]]
      /\ latch' \in [RelayNos -> BOOLEAN]
  BY <1>1 DEF Tick
<1>3. delay' \in [Tasks -> Ticks] /\ lag' \in Nat /\ due' \in [RelayNos -> Int]
  <2>1. delay' \in [Tasks -> Ticks]
    BY Indices DEF Tick, TypeOK, RangesOK
  <2>2. lag' \in Nat
    BY DEF Tick, TypeOK, RangesOK
  <2>3. due' \in [RelayNos -> Int]
    BY DEF Tick, TypeOK, RangesOK
  <2> QED
    BY <2>1, <2>2, <2>3
<1> QED
  BY <1>2, <1>3 DEF Tick, TypeOK, RangesOK, LocationsOK, pinVars

LEMMA StepTypeOK == ASSUME TypeOK, [Next]_vars PROVE TypeOK'
<1>1. CASE UNCHANGED vars
  BY <1>1 DEF TypeOK, RangesOK, LocationsOK, vars, taskVars, pinVars, physVars, histVars
<1>2. CASE Next
  BY <1>2, ReceiveTypeOK, HttpdTypeOK, TaskRelayTypeOK, TickTypeOK, RestartTypeOK DEF Next
<1> QED
  BY <1>1, <1>2

\* Every variable keeps to its range, for any configuration of the relays.
THEOREM TypeCorrect == Spec => []TypeOK
  BY InitTypeOK, StepTypeOK, PTL DEF Spec

-----------------------------------------------------------------------------
(* The mutex. *)

LEMMA LockStep == ASSUME TypeOK, LockInv, [Next]_vars PROVE LockInv'
<1> USE DEF TypeOK, RangesOK, LocationsOK, LockInv, Tasks, Pcs, SwitchPcs
<1>1. CASE Receive
  <2>1. PICK q \in Requests, g \in StackValues :
          RejectRequest(q, g) \/ UntimedCommand(q, g) \/ TimedCommand(q, g)
    BY <1>1 DEF Receive
  <2>2. CASE RejectRequest(q, g)
    BY <2>2 DEF RejectRequest, Accept, taskVars
  <2>3. CASE UntimedCommand(q, g)
    <3>1. req'.timems \in Int
      BY <2>3, ParsedType DEF UntimedCommand, Accept
    <3> QED
      BY <2>3, <3>1 DEF UntimedCommand, Accept
  <2>4. CASE TimedCommand(q, g)
    BY <2>4 DEF TimedCommand, Accept
  <2> QED
    BY <2>1, <2>2, <2>3, <2>4
<1>2. CASE TakeNullMutex \/ Restart
  BY <1>2 DEF TakeNullMutex, Restart
<1>3. CASE ArmTimer
  BY <1>3 DEF ArmTimer
<1>4. CASE FinishRequest
  BY <1>4 DEF FinishRequest
<1>5. ASSUME NEW t \in Tasks, Switch(t) PROVE LockInv'
  BY <1>5 DEF Switch, SetA, SetB, ClearA, ClearB, Store
<1>6. CASE CreateMutex \/ ZeroTimers \/ TakeMutex \/ GiveMutex
  BY <1>6 DEF CreateMutex, ZeroTimers, TakeMutex, GiveMutex
<1>7. CASE SkipRelay \/ CountDown \/ Expire \/ NextRelay \/ Wake
  BY <1>7 DEF SkipRelay, CountDown, Expire, NextRelay, Wake
<1>8. CASE Tick \/ UNCHANGED vars
  BY <1>8 DEF Tick, vars, taskVars
<1> QED
  BY <1>1, <1>2, <1>3, <1>4, <1>5, <1>6, <1>7, <1>8 DEF Next, Httpd, TaskRelay

LEMMA WantStep == ASSUME TypeOK, WantInv, [Next]_vars PROVE WantInv'
<1> USE DEF TypeOK, RangesOK, WantInv, Tasks, SwitchPcs
<1>1. CASE Receive
  BY <1>1 DEF Receive, RejectRequest, UntimedCommand, TimedCommand, taskVars
<1>2. CASE TakeNullMutex \/ Restart
  BY <1>2 DEF TakeNullMutex, Restart
<1>3. CASE ArmTimer \/ FinishRequest
  BY <1>3 DEF ArmTimer, FinishRequest
<1>4. ASSUME NEW t \in Tasks, Switch(t) PROVE WantInv'
  BY <1>4 DEF Switch, SetA, SetB, ClearA, ClearB, Store
<1>5. CASE CreateMutex \/ ZeroTimers \/ TakeMutex \/ GiveMutex
  BY <1>5 DEF CreateMutex, ZeroTimers, TakeMutex, GiveMutex
<1>6. CASE SkipRelay \/ CountDown \/ Expire \/ NextRelay \/ Wake
  BY <1>6 DEF SkipRelay, CountDown, Expire, NextRelay, Wake
<1>7. CASE Tick \/ UNCHANGED vars
  BY <1>7 DEF Tick, vars, taskVars
<1> QED
  BY <1>1, <1>2, <1>3, <1>4, <1>5, <1>6, <1>7 DEF Next, Httpd, TaskRelay

-----------------------------------------------------------------------------
(* The coils. *)

\* A step that writes no pin and leaves alone the tasks that hold a coil.
LEMMA CoilFrame ==
  ASSUME CoilInv, pinA' = pinA, pinB' = pinB,
         \A t \in Tasks : pc[t] \in {"setB", "pulse", "clearB"} =>
            pc'[t] = pc[t] /\ rno'[t] = rno[t] /\ want'[t] = want[t]
  PROVE  CoilInv'
<1> SUFFICES ASSUME NEW r \in RelayNos, RelayType[r] = "LATCHING"
             PROVE  /\ EnergisedA(r)' => \E t \in Tasks : HoldsA(t, r)'
                    /\ EnergisedB(r)' => \E t \in Tasks : HoldsB(t, r)'
  BY DEF CoilInv
<1>1. ASSUME NEW t \in Tasks
      PROVE  (HoldsA(t, r) => HoldsA(t, r)') /\ (HoldsB(t, r) => HoldsB(t, r)')
  BY DEF HoldsA, HoldsB
<1> QED
  BY <1>1 DEF CoilInv, EnergisedA, EnergisedB

\* The five steps of relay_switch.  The interesting ones are SetA, which makes
\* t a holder of coil A exactly when it energises it, and ClearA, which ends
\* t's hold but also leaves no energised coil A for which t was the holder.
LEMMA CoilSwitch ==
  ASSUME TypeOK, CoilInv, NEW t \in Tasks, Switch(t)
  PROVE  CoilInv'
<1> SUFFICES ASSUME NEW r \in RelayNos, RelayType[r] = "LATCHING"
             PROVE  /\ EnergisedA(r)' => \E u \in Tasks : HoldsA(u, r)'
                    /\ EnergisedB(r)' => \E u \in Tasks : HoldsB(u, r)'
  BY DEF CoilInv
<1>1. /\ EnergisedA(r) => \E u \in Tasks : HoldsA(u, r)
      /\ EnergisedB(r) => \E u \in Tasks : HoldsB(u, r)
  BY DEF CoilInv
<1> USE RelayAssumption DEF TypeOK, RangesOK
<1>2. ASSUME NEW u \in Tasks, u # t
      PROVE  (HoldsA(u, r) => HoldsA(u, r)') /\ (HoldsB(u, r) => HoldsB(u, r)')
  BY <1>2 DEF HoldsA, HoldsB, Switch, SetA, SetB, ClearA, ClearB, Store
<1>3. CASE SetA(t)
  <2>1. EnergisedA(r)' /\ rno[t] = r => HoldsA(t, r)'
    BY <1>3 DEF SetA, HoldsA, EnergisedA, Level
  <2>2. EnergisedA(r)' /\ rno[t] # r => EnergisedA(r)
    BY <1>3 DEF SetA, EnergisedA
  <2>3. EnergisedB(r)' => EnergisedB(r)
    BY <1>3 DEF SetA, EnergisedB
  <2>4. ~HoldsA(t, r) /\ ~HoldsB(t, r)
    BY <1>3 DEF SetA, HoldsA, HoldsB
  <2> QED
    BY <1>1, <1>2, <2>1, <2>2, <2>3, <2>4
<1>4. CASE SetB(t)
  <2>1. EnergisedB(r)' /\ rno[t] = r => HoldsB(t, r)'
    BY <1>4 DEF SetB, HoldsB, EnergisedB, Level
  <2>2. EnergisedB(r)' /\ rno[t] # r => EnergisedB(r)
    BY <1>4 DEF SetB, EnergisedB
  <2>3. EnergisedA(r)' => EnergisedA(r)
    BY <1>4 DEF SetB, EnergisedA
  <2>4. HoldsA(t, r) => HoldsA(t, r)'
    BY <1>4 DEF SetB, HoldsA
  <2>5. ~HoldsB(t, r)
    BY <1>4 DEF SetB, HoldsB
  <2> QED
    BY <1>1, <1>2, <2>1, <2>2, <2>3, <2>4, <2>5
<1>5. CASE ClearA(t)
  <2>1. EnergisedA(r)' => rno[t] # r /\ EnergisedA(r)
    BY <1>5 DEF ClearA, EnergisedA
  <2>2. EnergisedB(r)' => EnergisedB(r)
    BY <1>5 DEF ClearA, EnergisedB
  <2>3. HoldsB(t, r) => HoldsB(t, r)'
    BY <1>5 DEF ClearA, HoldsB
  <2>4. rno[t] # r => ~HoldsA(t, r)
    BY DEF HoldsA
  <2> QED
    BY <1>1, <1>2, <2>1, <2>2, <2>3, <2>4
<1>6. CASE ClearB(t)
  <2>1. EnergisedB(r)' => rno[t] # r /\ EnergisedB(r)
    BY <1>6 DEF ClearB, EnergisedB
  <2>2. EnergisedA(r)' => EnergisedA(r)
    BY <1>6 DEF ClearB, EnergisedA
  <2>3. ~HoldsA(t, r)
    BY <1>6 DEF ClearB, HoldsA
  <2>4. rno[t] # r => ~HoldsB(t, r)
    BY DEF HoldsB
  <2> QED
    BY <1>1, <1>2, <2>1, <2>2, <2>3, <2>4
<1>7. CASE Store(t)
  BY <1>7, CoilFrame DEF Store, pinVars, CoilInv
<1> QED
  BY <1>3, <1>4, <1>5, <1>6, <1>7 DEF Switch

LEMMA CoilStep == ASSUME TypeOK, CoilInv, [Next]_vars PROVE CoilInv'
<1> USE DEF TypeOK, RangesOK, Tasks, pinVars
<1>1. CASE Receive
  BY <1>1, CoilFrame DEF Receive, RejectRequest, UntimedCommand, TimedCommand, Accept, taskVars
<1>2. CASE TakeNullMutex \/ Restart
  BY <1>2, RelayAssumption DEF TakeNullMutex, Restart, CoilInv, EnergisedA, EnergisedB
<1>3. CASE ArmTimer \/ FinishRequest
  BY <1>3, CoilFrame DEF ArmTimer, FinishRequest
<1>4. ASSUME NEW t \in Tasks, Switch(t) PROVE CoilInv'
  BY <1>4, CoilSwitch
<1>5. CASE CreateMutex \/ ZeroTimers \/ TakeMutex \/ GiveMutex
  BY <1>5, CoilFrame DEF CreateMutex, ZeroTimers, TakeMutex, GiveMutex
<1>6. CASE SkipRelay \/ CountDown \/ Expire \/ NextRelay \/ Wake
  BY <1>6, CoilFrame DEF SkipRelay, CountDown, Expire, NextRelay, Wake
<1>7. CASE Tick \/ UNCHANGED vars
  BY <1>7, CoilFrame DEF Tick, vars, taskVars
<1> QED
  BY <1>1, <1>2, <1>3, <1>4, <1>5, <1>6, <1>7 DEF Next, Httpd, TaskRelay

-----------------------------------------------------------------------------
(* The theorems. *)

LEMMA InitIInv == Init => IInv
<1> SUFFICES ASSUME Init PROVE IInv
  OBVIOUS
<1>1. LockInv /\ WantInv
  BY DEF Init, Boot, LockInv, WantInv, Tasks, SwitchPcs
<1>2. CoilInv
  BY RelayAssumption DEF Init, Boot, CoilInv, EnergisedA, EnergisedB
<1> QED
  BY <1>1, <1>2, InitTypeOK DEF IInv

\* The invariant of the relay outputs is inductive: who holds which mutex and what each
\* task still has to do explains which outputs are on (relay.c, main_events.c).
THEOREM Inductive == Spec => []IInv
<1>1. IInv /\ [Next]_vars => IInv'
  BY StepTypeOK, LockStep, WantStep, CoilStep DEF IInv
<1> QED
  BY <1>1, InitIInv, PTL DEF Spec

\* task_relay switches only as the holder of mtxRelayTime, and httpd holds it
\* exactly during a timed command.
THEOREM MutexDiscipline == Spec => []OnlyHolderSwitches
<1>1. IInv => OnlyHolderSwitches
  BY DEF IInv, LockInv, OnlyHolderSwitches, SwitchPcs
<1> QED
  BY <1>1, Inductive, PTL

\* No coil of a latching relay stays energised after the last task has left
\* relay_switch.
THEOREM CoilsReleased == Spec => []NoCoilLeftOn
<1>1. IInv => NoCoilLeftOn
  BY DEF IInv, CoilInv, HoldsA, HoldsB, NoCoilLeftOn, Driving, SwitchPcs
<1> QED
  BY <1>1, Inductive, PTL

\* Opposed coils take an untimed command and an expiring countdown at once.
THEOREM OpposedOnlyByUntimed == Spec => []CoilsOpposedOnlyByUntimed
<1>1. ASSUME IInv, NEW r \in RelayNos, RelayType[r] = "LATCHING",
             EnergisedA(r), EnergisedB(r)
      PROVE  /\ Driving("httpd", r) /\ req.timems <= 0
             /\ Driving("task_relay", r) /\ mtx = "task_relay"
  <2>1. PICK a \in Tasks : HoldsA(a, r)
    BY <1>1 DEF IInv, CoilInv
  <2>2. PICK b \in Tasks : HoldsB(b, r)
    BY <1>1 DEF IInv, CoilInv
  <2>3. a = "httpd" /\ b = "task_relay"
    BY <1>1, <2>1, <2>2 DEF HoldsA, HoldsB, IInv, WantInv, SwitchPcs, Tasks
  <2>4. Driving("httpd", r) /\ Driving("task_relay", r)
    BY <2>1, <2>2, <2>3 DEF HoldsA, HoldsB, Driving, SwitchPcs
  <2>5. mtx = "task_relay"
    BY <1>1, <2>4 DEF IInv, LockInv, Driving
  <2>6. req.timems \in Int /\ ~(req.timems > 0)
    BY <1>1, <2>4, <2>5 DEF IInv, LockInv, TypeOK, RangesOK, Driving
  <2> QED
    BY <2>4, <2>5, <2>6
<1>2. IInv => CoilsOpposedOnlyByUntimed
  BY <1>1 DEF CoilsOpposedOnlyByUntimed
<1> QED
  BY <1>2, Inductive, PTL

-----------------------------------------------------------------------------
(* What onGetRelay reports: the inductive invariants. *)

\* A command that is not untimed switches on, and task_relay switches off only
\* a relay whose time has run out.
CommandInv ==
  /\ pc["httpd"] \in SwitchPcs /\ ~manual[rno["httpd"]] => want["httpd"]
  /\ pc["task_relay"] \in SwitchPcs => remain[rno["task_relay"]] = 0

\* A relay that counts and got no untimed command since is on, or httpd is about
\* to report it on.
CountInv ==
  \A r \in RelayNos :
    remain[r] > 0 /\ ~manual[r] => state[r] \/ Inside("httpd", r)

\* The pass that task_relay is in, or is about to start, has yet to reach r.
Pending(r) ==
  \/ pc["task_relay"] = "take"
  \/ pc["task_relay"] = "scan" /\ rno["task_relay"] <= r
  \/ pc["task_relay"] \in SwitchPcs \union {"return"} /\ rno["task_relay"] < r

\* The passes that task_relay owes a countdown by its own time, due + lag, are
\* the ones the remaining time takes.  One may be missing while a pass is
\* pending, which its Wake has reckoned already; one may be left over, for a
\* timer armed after the Wake of the pass that served it first.
ScheduleInv ==
  pc["task_relay"] \notin {"create", "zero"} =>
    \A r \in RelayNos : remain[r] > 0 =>
      due[r] + lag - Steps(remain[r]) \in IF Pending(r) THEN {-1, 0} ELSE {0, 1}

\* How far the switch of relay r by task t has come, when nothing disturbs it:
\* from the pulse that has moved the armature for PulseTicks - delay ticks to the
\* contact that has reached its position.
Progress(t, r) ==
  IF RelayType[r] = "NORMAL"
  THEN pc[t] = "store" /\ EnergisedA(r) = want[t]
  ELSE /\ pc[t] = "setB" => EnergisedA(r) = want[t] /\ ~EnergisedB(r)
       /\ pc[t] = "pulse" =>
            /\ EnergisedA(r) = want[t] /\ EnergisedB(r) = ~want[t]
            /\ delay[t] < PulseTicks =>
                 /\ pulse[r].dir = IF want[t] THEN "on" ELSE "off"
                 /\ pulse[r].ticks >= PulseTicks - delay[t]
            /\ delay[t] = 0 => latch[r] = want[t]
       /\ pc[t] \in {"clearB", "store"} => latch[r] = want[t]

\* The last switch of relay r overlapped no other one: at most one task is at
\* it, and it makes progress; or none is, and it has been stored.
CleanInv ==
  \A r \in RelayNos : clean[r] =>
    /\ \A t, u \in Tasks : Driving(t, r) /\ Driving(u, r) => t = u
    /\ \A t \in Tasks : Driving(t, r) => Progress(t, r)
    /\ (\A t \in Tasks : ~Driving(t, r)) => state[r] = Contact(r)

ReportInv == CommandInv /\ CountInv /\ ScheduleInv /\ CleanInv

-----------------------------------------------------------------------------
(* The small parts of ReportInv. *)

\* While task_relay switches a relay it holds the mutex, so that no command can
\* give that relay time.
LEMMA CommandStep == ASSUME TypeOK, LockInv, CommandInv, [Next]_vars PROVE CommandInv'
<1> USE RelayAssumption DEF TypeOK, RangesOK, LocationsOK, LockInv, CommandInv, Tasks, SwitchPcs
<1>1. CASE Receive
  BY <1>1, StepTypeOK
  DEF Receive, RejectRequest, UntimedCommand, TimedCommand, Accept, taskVars, histVars
<1>2. CASE TakeNullMutex \/ Restart
  BY <1>2 DEF TakeNullMutex, Restart
<1>3. CASE ArmTimer \/ FinishRequest
  BY <1>3 DEF ArmTimer, FinishRequest, histVars
<1>4. ASSUME NEW t \in Tasks, Switch(t) PROVE CommandInv'
  BY <1>4 DEF Switch, SetA, SetB, ClearA, ClearB, Store, histVars
<1>5. CASE CreateMutex \/ ZeroTimers \/ TakeMutex \/ GiveMutex
  BY <1>5 DEF CreateMutex, ZeroTimers, TakeMutex, GiveMutex, histVars
<1>6. CASE SkipRelay \/ CountDown \/ Expire \/ NextRelay \/ Wake
  BY <1>6 DEF SkipRelay, CountDown, Expire, NextRelay, Wake, histVars
<1>7. CASE Tick \/ UNCHANGED vars
  BY <1>7 DEF Tick, vars, taskVars, histVars
<1> QED
  BY <1>1, <1>2, <1>3, <1>4, <1>5, <1>6, <1>7 DEF Next, Httpd, TaskRelay

LEMMA CountStep ==
  ASSUME TypeOK, CommandInv, CountInv, [Next]_vars PROVE CountInv'
<1> USE RelayAssumption DEF TypeOK, RangesOK, LocationsOK, CommandInv, CountInv, Inside, Tasks, SwitchPcs
<1>1. CASE Receive
  BY <1>1 DEF Receive, RejectRequest, UntimedCommand, TimedCommand, Accept, taskVars, histVars
<1>2. CASE TakeNullMutex \/ Restart
  BY <1>2 DEF TakeNullMutex, Restart
<1>3. CASE ArmTimer \/ FinishRequest
  BY <1>3 DEF ArmTimer, FinishRequest, histVars
<1>4. ASSUME NEW t \in Tasks, Switch(t) PROVE CountInv'
  <2>1. remain' = remain /\ manual' = manual /\ rno' = rno
    BY <1>4 DEF Switch, SetA, SetB, ClearA, ClearB, Store, histVars
  <2>2. CASE SetA(t) \/ SetB(t) \/ ClearA(t) \/ ClearB(t)
    BY <2>1, <2>2 DEF SetA, SetB, ClearA, ClearB
  <2>3. CASE Store(t)
    BY <2>1, <2>3 DEF Store
  <2> QED
    BY <1>4, <2>2, <2>3 DEF Switch
<1>5. CASE CreateMutex \/ ZeroTimers \/ TakeMutex \/ GiveMutex
  BY <1>5 DEF CreateMutex, ZeroTimers, TakeMutex, GiveMutex, histVars
<1>6. CASE CountDown \/ Expire
  <2>1. /\ manual' = manual /\ state' = state /\ req' = req /\ want'["httpd"] = want["httpd"]
        /\ pc'["httpd"] = pc["httpd"] /\ rno'["httpd"] = rno["httpd"]
    BY <1>6 DEF CountDown, Expire, histVars
  <2>2. \A r \in RelayNos : remain'[r] > 0 => remain[r] > 0
    <3>1. CASE CountDown
      BY <3>1 DEF CountDown
    <3>2. CASE Expire
      BY <3>2 DEF Expire
    <3> QED
      BY <1>6, <3>1, <3>2
  <2> QED
    BY <2>1, <2>2
<1>7. CASE SkipRelay \/ NextRelay \/ Wake
  BY <1>7 DEF SkipRelay, NextRelay, Wake, histVars
<1>8. CASE Tick \/ UNCHANGED vars
  BY <1>8 DEF Tick, vars, taskVars, histVars
<1> QED
  BY <1>1, <1>2, <1>3, <1>4, <1>5, <1>6, <1>7, <1>8 DEF Next, Httpd, TaskRelay

-----------------------------------------------------------------------------
(* The schedule. *)

\* A countdown of at most one step takes one pass, and every step adds one.
LEMMA StepsCount ==
  /\ \A ms \in 1..StepMs : Steps(ms) = 1
  /\ \A ms \in Int : Steps(ms - StepMs) = Steps(ms) - 1
<1>1. ASSUME NEW ms \in 1..StepMs PROVE Steps(ms) = 1
  BY RelayAssumption DEF Steps
<1>2. ASSUME NEW ms \in Int PROVE Steps(ms - StepMs) = Steps(ms) - 1
  BY RelayAssumption DEF Steps
<1> QED
  BY <1>1, <1>2

\* A step that leaves the countdowns and the position of task_relay alone.
LEMMA ScheduleFrame ==
  ASSUME ScheduleInv, remain' = remain, due' = due, lag' = lag,
         pc'["task_relay"] = pc["task_relay"], rno'["task_relay"] = rno["task_relay"]
  PROVE  ScheduleInv'
  BY DEF ScheduleInv, Pending, Steps

LEMMA ScheduleStep ==
  ASSUME TypeOK, LockInv, CommandInv, ScheduleInv, [Next]_vars PROVE ScheduleInv'
<1> USE RelayAssumption DEF TypeOK, RangesOK, Tasks
<1>1. CASE Receive
  BY <1>1, ScheduleFrame
  DEF Receive, RejectRequest, UntimedCommand, TimedCommand, Accept, taskVars, histVars
<1>2. CASE TakeNullMutex \/ Restart
  BY <1>2 DEF TakeNullMutex, Restart, ScheduleInv
<1>3. CASE ArmTimer
  <2>1. pc'["task_relay"] = pc["task_relay"] /\ rno' = rno /\ lag' = lag
    BY <1>3 DEF ArmTimer
  <2>2. pc["task_relay"] \notin SwitchPcs \union {"scan", "return"}
    BY <1>3 DEF ArmTimer, LockInv
  <2>3. /\ Steps(req.timems) \in Int
        /\ remain'[rno["httpd"]] = req.timems
        /\ due'[rno["httpd"]] = Steps(req.timems) - lag
    BY <1>3, StepsType DEF ArmTimer, LocationsOK
  <2>4. \A r \in RelayNos : r # rno["httpd"] => remain'[r] = remain[r] /\ due'[r] = due[r]
    BY <1>3 DEF ArmTimer
  <2>5. \A r \in RelayNos : Pending(r)' = Pending(r)
    BY <2>1 DEF Pending
  <2> QED
    BY <2>1, <2>3, <2>4, <2>5 DEF ScheduleInv, Steps
<1>4. CASE FinishRequest
  BY <1>4, ScheduleFrame DEF FinishRequest, histVars
<1>5. CASE Switch("httpd")
  BY <1>5, ScheduleFrame DEF Switch, SetA, SetB, ClearA, ClearB, Store, histVars
<1>6. CASE Switch("task_relay")
  <2>1. remain' = remain /\ due' = due /\ lag' = lag /\ rno' = rno
    BY <1>6 DEF Switch, SetA, SetB, ClearA, ClearB, Store, histVars
  <2>2. /\ pc["task_relay"] \in SwitchPcs
        /\ pc'["task_relay"] \in SwitchPcs \union {"return"}
    BY <1>6 DEF Switch, SetA, SetB, ClearA, ClearB, Store, SwitchPcs
  <2>3. \A r \in RelayNos : Pending(r)' = Pending(r)
    BY <2>1, <2>2 DEF Pending, SwitchPcs
  <2> QED
    BY <2>1, <2>2, <2>3 DEF ScheduleInv, SwitchPcs, Steps
<1>7. CASE CreateMutex \/ ZeroTimers
  BY <1>7 DEF CreateMutex, ZeroTimers, ScheduleInv
<1>8. CASE TakeMutex
  <2>1. remain' = remain /\ due' = due /\ lag' = lag
    BY <1>8 DEF TakeMutex, histVars
  <2>2. \A r \in RelayNos : Pending(r) /\ Pending(r)'
    BY <1>8 DEF TakeMutex, Pending, RelayNos
  <2> QED
    BY <1>8, <2>1, <2>2 DEF TakeMutex, ScheduleInv, Steps
<1>9. CASE SkipRelay
  <2>1. remain' = remain /\ due' = due /\ lag' = lag
    BY <1>9 DEF SkipRelay, histVars
  <2>2. \A r \in RelayNos : remain[r] > 0 => Pending(r)' = Pending(r)
    <3>1. PICK c \in RelayNos : c = rno["task_relay"]
      BY <1>9 DEF SkipRelay
    <3>2. /\ remain[c] <= 0 /\ rno'["task_relay"] = c + 1
          /\ pc["task_relay"] = "scan" /\ pc'["task_relay"] = "scan"
      BY <1>9, <3>1 DEF SkipRelay
    <3>3. \A r \in RelayNos : r \in Nat /\ remain[r] \in Int
      BY DEF RelayNos
    <3> QED
      BY ONLY <3>1, <3>2, <3>3 DEF Pending, SwitchPcs
  <2> QED
    BY <1>9, <2>1, <2>2 DEF SkipRelay, ScheduleInv, Steps
<1>10. CASE CountDown
  <2>1. PICK c \in RelayNos : c = rno["task_relay"]
    BY <1>10 DEF CountDown
  <2>2. /\ remain[c] > 0 /\ remain'[c] = remain[c] - StepMs
        /\ due' = due /\ lag' = lag
        /\ pc["task_relay"] = "scan" /\ pc'["task_relay"] = "scan"
        /\ rno'["task_relay"] = c + 1
        /\ \A r \in RelayNos : r # c => remain'[r] = remain[r]
    BY <1>10, <2>1 DEF CountDown, histVars
  <2>3. /\ Pending(c) /\ ~Pending(c)'
        /\ \A r \in RelayNos : r # c => Pending(r)' = Pending(r)
    <3>1. c \in Nat /\ rno["task_relay"] = c /\ \A r \in RelayNos : r \in Nat
      BY <2>1 DEF RelayNos
    <3> QED
      BY ONLY <2>2, <3>1 DEF Pending, SwitchPcs
  <2>4. Steps(remain'[c]) = Steps(remain[c]) - 1 /\ Steps(remain[c]) \in Int
    BY <2>2, StepsCount, StepsType
  <2>5. due[c] + lag - Steps(remain[c]) \in {-1, 0}
    BY <2>2, <2>3 DEF ScheduleInv
  <2>6. due[c] + lag - Steps(remain'[c]) \in {0, 1}
    BY <2>4, <2>5
  <2> QED
    BY <2>2, <2>3, <2>6 DEF ScheduleInv, Steps
<1>11. CASE Expire
  <2>1. PICK c \in RelayNos : c = rno["task_relay"]
    BY <1>11 DEF Expire
  <2>2. /\ remain'[c] = 0 /\ due' = due /\ lag' = lag
        /\ pc["task_relay"] = "scan" /\ pc'["task_relay"] = "setA"
        /\ rno'["task_relay"] = c
        /\ \A r \in RelayNos : r # c => remain'[r] = remain[r]
    BY <1>11, <2>1 DEF Expire, histVars
  <2>3. \A r \in RelayNos : r # c => Pending(r)' = Pending(r)
    BY <2>1, <2>2 DEF Pending, SwitchPcs, RelayNos
  <2> QED
    BY <2>2, <2>3 DEF ScheduleInv, Steps
<1>12. CASE NextRelay
  <2>1. remain' = remain /\ due' = due /\ lag' = lag
    BY <1>12 DEF NextRelay, histVars
  <2>2. \A r \in RelayNos : Pending(r)' = Pending(r)
    <3>1. /\ pc["task_relay"] = "return" /\ pc'["task_relay"] = "scan"
          /\ rno'["task_relay"] = rno["task_relay"] + 1
      BY <1>12 DEF NextRelay
    <3>2. rno["task_relay"] \in Int /\ \A r \in RelayNos : r \in Int
      BY DEF RelayNos, IndexNos
    <3> QED
      BY <3>1, <3>2 DEF Pending, SwitchPcs
  <2> QED
    BY <1>12, <2>1, <2>2 DEF NextRelay, ScheduleInv, Steps
<1>13. CASE GiveMutex
  <2>1. remain' = remain /\ due' = due /\ lag' = lag
    BY <1>13 DEF GiveMutex, histVars
  <2>2. \A r \in RelayNos : ~Pending(r) /\ ~Pending(r)'
    BY <1>13 DEF GiveMutex, Pending, RelayNos, IndexNos, SwitchPcs
  <2> QED
    BY <1>13, <2>1, <2>2 DEF GiveMutex, ScheduleInv, Steps
<1>14. CASE Wake
  <2>1. remain' = remain /\ due' = due /\ lag' = lag - 1
    BY <1>14 DEF Wake, histVars
  <2>2. \A r \in RelayNos : ~Pending(r) /\ Pending(r)'
    BY <1>14 DEF Wake, Pending, SwitchPcs
  <2>3. \A r \in RelayNos : Steps(remain[r]) \in Int /\ due[r] \in Int
    BY StepsType
  <2> QED
    BY <1>14, <2>1, <2>2, <2>3 DEF Wake, ScheduleInv, Steps
<1>15. CASE Tick
  <2>1. /\ pc' = pc /\ rno' = rno /\ remain' = remain
        /\ pc["task_relay"] # "create" => lag' = lag + 1
        /\ \A r \in RelayNos : remain[r] > 0 => due'[r] = due[r] - 1
    BY <1>15 DEF Tick
  <2>2. \A r \in RelayNos : Pending(r)' = Pending(r)
    BY <2>1 DEF Pending
  <2>3. \A r \in RelayNos : Steps(remain[r]) \in Int /\ due[r] \in Int
    BY StepsType
  <2> QED
    BY <2>1, <2>2, <2>3 DEF ScheduleInv, Steps
<1>16. CASE UNCHANGED vars
  BY <1>16, ScheduleFrame DEF vars, taskVars, histVars
<1> QED
  BY <1>1, <1>2, <1>3, <1>4, <1>5, <1>6, <1>7, <1>8, <1>9, <1>10, <1>11, <1>12, <1>13,
     <1>14, <1>15, <1>16 DEF Next, Httpd, TaskRelay

-----------------------------------------------------------------------------
(* The undisturbed switch. *)

\* What CleanInv says of relay r.
CleanRelay(r) ==
  clean[r] =>
    /\ \A t, u \in Tasks : Driving(t, r) /\ Driving(u, r) => t = u
    /\ \A t \in Tasks : Driving(t, r) => Progress(t, r)
    /\ (\A t \in Tasks : ~Driving(t, r)) => state[r] = Contact(r)

\* A step that leaves relay r and the tasks that drive it alone.
LEMMA CleanFrame ==
  ASSUME NEW r \in RelayNos, CleanRelay(r),
         clean'[r] = clean[r], state'[r] = state[r],
         pinA'[r] = pinA[r], pinB'[r] = pinB[r],
         latch'[r] = latch[r], pulse'[r] = pulse[r],
         \A t \in Tasks : Driving(t, r)' = Driving(t, r),
         \A t \in Tasks : Driving(t, r) =>
            pc'[t] = pc[t] /\ want'[t] = want[t] /\ delay'[t] = delay[t]
  PROVE  CleanRelay(r)'
<1>1. Contact(r)' = Contact(r) /\ EnergisedA(r)' = EnergisedA(r) /\ EnergisedB(r)' = EnergisedB(r)
  BY DEF Contact, EnergisedA, EnergisedB
<1>2. ASSUME NEW t \in Tasks, Driving(t, r), Progress(t, r) PROVE Progress(t, r)'
  BY <1>1, <1>2 DEF Progress
<1> QED
  BY <1>1, <1>2 DEF CleanRelay

\* relay_switch by task t, seen from the relay it switches.  Coil B is off when t
\* begins alone, by CoilInv; from then on only t writes the pins.
LEMMA CleanOwn ==
  ASSUME TypeOK, CoilInv, NEW r \in RelayNos, CleanRelay(r),
         NEW t \in Tasks, rno[t] = r, Switch(t)
  PROVE  CleanRelay(r)'
<1> USE RelayAssumption DEF TypeOK, RangesOK
<1>1. RelayType[r] \in {"NORMAL", "LATCHING"} /\ want[t] \in BOOLEAN
  OBVIOUS
<1>2. /\ rno' = rno /\ want' = want /\ latch' = latch /\ pulse' = pulse
      /\ \A u \in Tasks \ {t} : Driving(u, r)' = Driving(u, r)
  BY DEF Switch, SetA, SetB, ClearA, ClearB, Store, physVars, Driving
<1>3. CASE SetA(t)
  <2> SUFFICES ASSUME clean'[r] PROVE CleanRelay(r)'
    BY DEF CleanRelay
  <2>1. \A u \in Tasks \ {t} : ~Driving(u, r)
    BY <1>3 DEF SetA
  <2>2. ~Driving(t, r) /\ Driving(t, r)'
    BY <1>3 DEF SetA, Driving, SwitchPcs
  <2>3. EnergisedA(r)' = want[t] /\ EnergisedB(r)' = EnergisedB(r)
    BY <1>1, <1>3 DEF SetA, EnergisedA, EnergisedB, Level
  <2>4. RelayType[r] = "LATCHING" => ~EnergisedB(r)
    <3>1. \A u \in Tasks : ~HoldsB(u, r)
      BY <2>1, <2>2 DEF HoldsB, Driving, SwitchPcs
    <3> QED
      BY <3>1 DEF CoilInv
  <2>5. pc'[t] = IF RelayType[r] = "LATCHING" THEN "setB" ELSE "store"
    BY <1>3 DEF SetA
  <2>6. Progress(t, r)'
    BY <1>1, <1>2, <2>3, <2>4, <2>5 DEF Progress
  <2> QED
    BY <1>2, <2>1, <2>2, <2>6 DEF CleanRelay
<1>4. ASSUME ~SetA(t) PROVE CleanRelay(r)'
  <2>1. clean' = clean /\ Driving(t, r)
    BY <1>4 DEF Switch, SetB, ClearA, ClearB, Store, histVars, Driving, SwitchPcs
  <2> SUFFICES ASSUME clean[r] PROVE CleanRelay(r)'
    BY <2>1 DEF CleanRelay
  <2>2. Progress(t, r) /\ \A u \in Tasks \ {t} : ~Driving(u, r)
    BY <2>1 DEF CleanRelay
  <2>3. CASE SetB(t)
    <3>1. pc[t] = "setB" /\ pc'[t] = "pulse" /\ delay'[t] = PulseTicks
      BY <2>3 DEF SetB
    <3>2. RelayType[r] = "LATCHING" /\ EnergisedA(r) = want[t]
      BY <1>1, <2>2, <3>1 DEF Progress
    <3>3. EnergisedA(r)' = want[t] /\ EnergisedB(r)' = ~want[t]
      BY <1>1, <2>3, <3>2 DEF SetB, EnergisedA, EnergisedB, Level
    <3>4. Progress(t, r)' /\ Driving(t, r)'
      BY <1>2, <2>1, <3>1, <3>2, <3>3 DEF Progress, Driving, SwitchPcs
    <3> QED
      BY <1>2, <2>2, <3>4 DEF CleanRelay
  <2>4. CASE ClearA(t) \/ ClearB(t)
    <3>1. /\ pc[t] \in {"pulse", "clearB"} /\ pc'[t] \in {"clearB", "store"}
          /\ pc[t] = "pulse" => delay[t] = 0
      BY <2>4 DEF ClearA, ClearB
    <3>2. RelayType[r] = "LATCHING" /\ latch[r] = want[t]
      BY <1>1, <2>2, <3>1 DEF Progress
    <3>3. Progress(t, r)' /\ Driving(t, r)'
      BY <1>2, <2>1, <3>1, <3>2 DEF Progress, Driving, SwitchPcs
    <3> QED
      BY <1>2, <2>2, <3>3 DEF CleanRelay
  <2>5. CASE Store(t)
    <3>1. pc[t] = "store" /\ pc'[t] = "return" /\ state'[r] = want[t] /\ pinA' = pinA
      BY <2>5 DEF Store, pinVars
    <3>2. Contact(r) = want[t]
      BY <1>1, <2>2, <3>1 DEF Progress, Contact
    <3>3. Contact(r)' = want[t] /\ ~Driving(t, r)'
      BY <1>2, <3>1, <3>2 DEF Contact, EnergisedA, Driving, SwitchPcs
    <3> QED
      BY <1>2, <2>2, <3>1, <3>3 DEF CleanRelay
  <2> QED
    BY <1>4, <2>3, <2>4, <2>5 DEF Switch
<1> QED
  BY <1>3, <1>4

\* A tick.  A task that drives a relay lets time pass only in the pulse, whose
\* ticks are counted down in `delay' as they are counted up in `pulse'; the last
\* of them has moved the armature for sure.  An idle relay has no coil on.
LEMMA CleanTick ==
  ASSUME TypeOK, CoilInv, NEW r \in RelayNos, CleanRelay(r), Tick
  PROVE  CleanRelay(r)'
<1> USE RelayAssumption DEF TypeOK, RangesOK
<1>1. /\ pc' = pc /\ rno' = rno /\ want' = want /\ state' = state
      /\ pinA' = pinA /\ pinB' = pinB /\ clean' = clean
  BY DEF Tick, pinVars
<1>2. /\ RelayType[r] \in {"NORMAL", "LATCHING"}
      /\ pulse'[r] = Driven(r)
      /\ latch'[r] \in Settles(r, Driven(r))
  BY DEF Tick
<1>3. /\ \A t \in Tasks : Driving(t, r)' = Driving(t, r)
      /\ EnergisedA(r)' = EnergisedA(r) /\ EnergisedB(r)' = EnergisedB(r)
  BY <1>1 DEF Driving, EnergisedA, EnergisedB
<1> SUFFICES ASSUME clean[r] PROVE CleanRelay(r)'
  BY <1>1 DEF CleanRelay
<1>4. CASE \A t \in Tasks : ~Driving(t, r)
  <2>1. state[r] = Contact(r)
    BY <1>4 DEF CleanRelay
  <2>2. CASE RelayType[r] = "LATCHING"
    <3>1. ~EnergisedA(r) /\ ~EnergisedB(r)
      BY <1>4, <2>2 DEF CoilInv, HoldsA, HoldsB, Driving, SwitchPcs
    <3>2. Driven(r).dir = "none"
      BY <3>1 DEF Driven, Drive
    <3>3. latch'[r] = latch[r]
      BY <1>2, <3>2 DEF Settles
    <3> QED
      BY <1>1, <1>3, <1>4, <2>1, <2>2, <3>3 DEF CleanRelay, Contact
  <2>3. CASE RelayType[r] = "NORMAL"
    BY <1>1, <1>3, <1>4, <2>1, <2>3 DEF CleanRelay, Contact
  <2> QED
    BY <1>2, <2>2, <2>3
<1>5. ASSUME NEW t \in Tasks, Driving(t, r) PROVE Progress(t, r)'
  <2>1. pc[t] = "pulse" /\ delay[t] > 0
    BY <1>5 DEF Tick, Blocked, Driving, SwitchPcs
  <2>2. /\ RelayType[r] = "LATCHING"
        /\ EnergisedA(r) = want[t] /\ EnergisedB(r) = ~want[t]
        /\ delay[t] < PulseTicks =>
             /\ pulse[r].dir = IF want[t] THEN "on" ELSE "off"
             /\ pulse[r].ticks >= PulseTicks - delay[t]
    BY <1>2, <1>5, <2>1 DEF CleanRelay, Progress
  <2>3. /\ delay[t] \in 1..PulseTicks /\ delay'[t] = delay[t] - 1
        /\ pulse[r].ticks \in 0..PulseTicks
    BY <2>1 DEF Tick, Ticks
  <2>4. Drive(r) = IF want[t] THEN "on" ELSE "off"
    BY <2>2 DEF Drive
  <2>5. /\ Driven(r).dir = IF want[t] THEN "on" ELSE "off"
        /\ Driven(r).ticks = IF Drive(r) = pulse[r].dir
                               THEN Smaller(pulse[r].ticks + 1, PulseTicks) ELSE 1
    BY <2>4 DEF Driven
  <2>6. Driven(r).ticks \in 1..PulseTicks /\ Driven(r).ticks >= PulseTicks - delay'[t]
    BY <2>2, <2>3, <2>4, <2>5 DEF Smaller
  <2>7. delay'[t] = 0 => latch'[r] = want[t]
    <3> SUFFICES ASSUME delay'[t] = 0 PROVE latch'[r] = want[t]
      OBVIOUS
    <3>1. Driven(r).ticks = PulseTicks
      <4> HIDE DEF TypeOK, RangesOK
      <4>1. PICK n \in 1..PulseTicks : n = Driven(r).ticks /\ n >= PulseTicks
        BY <2>6
      <4>2. n = PulseTicks
        BY ONLY <4>1, RelayAssumption
      <4> QED
        BY <4>1, <4>2
    <3>2. latch'[r] = (Driven(r).dir = "on")
      BY <1>2, <2>5, <3>1 DEF Settles
    <3> QED
      BY <2>5, <3>2
  <2> QED
    BY <1>1, <1>2, <1>3, <2>1, <2>2, <2>5, <2>6, <2>7 DEF Progress
<1> QED
  BY <1>3, <1>4, <1>5 DEF CleanRelay

LEMMA CleanStep ==
  ASSUME TypeOK, CoilInv, CleanInv, [Next]_vars PROVE CleanInv'
<1> SUFFICES ASSUME NEW r \in RelayNos PROVE CleanRelay(r)'
  BY DEF CleanInv, CleanRelay
<1>1. CleanRelay(r)
  BY DEF CleanInv, CleanRelay
<1> USE DEF TypeOK, RangesOK, Tasks, SwitchPcs, Driving, pinVars, physVars, histVars
<1>2. CASE Receive
  BY <1>1, <1>2, CleanFrame
  DEF Receive, RejectRequest, UntimedCommand, TimedCommand, Accept, taskVars
<1>3. CASE TakeNullMutex \/ Restart
  BY <1>3 DEF TakeNullMutex, Restart, CleanRelay
<1>4. CASE ArmTimer \/ FinishRequest
  BY <1>1, <1>4, CleanFrame DEF ArmTimer, FinishRequest
<1>5. ASSUME NEW t \in Tasks, Switch(t) PROVE CleanRelay(r)'
  <2>1. CASE rno[t] = r
    BY <1>1, <1>5, <2>1, CleanOwn
  <2>2. CASE rno[t] # r
    <3>1. CASE SetA(t) \/ SetB(t)
      BY <1>1, <2>2, <3>1, CleanFrame DEF SetA, SetB
    <3>2. CASE ClearA(t) \/ ClearB(t) \/ Store(t)
      BY <1>1, <2>2, <3>2, CleanFrame DEF ClearA, ClearB, Store
    <3> QED
      BY <1>5, <3>1, <3>2 DEF Switch
  <2> QED
    BY <2>1, <2>2
<1>6. CASE CreateMutex \/ ZeroTimers \/ TakeMutex \/ GiveMutex
  BY <1>1, <1>6, CleanFrame DEF CreateMutex, ZeroTimers, TakeMutex, GiveMutex
<1>7. CASE SkipRelay \/ CountDown \/ Expire \/ NextRelay \/ Wake
  BY <1>1, <1>7, CleanFrame DEF SkipRelay, CountDown, Expire, NextRelay, Wake
<1>8. CASE Tick
  BY <1>1, <1>8, CleanTick
<1>9. CASE UNCHANGED vars
  BY <1>1, <1>9, CleanFrame DEF vars, taskVars
<1> QED
  BY <1>2, <1>3, <1>4, <1>5, <1>6, <1>7, <1>8, <1>9 DEF Next, Httpd, TaskRelay

-----------------------------------------------------------------------------
(* What onGetRelay reports. *)

\* What the reported states and the countdowns rest on while commands and
\* task_relay are under way (main.c set_timed_relay_state, task_relay; relay.c).
THEOREM ReportInductive == Spec => []ReportInv
<1>1. Init => ReportInv
  BY RelayAssumption
  DEF Init, Boot, ReportInv, CommandInv, CountInv, ScheduleInv, CleanInv, Tasks, SwitchPcs
<1>2. IInv /\ ReportInv /\ [Next]_vars => ReportInv'
  BY CommandStep, CountStep, ScheduleStep, CleanStep DEF IInv, ReportInv
<1> QED
  BY <1>1, <1>2, Inductive, PTL DEF Spec

\* The reported state is that of the contacts, a relay that counts is on, and a
\* countdown keeps to the time of task_relay: for any number of relays, any
\* pulse length, any step and any requests.
THEOREM ReportsTruth == Spec => []ReportIsTrue
<1>1. ReportInv => StateIsContact
  BY DEF ReportInv, CleanInv, StateIsContact
<1>2. ReportInv => CountingMeansOn
  BY DEF ReportInv, CountInv, CountingMeansOn, Quiet, Tasks
<1>3. ASSUME TypeOK, ReportInv, NEW r \in RelayNos, Expiring(r)
      PROVE  due[r] + lag \in {0, 1}
  <2>1. remain[r] > 0 /\ Steps(remain[r]) = 1 /\ due[r] \in Int /\ lag \in Int
    BY <1>3, StepsCount DEF Expiring, TypeOK, RangesOK
  <2>2. Pending(r)
    BY <1>3 DEF Expiring, Pending, RelayNos
  <2> QED
    BY <1>3, <2>1, <2>2 DEF Expiring, ReportInv, ScheduleInv
<1>4. TypeOK /\ ReportInv => ReportIsTrue
  BY <1>1, <1>2, <1>3 DEF ReportIsTrue, TimerOnSchedule
<1> QED
  BY <1>4, TypeCorrect, ReportInductive, PTL
=============================================================================
