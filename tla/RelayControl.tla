---------------------------- MODULE RelayControl ----------------------------
(***************************************************************************)
(* The relay outputs of the station: relay_switch (main/relay.c), the      *)
(* commands of main/main.c, the countdown loop task_relay, and the HTTP    *)
(* handler onSetRelay (main/webserver.c) that issues the commands.         *)
(*                                                                         *)
(* Two FreeRTOS tasks of equal priority run on the two cores.  "httpd"     *)
(* serves one request at a time; "task_relay" wakes every StepMs and       *)
(* counts the timed relays down.  A timed command works under the mutex    *)
(* mtxRelayTime, an untimed one takes no lock at all.  Every shared access *)
(* is a step of its own, so the tasks interleave between any two of them.  *)
(*                                                                         *)
(* Time advances in ticks of StepMs, and only while no task can run: the   *)
(* code between two blocking calls takes microseconds.                     *)
(***************************************************************************)
EXTENDS Integers, FiniteSets

CONSTANTS
  N_RELAYS,       \* relay.h: number of relays, numbered from 1
  RelayType,      \* RELAY_TYPES: relay number -> "NORMAL" or "LATCHING"
  HighEffective,  \* setup_relays: is the driven level of a pin high?
  StepMs,         \* task_relay: stepms
  PulseTicks,     \* relay_switch: the 200 ms delay, in ticks of StepMs
  Requests,       \* the POST bodies that clients send to /setrelay
  StackValues,    \* what the uninitialised sVal of onSetRelay may read as
  Missing,        \* marks an argument the body does not carry
  MaxLag          \* bound: no request is accepted while task_relay is
                  \* more than MaxLag wake-ups late

RelayNos == 1..N_RELAYS
IndexNos == 1..(N_RELAYS + 1)  \* what the loop index of task_relay takes
Ticks    == 0..PulseTicks

ASSUME RelayAssumption ==
  /\ N_RELAYS \in Nat \ {0}
  /\ RelayType \in [RelayNos -> {"NORMAL", "LATCHING"}]
  /\ HighEffective \in BOOLEAN
  /\ StepMs \in Nat \ {0}
  /\ PulseTicks \in Nat \ {0}
  /\ MaxLag \in Nat
  /\ Missing \notin Int
  /\ StackValues \subseteq {i \in Int : i <= N_RELAYS}
  /\ \A q \in Requests :
       q \in [relayno : {i \in Int : i <= N_RELAYS} \union {Missing},
              state : Int \union {Missing}, timems : Int \union {Missing}]

VARIABLES
  pc,      \* where each task is
  rno,     \* the relay each task works on; task_relay's loop index
  want,    \* the argument `state` of each task's relay_switch
  req,     \* the arguments onSetRelay understood
  mtx,     \* mtxRelayTime: "NULL", "free", or the task that holds it
  remain,  \* RelayTimemsRemain
  state,   \* Relays[r].state
  pinA,    \* level of each relay's pin A
  pinB,    \* level of each relay's pin B
  delay,   \* ticks left of each task's vTaskDelay
  lag,     \* ticks since task_relay's tickPrevWake
  latch,   \* physical: the position of each latching armature
  pulse,   \* physical: what has driven each armature, and for how many ticks
  clean,   \* history: the last switch of the relay overlapped no other
  manual,  \* history: the last command for the relay was an untimed one
  due      \* history: ticks until the countdown should end, reckoned from
           \* task_relay's own time (tickPrevWake) when the timer was armed

taskVars == <<pc, rno, want, delay, lag>>
physVars == <<latch, pulse>>
pinVars  == <<pinA, pinB>>
histVars == <<clean, manual, due>>
vars == <<taskVars, req, mtx, remain, state, pinVars, physVars, histVars>>

Tasks == {"httpd", "task_relay"}

\* Locations inside relay_switch, in program order.
SwitchPcs == {"setA", "setB", "pulse", "clearB", "store"}

Pcs == SwitchPcs \union {"idle", "take", "return", "create", "zero", "scan", "sleep"}

NoRequest == [relayno |-> 0, state |-> 0, timems |-> 0]

EnergisedA(r) == pinA[r] = HighEffective
EnergisedB(r) == pinB[r] = HighEffective

\* Task t has entered relay_switch for relay r.
Inside(t, r) == rno[t] = r /\ pc[t] \in SwitchPcs

\* Task t has written to the pins of r, or is about to store its state.
Driving(t, r) == rno[t] = r /\ pc[t] \in SwitchPcs \ {"setA"}

Quiet(r) == \A t \in Tasks : ~Inside(t, r)

(***************************************************************************)
(* Boot: setup_relays has driven every pin idle and cleared every state,   *)
(* the web server listens, and task_relay has yet to run.  The armature of *)
(* a latching relay keeps the position it had before the boot.             *)
(***************************************************************************)
Boot ==
  /\ pc = [t \in Tasks |-> IF t = "httpd" THEN "idle" ELSE "create"]
  /\ rno = [t \in Tasks |-> 1]
  /\ want = [t \in Tasks |-> FALSE]
  /\ req = NoRequest
  /\ mtx = "NULL"
  /\ remain = [r \in RelayNos |-> 0]
  /\ state = [r \in RelayNos |-> FALSE]
  /\ pinA = [r \in RelayNos |-> ~HighEffective]
  /\ pinB = [r \in RelayNos |-> ~HighEffective]
  /\ delay = [t \in Tasks |-> 0]
  /\ lag = 0
  /\ pulse = [r \in RelayNos |-> [dir |-> "none", ticks |-> 0]]
  /\ clean = [r \in RelayNos |-> FALSE]
  /\ manual = [r \in RelayNos |-> FALSE]
  /\ due = [r \in RelayNos |-> 0]

Init == Boot /\ latch \in [RelayNos -> BOOLEAN]

\* A reset, a power loss or a failed assertion: only the armatures survive.
Restart ==
  /\ pc' = [t \in Tasks |-> IF t = "httpd" THEN "idle" ELSE "create"]
  /\ rno' = [t \in Tasks |-> 1]
  /\ want' = [t \in Tasks |-> FALSE]
  /\ req' = NoRequest
  /\ mtx' = "NULL"
  /\ remain' = [r \in RelayNos |-> 0]
  /\ state' = [r \in RelayNos |-> FALSE]
  /\ pinA' = [r \in RelayNos |-> ~HighEffective]
  /\ pinB' = [r \in RelayNos |-> ~HighEffective]
  /\ delay' = [t \in Tasks |-> 0]
  /\ lag' = 0
  /\ pulse' = [r \in RelayNos |-> [dir |-> "none", ticks |-> 0]]
  /\ clean' = [r \in RelayNos |-> FALSE]
  /\ manual' = [r \in RelayNos |-> FALSE]
  /\ due' = [r \in RelayNos |-> 0]
  /\ UNCHANGED latch

-----------------------------------------------------------------------------
(* onSetRelay: parsing. *)

\* httpdFindArg leaves sVal alone when the argument is missing, and its -1 is
\* stored in an unsigned lenVal, which passes the test lenVal > 0: atoi reads
\* whatever sVal held before, first garbage and then the previous argument.
Found(arg, sVal) == IF arg = Missing THEN sVal ELSE arg

Parsed(q, garbage) ==
  LET relayno == Found(q.relayno, garbage)
      st      == Found(q.state, relayno)
  IN  [relayno |-> relayno, state |-> st, timems |-> Found(q.timems, st)]

Valid(p) == p.relayno > 0 /\ p.state >= 0

\* The body arrives; task_relay is not too far behind (see MaxLag).
Accept(p) ==
  /\ pc["httpd"] = "idle"
  /\ lag <= MaxLag
  /\ req' = p

\* Answered with status 300, nothing else happens.
RejectRequest(q, garbage) ==
  /\ Accept(Parsed(q, garbage))
  /\ ~Valid(req')
  /\ UNCHANGED <<taskVars, mtx, remain, state, pinVars, physVars, histVars>>

\* set_relay_state: straight into relay_switch, without the mutex.
UntimedCommand(q, garbage) ==
  /\ Accept(Parsed(q, garbage))
  /\ Valid(req')
  /\ req'.timems <= 0
  /\ pc' = [pc EXCEPT !["httpd"] = "setA"]
  /\ rno' = [rno EXCEPT !["httpd"] = req'.relayno]
  /\ want' = [want EXCEPT !["httpd"] = req'.state # 0]
  /\ manual' = [manual EXCEPT ![req'.relayno] = TRUE]
  /\ UNCHANGED <<delay, lag, mtx, remain, state, pinVars, physVars, clean, due>>

\* set_timed_relay_state, as far as its xSemaphoreTake.
TimedCommand(q, garbage) ==
  /\ Accept(Parsed(q, garbage))
  /\ Valid(req')
  /\ req'.timems > 0
  /\ pc' = [pc EXCEPT !["httpd"] = "take"]
  /\ rno' = [rno EXCEPT !["httpd"] = req'.relayno]
  /\ UNCHANGED <<want, delay, lag, mtx, remain, state, pinVars, physVars, histVars>>

\* xSemaphoreTake(NULL): the kernel asserts and the station restarts.
TakeNullMutex ==
  /\ pc["httpd"] = "take"
  /\ mtx = "NULL"
  /\ Restart

\* How many passes of task_relay a countdown of ms takes.
Steps(ms) == (ms + StepMs - 1) \div StepMs

\* The mutex is taken and the countdown set; whatever `state` the client sent,
\* the relay is switched on.
ArmTimer ==
  /\ pc["httpd"] = "take"
  /\ mtx = "free"
  /\ mtx' = "httpd"
  /\ remain' = [remain EXCEPT ![rno["httpd"]] = req.timems]
  /\ want' = [want EXCEPT !["httpd"] = TRUE]
  /\ pc' = [pc EXCEPT !["httpd"] = "setA"]
  /\ manual' = [manual EXCEPT ![rno["httpd"]] = FALSE]
  /\ due' = [due EXCEPT ![rno["httpd"]] = Steps(req.timems) - lag]
  /\ UNCHANGED <<rno, delay, lag, req, state, pinVars, physVars, clean>>

\* xSemaphoreGive if it was a timed command; status 200 is sent.
FinishRequest ==
  /\ pc["httpd"] = "return"
  /\ pc' = [pc EXCEPT !["httpd"] = "idle"]
  /\ mtx' = IF mtx = "httpd" THEN "free" ELSE mtx
  /\ UNCHANGED <<rno, want, delay, lag, req, remain, state, pinVars, physVars, histVars>>

-----------------------------------------------------------------------------
(* relay_switch, executed by task t for the relay rno[t]. *)

\* The level that SET_PIN_LEVEL(pin, x == isHighEffective) writes.
Level(x) == x = HighEffective

SetA(t) ==
  LET r == rno[t] IN
  /\ pc[t] = "setA"
  /\ pinA' = [pinA EXCEPT ![r] = Level(want[t])]
  /\ pc' = [pc EXCEPT ![t] = IF RelayType[r] = "LATCHING" THEN "setB" ELSE "store"]
  /\ clean' = [clean EXCEPT ![r] = \A u \in Tasks \ {t} : ~Driving(u, r)]
  /\ UNCHANGED <<rno, want, delay, lag, req, mtx, remain, state, pinB, physVars, manual, due>>

SetB(t) ==
  /\ pc[t] = "setB"
  /\ pinB' = [pinB EXCEPT ![rno[t]] = ~Level(want[t])]
  /\ delay' = [delay EXCEPT ![t] = PulseTicks]
  /\ pc' = [pc EXCEPT ![t] = "pulse"]
  /\ UNCHANGED <<rno, want, lag, req, mtx, remain, state, pinA, physVars, histVars>>

ClearA(t) ==
  /\ pc[t] = "pulse"
  /\ delay[t] = 0
  /\ pinA' = [pinA EXCEPT ![rno[t]] = ~HighEffective]
  /\ pc' = [pc EXCEPT ![t] = "clearB"]
  /\ UNCHANGED <<rno, want, delay, lag, req, mtx, remain, state, pinB, physVars, histVars>>

\* Mutant: pin B is forgotten.
ClearB_Forgets(t) ==
  /\ pc[t] = "clearB"
  /\ pc' = [pc EXCEPT ![t] = "store"]
  /\ UNCHANGED <<rno, want, delay, lag, req, mtx, remain, state, pinVars, physVars, histVars>>

ClearB(t) ==
  /\ pc[t] = "clearB"
  /\ pinB' = [pinB EXCEPT ![rno[t]] = ~HighEffective]
  /\ pc' = [pc EXCEPT ![t] = "store"]
  /\ UNCHANGED <<rno, want, delay, lag, req, mtx, remain, state, pinA, physVars, histVars>>

Store(t) ==
  /\ pc[t] = "store"
  /\ state' = [state EXCEPT ![rno[t]] = want[t]]
  /\ pc' = [pc EXCEPT ![t] = "return"]
  /\ UNCHANGED <<rno, want, delay, lag, req, mtx, remain, pinVars, physVars, histVars>>

Switch(t) == SetA(t) \/ SetB(t) \/ ClearA(t) \/ ClearB(t) \/ Store(t)

-----------------------------------------------------------------------------
(* task_relay. *)

CreateMutex ==
  /\ pc["task_relay"] = "create"
  /\ mtx' = "free"
  /\ pc' = [pc EXCEPT !["task_relay"] = "zero"]
  /\ UNCHANGED <<rno, want, delay, lag, req, remain, state, pinVars, physVars, histVars>>

\* The countdowns are cleared, without the mutex that already exists.
ZeroTimers ==
  /\ pc["task_relay"] = "zero"
  /\ remain' = [r \in RelayNos |-> 0]
  /\ pc' = [pc EXCEPT !["task_relay"] = "take"]
  /\ UNCHANGED <<rno, want, delay, lag, req, mtx, state, pinVars, physVars, histVars>>

\* Mutant: task_relay counts down without the mutex.
TakeMutex_NoLock ==
  /\ pc["task_relay"] = "take"
  /\ rno' = [rno EXCEPT !["task_relay"] = 1]
  /\ pc' = [pc EXCEPT !["task_relay"] = "scan"]
  /\ UNCHANGED <<want, delay, lag, req, mtx, remain, state, pinVars, physVars, histVars>>

TakeMutex ==
  /\ pc["task_relay"] = "take"
  /\ mtx = "free"
  /\ mtx' = "task_relay"
  /\ rno' = [rno EXCEPT !["task_relay"] = 1]
  /\ pc' = [pc EXCEPT !["task_relay"] = "scan"]
  /\ UNCHANGED <<want, delay, lag, req, remain, state, pinVars, physVars, histVars>>

\* The loop over the relays: a relay that does not count, ...
SkipRelay ==
  LET r == rno["task_relay"] IN
  /\ pc["task_relay"] = "scan"
  /\ r \in RelayNos
  /\ remain[r] <= 0
  /\ rno' = [rno EXCEPT !["task_relay"] = r + 1]
  /\ UNCHANGED <<pc, want, delay, lag, req, mtx, remain, state, pinVars, physVars, histVars>>

\* Mutant: the remaining time is not compared with the step.
CountDown_NoFloor ==
  LET r == rno["task_relay"] IN
  /\ pc["task_relay"] = "scan"
  /\ r \in RelayNos
  /\ remain[r] > 0
  /\ remain' = [remain EXCEPT ![r] = @ - StepMs]
  /\ rno' = [rno EXCEPT !["task_relay"] = r + 1]
  /\ UNCHANGED <<pc, want, delay, lag, req, mtx, state, pinVars, physVars, histVars>>

\* Mutant: < for <= in the comparison with the step.
CountDown_OffByOne ==
  LET r == rno["task_relay"] IN
  /\ pc["task_relay"] = "scan"
  /\ r \in RelayNos
  /\ remain[r] >= StepMs
  /\ remain' = [remain EXCEPT ![r] = @ - StepMs]
  /\ rno' = [rno EXCEPT !["task_relay"] = r + 1]
  /\ UNCHANGED <<pc, want, delay, lag, req, mtx, state, pinVars, physVars, histVars>>

\* ... one that has more than a step to go, ...
CountDown ==
  LET r == rno["task_relay"] IN
  /\ pc["task_relay"] = "scan"
  /\ r \in RelayNos
  /\ remain[r] > StepMs
  /\ remain' = [remain EXCEPT ![r] = @ - StepMs]
  /\ rno' = [rno EXCEPT !["task_relay"] = r + 1]
  /\ UNCHANGED <<pc, want, delay, lag, req, mtx, state, pinVars, physVars, histVars>>

\* ... and one whose time is up, which is switched off under the mutex.
Expire ==
  LET r == rno["task_relay"] IN
  /\ pc["task_relay"] = "scan"
  /\ r \in RelayNos
  /\ remain[r] \in 1..StepMs
  /\ remain' = [remain EXCEPT ![r] = 0]
  /\ want' = [want EXCEPT !["task_relay"] = FALSE]
  /\ pc' = [pc EXCEPT !["task_relay"] = "setA"]
  /\ UNCHANGED <<rno, delay, lag, req, mtx, state, pinVars, physVars, histVars>>

NextRelay ==
  /\ pc["task_relay"] = "return"
  /\ rno' = [rno EXCEPT !["task_relay"] = @ + 1]
  /\ pc' = [pc EXCEPT !["task_relay"] = "scan"]
  /\ UNCHANGED <<want, delay, lag, req, mtx, remain, state, pinVars, physVars, histVars>>

GiveMutex ==
  /\ pc["task_relay"] = "scan"
  /\ rno["task_relay"] > N_RELAYS
  /\ mtx' = "free"
  /\ rno' = [rno EXCEPT !["task_relay"] = 1]
  /\ pc' = [pc EXCEPT !["task_relay"] = "sleep"]
  /\ UNCHANGED <<want, delay, lag, req, remain, state, pinVars, physVars, histVars>>

\* Mutant: vTaskDelay, which counts from now and so drops the passes missed.
Wake_Drifts ==
  /\ pc["task_relay"] = "sleep"
  /\ lag > 0
  /\ lag' = 0
  /\ pc' = [pc EXCEPT !["task_relay"] = "take"]
  /\ UNCHANGED <<rno, want, delay, req, mtx, remain, state, pinVars, physVars, histVars>>

\* vTaskDelayUntil returns once a period has passed since tickPrevWake, which
\* it moves on by exactly one period: a late task runs again at once.
Wake ==
  /\ pc["task_relay"] = "sleep"
  /\ lag > 0
  /\ lag' = lag - 1
  /\ pc' = [pc EXCEPT !["task_relay"] = "take"]
  /\ UNCHANGED <<rno, want, delay, req, mtx, remain, state, pinVars, physVars, histVars>>

-----------------------------------------------------------------------------
(* The clock, and the relays' mechanics. *)

\* Only the passing of time, a request or the other task can move t on.
Blocked(t) ==
  \/ pc[t] \in {"idle", "create"}
  \/ pc[t] = "take" /\ mtx \in Tasks \ {t}
  \/ pc[t] = "pulse" /\ delay[t] > 0
  \/ pc[t] = "sleep" /\ lag = 0

Drive(r) ==
  CASE EnergisedA(r) /\ EnergisedB(r)   -> "both"
    [] EnergisedA(r) /\ ~EnergisedB(r)  -> "on"
    [] ~EnergisedA(r) /\ EnergisedB(r)  -> "off"
    [] ~EnergisedA(r) /\ ~EnergisedB(r) -> "none"

Smaller(a, b) == IF a < b THEN a ELSE b

Driven(r) ==
  [dir |-> Drive(r),
   ticks |-> CASE Drive(r) = "none"       -> 0
               [] Drive(r) = pulse[r].dir -> Smaller(pulse[r].ticks + 1, PulseTicks)
               [] OTHER                   -> 1]

\* One coil moves the armature for sure after a whole pulse and perhaps
\* before; two coils against each other leave it anywhere.
Settles(r, p) ==
  CASE p.dir = "none" -> {latch[r]}
    [] p.dir = "both" -> BOOLEAN
    [] OTHER -> IF p.ticks = PulseTicks THEN {p.dir = "on"}
                                        ELSE {latch[r], p.dir = "on"}

Tick ==
  /\ \A t \in Tasks : Blocked(t)
  /\ delay' = [t \in Tasks |-> IF delay[t] > 0 THEN delay[t] - 1 ELSE 0]
  /\ lag' = IF pc["task_relay"] = "create" THEN 0 ELSE lag + 1
  /\ pulse' = [r \in RelayNos |-> Driven(r)]
  /\ latch' \in {l \in [RelayNos -> BOOLEAN] :
                    \A r \in RelayNos : l[r] \in Settles(r, Driven(r))}
  /\ due' = [r \in RelayNos |-> IF remain[r] > 0 THEN due[r] - 1 ELSE 0]
  /\ UNCHANGED <<pc, rno, want, req, mtx, remain, state, pinVars, clean, manual>>

\* Whether the load of relay r is connected.
Contact(r) == IF RelayType[r] = "LATCHING" THEN latch[r] ELSE EnergisedA(r)

-----------------------------------------------------------------------------
Receive ==
  \E q \in Requests, g \in StackValues :
    RejectRequest(q, g) \/ UntimedCommand(q, g) \/ TimedCommand(q, g)

Httpd == TakeNullMutex \/ ArmTimer \/ Switch("httpd") \/ FinishRequest

TaskRelay ==
  \/ CreateMutex \/ ZeroTimers \/ TakeMutex
  \/ SkipRelay \/ CountDown \/ Expire \/ NextRelay \/ GiveMutex
  \/ Switch("task_relay") \/ Wake

Next == Receive \/ Httpd \/ TaskRelay \/ Tick \/ Restart

Spec == Init /\ [][Next]_vars

(***************************************************************************)
(* Fairness: the scheduler runs a ready task, and time passes.  Requests   *)
(* and restarts are never forced.                                          *)
(***************************************************************************)
FairSpec == Spec /\ WF_vars(Httpd) /\ WF_vars(TaskRelay) /\ WF_vars(Tick)

-----------------------------------------------------------------------------
(* Properties. *)

RangesOK ==
  /\ pc \in [Tasks -> Pcs]
  /\ rno \in [Tasks -> IndexNos]
  /\ want \in [Tasks -> BOOLEAN]
  /\ mtx \in {"NULL", "free"} \union Tasks
  /\ remain \in [RelayNos -> Nat]
  /\ state \in [RelayNos -> BOOLEAN]
  /\ pinA \in [RelayNos -> BOOLEAN]
  /\ pinB \in [RelayNos -> BOOLEAN]
  /\ delay \in [Tasks -> Ticks]
  /\ lag \in Nat
  /\ latch \in [RelayNos -> BOOLEAN]
  /\ pulse \in [RelayNos -> [dir : {"none", "on", "off", "both"}, ticks : Ticks]]
  /\ clean \in [RelayNos -> BOOLEAN]
  /\ manual \in [RelayNos -> BOOLEAN]
  /\ due \in [RelayNos -> Int]
  /\ req \in [relayno : Int, state : Int, timems : Int]

LocationsOK ==
  /\ pc["httpd"] \in SwitchPcs \union {"idle", "take", "return"}
  /\ pc["task_relay"] \in Pcs \ {"idle"}
  /\ pc["httpd"] # "idle" => rno["httpd"] = req.relayno /\ req.relayno \in RelayNos
  /\ pc["httpd"] = "take" => req.timems > 0
  /\ pc["task_relay"] \in SwitchPcs \union {"return"} => rno["task_relay"] \in RelayNos

\* Every variable keeps to its range; among others, httpd works on the relay
\* it was asked for, and the loop index of task_relay does not leave the
\* relays while it switches one.
TypeOK == RangesOK /\ LocationsOK

\* mtxRelayTime does its work: task_relay switches a relay only as its holder,
\* and so does httpd for a timed command.
OnlyHolderSwitches ==
  /\ pc["task_relay"] \in SwitchPcs \union {"scan", "return"} => mtx = "task_relay"
  /\ pc["httpd"] \in SwitchPcs \union {"return"} => (mtx = "httpd" <=> req.timems > 0)

\* The two coils of a latching relay are driven against each other only when
\* an untimed command, which takes no lock, runs into the switching-off of an
\* expired countdown: never by timed commands, and never by one task alone.
CoilsOpposedOnlyByUntimed ==
  \A r \in RelayNos :
    RelayType[r] = "LATCHING" /\ EnergisedA(r) /\ EnergisedB(r) =>
      /\ Driving("httpd", r) /\ req.timems <= 0
      /\ Driving("task_relay", r) /\ mtx = "task_relay"

\* No coil of a latching relay is left energised: whatever the interleaving of
\* the two pulses, a coil is driven only while a task is still in relay_switch.
NoCoilLeftOn ==
  \A r \in RelayNos :
    RelayType[r] = "LATCHING" /\ (EnergisedA(r) \/ EnergisedB(r)) =>
      \E t \in Tasks : Driving(t, r)

\* The state that onGetRelay reports is the position of the contacts, when the
\* relay has been switched since the boot and its last switch overlapped no
\* other one.
StateIsContact ==
  \A r \in RelayNos :
    clean[r] /\ (\A t \in Tasks : ~Driving(t, r)) => state[r] = Contact(r)

\* A relay that still has time to run is on, unless an untimed command came
\* after the timed one.
CountingMeansOn ==
  \A r \in RelayNos : remain[r] > 0 /\ ~manual[r] /\ Quiet(r) => state[r]

\* task_relay serves a countdown of relay r, and no untimed command has come since.
Serving(r) ==
  remain[r] > 0 /\ ~manual[r] /\ pc["task_relay"] \notin {"create", "zero"}

\* Once requests stop coming, every countdown that task_relay serves ends with the
\* relay reported off, whatever was going on when the requests stopped.  Nothing is
\* said of a relay that an untimed command takes over: the countdown left behind
\* (main.c:74) ends that too, where webserver.c:287 has "0:forever".
CountdownEnds ==
  <>[](pc["httpd"] = "idle") =>
    \A r \in RelayNos : Serving(r) ~> manual[r] \/ (remain[r] = 0 /\ ~state[r])

\* The countdown of relay r has run out and task_relay is about to act on it.
Expiring(r) ==
  /\ pc["task_relay"] = "scan"
  /\ rno["task_relay"] = r
  /\ remain[r] \in 1..StepMs

\* A countdown keeps to task_relay's own time however often the task is held
\* up by pulses or by the mutex: a late task catches up and drops no pass.  So
\* a relay is switched off at most one period before its time by that clock,
\* and late by no more than the task is late.
TimerOnSchedule ==
  \A r \in RelayNos : Expiring(r) => due[r] + lag \in {0, 1}

\* What onGetRelay (webserver.c:351) reports is true, however commands, pulses and
\* late passes of task_relay interleave: the state is the contact's, and the
\* time that is left is left.
ReportIsTrue == StateIsContact /\ CountingMeansOn /\ TimerOnSchedule
=============================================================================
