-------------------------- MODULE QuestDBInitProofs --------------------------
(***************************************************************************)
(* Theorems about QuestDBInit, for every set of tables and every wait,     *)
(* attempt and interval.                                                   *)
(*                                                                         *)
(* The inductive invariant is TypeOK and three independent parts: Clock    *)
(* bounds the time in each state of the script, Since ties the moment the  *)
(* server came up to the attempt under way, Schema says what is known of   *)
(* the tables in each state.                                               *)
(*                                                                         *)
(* Left, towards the end, counts what the script may still do.             *)
(***************************************************************************)
EXTENDS QuestDBInit, FiniteSetTheorems, WellFoundedInduction, TLAPS

Clock ==
    /\ pc = "sleep" => elapsed < Wait
    /\ pc \in {"connect", "waiting"} => elapsed < Wait + Interval
    /\ elapsed < Late

\* An attempt begins on a server that is not up.
Since ==
    /\ server # "up" => upSince = Never
    /\ pc = "waiting" => upSince \in {Never, elapsed}
    /\ exitCode # NoExit => pc = "idle"
    /\ LateServerIsFound

Schema ==
    /\ scheduler \/ exitCode = 0 => Problems = {}
    /\ pc = "apply" /\ ~dropped => \A t \in Tables \ pending : table[t] # "absent"
    /\ pc = "verify" /\ ~checkOnly /\ ~dropped => \A t \in Tables : table[t] # "absent"
    /\ FailureHasCause

IInv == TypeOK /\ Clock /\ Since /\ Schema

\* The start-up begins in a state of the invariant.
LEMMA InitInv == Init => IInv
<1> SUFFICES ASSUME Init PROVE IInv
  OBVIOUS
<1>1. Flags
  BY Zenon DEF Init, Flags
<1>2. TypeOK
  BY <1>1, TimesAssumption, BoundsAssumption DEF Init, TypeOK, Late, NoExit, Never
<1>3. Clock /\ Since
  BY TimesAssumption
  DEF Init, Clock, Since, LateServerIsFound, Late, NoExit, Never
<1>4. Schema
  <2>1. ~scheduler /\ exitCode = 3 /\ pc = "idle"
    BY Zenon DEF Init, NoExit
  <2> QED
    BY <2>1 DEF Schema, FailureHasCause
<1> QED
  BY <1>2, <1>3, <1>4 DEF IInv

\* Flags stay flags.
LEMMA FlagsStep == Flags /\ [Next]_vars => Flags'
<1> SUFFICES ASSUME Flags, [Next]_vars PROVE Flags'
  OBVIOUS
<1> USE DEF Flags, bounds, script
<1>1. CASE ServerComes \/ ServerGoes
  BY <1>1, Zenon DEF ServerComes, ServerGoes
<1>2. ASSUME NEW t \in Tables, Accident(t) \/ DropWrong(t) PROVE Flags'
  BY <1>2, Zenon DEF Accident, DropWrong
<1>3. ASSUME NEW check \in BOOLEAN, Begin(check) PROVE Flags'
  BY <1>3, Zenon DEF Begin
<1>4. CASE Connect \/ BeginAttempt \/ ConnectFails \/ Sleep
  BY <1>4, Zenon DEF Connect, BeginAttempt, ConnectFails, Sleep
<1>5. CASE Apply \/ ConnectionLost \/ Verify
  BY <1>5, Zenon DEF Apply, ConnectionLost, Verify
<1>6. CASE StartScheduler \/ BeginIngest \/ EndIngest
  BY <1>6, Zenon DEF StartScheduler, BeginIngest, EndIngest
<1>7. CASE UNCHANGED vars
  BY <1>7, Zenon DEF vars
<1> QED
  BY <1>1, <1>2, <1>3, <1>4, <1>5, <1>6, <1>7, Zenon DEF Next, InitStep

\* No step leaves the types.
LEMMA TypeStep == TypeOK /\ [Next]_vars => TypeOK'
<1> SUFFICES ASSUME TypeOK, [Next]_vars PROVE TypeOK'
  OBVIOUS
<1>f. Flags'
  BY FlagsStep DEF TypeOK
<1> USE TimesAssumption, BoundsAssumption, <1>f DEF TypeOK, NoExit, Never, Late, Clip, bounds, script
<1>1. CASE ServerComes
  BY <1>1 DEF ServerComes
<1>2. CASE ServerGoes
  BY <1>2 DEF ServerGoes
<1>3. ASSUME NEW t \in Tables, Accident(t) PROVE TypeOK'
  BY <1>3 DEF Accident, TableStates, LooksFor
<1>4. ASSUME NEW t \in Tables, DropWrong(t) PROVE TypeOK'
  BY <1>4 DEF DropWrong, TableStates, LooksFor
<1>5. ASSUME NEW check \in BOOLEAN, Begin(check) PROVE TypeOK'
  BY <1>5 DEF Begin
<1>6. CASE Connect
  BY <1>6 DEF Connect
<1>7. CASE BeginAttempt \/ Sleep
  BY <1>7 DEF BeginAttempt, Sleep
<1>8. CASE ConnectFails
  BY <1>8 DEF ConnectFails, Durations, Expired, Exit
<1>9. CASE Apply
  BY <1>9 DEF Apply, Statement, TableStates
<1>10. CASE ConnectionLost \/ Verify
  BY <1>10 DEF ConnectionLost, Verify, Exit
<1>11. CASE StartScheduler \/ BeginIngest \/ EndIngest \/ UNCHANGED vars
  BY <1>11 DEF StartScheduler, BeginIngest, EndIngest, vars
<1> QED
  BY <1>1, <1>2, <1>3, <1>4, <1>5, <1>6, <1>7, <1>8, <1>9, <1>10, <1>11
  DEF Next, InitStep

\* Before the last attempt begins less than the wait and one pause have gone by.
LEMMA ClockStep == TypeOK /\ Clock /\ [Next]_vars => Clock'
<1> SUFFICES ASSUME TypeOK, Clock, [Next]_vars PROVE Clock'
  OBVIOUS
<1> USE TimesAssumption DEF TypeOK, Clock, Late, Clip, script
<1>1. CASE ServerComes \/ ServerGoes
  BY <1>1 DEF ServerComes, ServerGoes
<1>2. ASSUME NEW t \in Tables, Accident(t) \/ DropWrong(t) PROVE Clock'
  BY <1>2 DEF Accident, DropWrong
<1>3. ASSUME NEW check \in BOOLEAN, Begin(check) PROVE Clock'
  BY <1>3 DEF Begin
<1>4. CASE Connect \/ Apply
  BY <1>4 DEF Connect, Apply
<1>5. CASE BeginAttempt \/ Sleep
  BY <1>5 DEF BeginAttempt, Sleep
<1>6. CASE ConnectFails
  BY <1>6 DEF ConnectFails, Durations, Expired, Exit
<1>7. CASE ConnectionLost \/ Verify
  BY <1>7 DEF ConnectionLost, Verify, Exit
<1>8. CASE StartScheduler \/ BeginIngest \/ EndIngest \/ UNCHANGED vars
  BY <1>8 DEF StartScheduler, BeginIngest, EndIngest, vars
<1> QED
  BY <1>1, <1>2, <1>3, <1>4, <1>5, <1>6, <1>7, <1>8 DEF Next, InitStep

\* The attempt that was the last one began while the server was not up, and not
\* longer than one attempt before the end of the wait.
LEMMA SinceStep == TypeOK /\ Clock /\ Since /\ [Next]_vars => Since'
<1> SUFFICES ASSUME TypeOK, Clock, Since, [Next]_vars PROVE Since'
  OBVIOUS
<1> USE TimesAssumption DEF TypeOK, Clock, Since, LateServerIsFound, Late, Clip,
                            NoExit, Never, script
<1>1. CASE ServerComes \/ ServerGoes
  BY <1>1 DEF ServerComes, ServerGoes
<1>2. ASSUME NEW t \in Tables, Accident(t) \/ DropWrong(t) PROVE Since'
  BY <1>2 DEF Accident, DropWrong
<1>3. ASSUME NEW check \in BOOLEAN, Begin(check) PROVE Since'
  BY <1>3 DEF Begin
<1>4. CASE Connect \/ Apply
  BY <1>4 DEF Connect, Apply
<1>5. CASE BeginAttempt \/ Sleep
  BY <1>5 DEF BeginAttempt, Sleep
<1>6. CASE ConnectFails
  BY <1>6 DEF ConnectFails, Durations, Expired, Exit
<1>7. CASE ConnectionLost \/ Verify
  BY <1>7 DEF ConnectionLost, Verify, Exit
<1>8. CASE StartScheduler \/ BeginIngest \/ EndIngest \/ UNCHANGED vars
  BY <1>8 DEF StartScheduler, BeginIngest, EndIngest, vars
<1> QED
  BY <1>1, <1>2, <1>3, <1>4, <1>5, <1>6, <1>7, <1>8 DEF Next, InitStep

\* A right table stays right; what is verified was created, unless somebody
\* dropped it.
LEMMA SchemaStep == TypeOK /\ Since /\ Schema /\ [Next]_vars => Schema'
<1> SUFFICES ASSUME TypeOK, Since, Schema, [Next]_vars PROVE Schema'
  OBVIOUS
<1> USE DEF TypeOK, TableStates, Since, Schema, FailureHasCause, Problems, NoExit,
            script
<1>1. CASE ServerComes \/ ServerGoes
  <2>1. UNCHANGED <<table, pc, pending, exitCode>>
    BY <1>1 DEF ServerComes, ServerGoes
  <2>2. scheduler' = scheduler /\ checkOnly' = checkOnly /\ dropped' = dropped
    BY <1>1 DEF ServerComes, ServerGoes
  <2>3. CASE ServerGoes
    <3>1. lost' = (lost \/ (server' = "down" /\ pc \in {"apply", "verify"}))
      BY <2>3, Zenon DEF ServerGoes
    <3>2. lost => lost'
      BY <3>1, Zenon
    <3> QED
      BY <2>1, <2>2, <3>2
  <2>4. CASE ServerComes
    <3>1. lost' = lost
      BY <2>4 DEF ServerComes
    <3> QED
      BY <2>1, <2>2, <3>1
  <2> QED
    BY <1>1, <2>3, <2>4
<1>2. ASSUME NEW t \in Tables, Accident(t) PROVE Schema'
  BY <1>2 DEF Accident, LooksFor
<1>3. ASSUME NEW t \in Tables, DropWrong(t) PROVE Schema'
  BY <1>3 DEF DropWrong, LooksFor
<1>4. ASSUME NEW check \in BOOLEAN, Begin(check) PROVE Schema'
  <2>1. pc' = "connect" /\ exitCode' = 3
    BY <1>4 DEF Begin
  <2>2. table' = table /\ (scheduler' <=> scheduler)
    BY <1>4, Zenon DEF Begin
  <2> QED
    BY <2>1, <2>2
<1>5. CASE Connect
  BY <1>5 DEF Connect
<1>6. CASE BeginAttempt \/ Sleep
  BY <1>6 DEF BeginAttempt, Sleep
<1>7. CASE ConnectFails
  BY <1>7 DEF ConnectFails, Exit
<1>8. CASE Apply
  BY <1>8 DEF Apply, Statement, LooksFor
<1>9. CASE ConnectionLost
  BY <1>9 DEF ConnectionLost, Exit
<1>10. CASE Verify
  BY <1>10 DEF Verify, Exit, LooksFor
<1>11. CASE StartScheduler \/ BeginIngest \/ EndIngest \/ UNCHANGED vars
  BY <1>11 DEF StartScheduler, Completed, BeginIngest, EndIngest, vars
<1> QED
  BY <1>1, <1>2, <1>3, <1>4, <1>5, <1>6, <1>7, <1>8, <1>9, <1>10, <1>11
  DEF Next, InitStep

\* The invariant holds throughout.
LEMMA Invariance == Spec => []IInv
<1>1. IInv /\ [Next]_vars => IInv'
  BY TypeStep, ClockStep, SinceStep, SchemaStep DEF IInv
<1> QED
  BY InitInv, <1>1, PTL DEF Spec

\* The script stops trying to connect before the wait, one pause and one attempt
\* have gone by, whatever the server does, and never gives up on a server that
\* was up one attempt before the end.
THEOREM TriesLongEnoughHolds == Spec => []TriesLongEnough
<1>1. IInv => ConnectsInTime
  BY DEF IInv, Clock, ConnectsInTime
<1>2. IInv => LateServerIsFound
  BY DEF IInv, Since
<1>3. IInv => TriesLongEnough
  BY <1>1, <1>2 DEF IInv, TriesLongEnough
<1> QED
  BY <1>3, Invariance, PTL

\* A table that verify passes has nothing wrong that it looks for.
LEMMA UsableFollows == TypeOK /\ Problems = {} => \A t \in Tables : Usable(t)
BY DEF TypeOK, Problems, Usable

\* Once the scheduler runs, verify finds nothing to complain of, and will not
\* later: an insert cannot make a table that is there, and nobody drops one.
THEOREM SchedulerGated == Spec => []ScheduledOverVerified
<1>1. IInv => ScheduledOverVerified
  BY UsableFollows DEF IInv, Schema, ScheduledOverVerified
<1> QED
  BY <1>1, Invariance, PTL

\* A failed verification has a table that verify complains of for its cause.
THEOREM FailureCaused == Spec => []FailureHasCause
<1>1. IInv => FailureHasCause
  BY DEF IInv, Schema
<1> QED
  BY <1>1, Invariance, PTL

-----------------------------------------------------------------------------
(* Who ingests.                                                            *)

\* "the parser cannot start against an unverified schema", verified meaning what
\* verify looks for: as long as runs are started by the scheduler and by nobody
\* else.
THEOREM ScheduledRunsAreGated ==
    ASSUME ~AdHoc
    PROVE  Spec => []IngestsVerified
<1> DEFINE Gated == ingesting => scheduler
<1>1. Init => Gated
  BY Zenon DEF Init
<1>2. Gated /\ [Next]_vars => Gated'
  <2> SUFFICES ASSUME Gated, [Next]_vars PROVE Gated'
    OBVIOUS
  <2>1. CASE BeginIngest
    BY <2>1, Zenon DEF BeginIngest
  <2>2. CASE EndIngest \/ StartScheduler
    BY <2>2, Zenon DEF EndIngest, StartScheduler
  <2>3. CASE InitStep
    BY <2>3, Zenon DEF InitStep, Connect, BeginAttempt, ConnectFails, Sleep,
       Apply, ConnectionLost, Verify
  <2>4. CASE ServerComes \/ ServerGoes \/ UNCHANGED vars
    BY <2>4, Zenon DEF ServerComes, ServerGoes, vars
  <2>5. ASSUME NEW t \in Tables, Accident(t) \/ DropWrong(t) PROVE Gated'
    BY <2>5, Zenon DEF Accident, DropWrong
  <2>6. ASSUME NEW check \in BOOLEAN, Begin(check) PROVE Gated'
    BY <2>6, Zenon DEF Begin
  <2> QED
    BY <2>1, <2>2, <2>3, <2>4, <2>5, <2>6, Zenon DEF Next
<1>3. IInv /\ Gated => IngestsVerified
  BY UsableFollows DEF IInv, Schema, IngestsVerified
<1> QED
  BY <1>1, <1>2, <1>3, Invariance, PTL DEF Spec

-----------------------------------------------------------------------------
(* The script ends. Until it is connected it has its time left, of which   *)
(* every round of attempt and pause takes a second at least; then a        *)
(* statement for each table, and the verification.                         *)

Left ==
    CASE pc = "connect" -> 3 * (Late - elapsed) + Cardinality(Tables) + 4
      [] pc = "waiting" -> 3 * (Late - elapsed) + Cardinality(Tables) + 3
      [] pc = "sleep" -> 3 * (Late - elapsed) + Cardinality(Tables) + 2
      [] pc = "apply" -> Cardinality(pending) + 1
      [] pc = "verify" -> 1
      [] pc = "idle" -> 0

\* What a step does to what is left: the script's uses some of it up, and
\* nothing the server or anybody else does adds to it.
CountsDown == /\ InitStep => Left' < Left
              /\ pc # "idle" => Left' =< Left

\* The guards of InitStep: an attempt begins or connects at once, fails, is
\* followed by a pause; a connection is lost, or its statements are answered and
\* there is a first one to execute.
CanProceed ==
    \/ pc \in {"connect", "waiting", "sleep"}
    \/ pc \in {"apply", "verify"} /\ lost
    \/ pc = "apply" /\ Answering /\ \E t \in pending : \A u \in pending : t =< u
    \/ pc = "verify" /\ Answering

\* There is a statement to execute as long as the script executes them, and a
\* server that stopped has taken the connection with it.
SomePending == /\ pc = "apply" => pending # {}
               /\ pc \in {"apply", "verify"} => lost = TRUE \/ server # "down"

LEMMA LeastOf ==
    ASSUME NEW S \in SUBSET Nat, S # {}
    PROVE  \E i \in S : \A j \in S : i =< j
<1> DEFINE R == OpToRel(<, Nat)
<1>1. IsWellFoundedOn(R, Nat)
  BY NatLessThanWellFounded
<1>2. PICK i \in S : \A j \in S : ~ (<<j, i>> \in R)
  BY <1>1, WFMin, Zenon
<1>3. ASSUME NEW j \in S PROVE ~ (j < i)
  <2>1. <<j, i>> \in R <=> j < i
    BY DEF OpToRel
  <2> HIDE DEF R
  <2> QED
    BY <1>2, <2>1, Zenon
<1> QED
  BY <1>3

LEMMA SomePendingStep ==
    ASSUME Tables # {}, TypeOK, SomePending, [Next]_vars
    PROVE  SomePending'
<1> USE DEF SomePending, script
<1>1. CASE ServerComes \/ ServerGoes
  BY <1>1 DEF ServerComes, ServerGoes
<1>2. ASSUME NEW t \in Tables, Accident(t) \/ DropWrong(t) PROVE SomePending'
  BY <1>2 DEF Accident, DropWrong
<1>3. ASSUME NEW check \in BOOLEAN, Begin(check) PROVE SomePending'
  BY <1>3 DEF Begin
<1>4. CASE Connect
  BY <1>4 DEF Connect
<1>5. CASE BeginAttempt \/ ConnectFails \/ Sleep
  BY <1>5 DEF BeginAttempt, ConnectFails, Sleep, Exit
<1>6. CASE Apply
  BY <1>6 DEF Apply
<1>7. CASE ConnectionLost \/ Verify
  BY <1>7 DEF ConnectionLost, Verify, Exit
<1>8. CASE StartScheduler \/ BeginIngest \/ EndIngest \/ UNCHANGED vars
  BY <1>8 DEF StartScheduler, BeginIngest, EndIngest, vars
<1> QED
  BY <1>1, <1>2, <1>3, <1>4, <1>5, <1>6, <1>7, <1>8 DEF Next, InitStep

LEMMA InitStepCountsDown ==
    ASSUME IsFiniteSet(Tables), TypeOK, Clock, InitStep
    PROVE  Left' < Left /\ Left' =< Left
<1> SUFFICES Left' < Left /\ Left' \in Int /\ Left \in Int
  OBVIOUS
<1> USE TimesAssumption DEF Left, Late, Clip
<1>0. /\ Cardinality(Tables) \in Nat /\ elapsed \in 0 .. Late
      /\ IsFiniteSet(pending) /\ Cardinality(pending) \in Nat
      /\ pending \subseteq Tables
  <2>1. pending \subseteq Tables /\ elapsed \in 0 .. Late
    BY DEF TypeOK
  <2> QED
    BY <2>1, FS_Subset, FS_CardinalityType
<1>1. CASE Connect
  <2>1. /\ pc \in {"connect", "waiting"} /\ elapsed \in 0 .. Late
        /\ \/ pc' = "verify"
           \/ pc' = "apply" /\ pending' = Tables
    BY <1>0, <1>1 DEF Connect
  <2> QED
    BY <1>0, <2>1
<1>2. CASE BeginAttempt
  BY <1>0, <1>2 DEF BeginAttempt
<1>3. CASE ConnectFails
  <2>1. PICK d \in Durations :
           /\ elapsed' = Clip(elapsed + d)
           /\ IF Expired(elapsed + d)
              THEN Exit(2) ELSE pc' = "sleep" /\ UNCHANGED <<pending, exitCode>>
    BY <1>3 DEF ConnectFails
  <2>2. pc = "waiting" /\ d \in Nat
    BY <1>3 DEF ConnectFails, Durations
  <2>3. CASE Expired(elapsed + d)
    BY <1>0, <2>1, <2>2, <2>3 DEF Exit
  <2>4. CASE ~Expired(elapsed + d)
    <3>1. pc' = "sleep" /\ elapsed' = elapsed + d
      BY <1>0, <2>1, <2>2, <2>4 DEF Expired
    <3> QED
      BY <1>0, <2>2, <3>1
  <2> QED
    BY <2>3, <2>4
<1>4. CASE Sleep
  <2>1. pc = "sleep" /\ pc' = "connect" /\ elapsed < Wait
    BY <1>4 DEF Sleep, Clock
  <2>2. elapsed' = elapsed + Interval
    BY <1>0, <1>4, <2>1 DEF Sleep
  <2> QED
    BY <1>0, <2>1, <2>2
<1>5. CASE Apply
  <2>1. PICK t \in pending : pending' = pending \ {t}
    BY <1>5 DEF Apply, Statement
  <2>2. Cardinality(pending') = Cardinality(pending) - 1
    BY <1>0, <2>1, FS_RemoveElement
  <2>3. pc = "apply" /\ pc' \in {"verify", "apply"}
    BY <1>5 DEF Apply
  <2>4. Cardinality(pending) >= 1
    <3>1. IsFiniteSet(pending')
      BY <1>0, <2>1, FS_Subset
    <3>2. Cardinality(pending') \in Nat
      BY <3>1, FS_CardinalityType
    <3> QED
      BY <1>0, <2>2, <3>2
  <2> QED
    BY <1>0, <2>2, <2>3, <2>4
<1>6. CASE ConnectionLost \/ Verify
  BY <1>0, <1>6 DEF ConnectionLost, Verify, Exit
<1> QED
  BY <1>1, <1>2, <1>3, <1>4, <1>5, <1>6 DEF InitStep

LEMMA OthersLeaveIt ==
    ASSUME TypeOK, Next, ~InitStep, pc # "idle"
    PROVE  pc' = pc /\ elapsed' = elapsed /\ pending' = pending
<1> USE DEF script
<1>1. CASE ServerComes \/ ServerGoes
  BY <1>1 DEF ServerComes, ServerGoes
<1>2. ASSUME NEW t \in Tables, Accident(t) \/ DropWrong(t)
      PROVE  pc' = pc /\ elapsed' = elapsed /\ pending' = pending
  BY <1>2 DEF Accident, DropWrong
<1>3. ASSUME NEW check \in BOOLEAN, Begin(check) PROVE FALSE
  BY <1>3 DEF Begin
<1>4. CASE StartScheduler \/ BeginIngest \/ EndIngest
  BY <1>4 DEF StartScheduler, BeginIngest, EndIngest
<1> QED
  BY <1>1, <1>2, <1>3, <1>4 DEF Next

\* However the server comes and goes, a script that has begun has a step unless
\* it waits for a statement that a hanging server does not answer, and ends after
\* 3 * Late + Cardinality(Tables) + 4 of them at most: the time an attempt and a
\* pause take is what keeps it from trying for ever.
THEOREM ScriptRunsOut ==
    ASSUME IsFiniteSet(Tables), Tables # {}
    PROVE  Spec => /\ [](pc # "idle" => Hung \/ CanProceed)
                   /\ [](Left \in 0 .. 3 * Late + Cardinality(Tables) + 4)
                   /\ [][CountsDown]_vars
<1>1. IInv /\ SomePending => (pc # "idle" => Hung \/ CanProceed)
  <2> SUFFICES ASSUME IInv, SomePending, pc # "idle" PROVE Hung \/ CanProceed
    OBVIOUS
  <2>1. pending \in SUBSET Nat
    BY TablesAssumption DEF IInv, TypeOK
  <2>2. pc = "apply" => \E t \in pending : \A u \in pending : t =< u
    BY <2>1, LeastOf DEF SomePending
  <2>3. pc \in {"connect", "waiting", "sleep", "apply", "verify"}
    BY DEF IInv, TypeOK
  <2>4. pc \in {"apply", "verify"} => Hung \/ Answering \/ lost
    BY Zenon DEF IInv, TypeOK, SomePending, Hung, Answering
  <2> QED
    BY <2>2, <2>3, <2>4 DEF CanProceed
<1>2. IInv => Left \in 0 .. 3 * Late + Cardinality(Tables) + 4
  <2> SUFFICES ASSUME IInv PROVE Left \in 0 .. 3 * Late + Cardinality(Tables) + 4
    OBVIOUS
  <2>1. pending \subseteq Tables /\ elapsed \in 0 .. Late /\ Late \in Nat
        /\ pc \in {"idle", "connect", "waiting", "sleep", "apply", "verify"}
    BY TimesAssumption DEF IInv, TypeOK, Late
  <2>2. /\ Cardinality(Tables) \in Nat /\ Cardinality(pending) \in Nat
        /\ Cardinality(pending) =< Cardinality(Tables)
    BY <2>1, FS_Subset, FS_CardinalityType
  <2> QED
    BY <2>1, <2>2 DEF Left
<1>3. IInv /\ [Next]_vars => [CountsDown]_vars
  <2> SUFFICES ASSUME IInv, Next PROVE CountsDown
    OBVIOUS
  <2>1. CASE InitStep
    BY <2>1, InitStepCountsDown DEF IInv, CountsDown
  <2>2. CASE ~InitStep
    <3>1. pc # "idle" => Left' = Left
      BY <2>2, OthersLeaveIt DEF IInv, Left
    <3> QED
      BY <1>2, <2>2, <3>1 DEF CountsDown
  <2> QED
    BY <2>1, <2>2
<1>4. Init => SomePending
  BY DEF Init, SomePending
<1>5. IInv /\ SomePending /\ [Next]_vars => SomePending'
  BY SomePendingStep DEF IInv
<1> QED
  BY <1>1, <1>2, <1>3, <1>4, <1>5, Invariance, PTL DEF Spec

=============================================================================
