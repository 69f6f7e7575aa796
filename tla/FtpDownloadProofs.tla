------------------------- MODULE FtpDownloadProofs -------------------------
(***************************************************************************)
(* Theorems about a download run, for every set of listed entries, every   *)
(* number of attempts and every pattern of faults.                         *)
(*                                                                         *)
(*    ShapeInv     types, where the current entry is, what is untouched    *)
(*    TriesInv     the attempt number counts the transfers of the entry    *)
(*    LinkInv      which connection an operation runs over                 *)
(*    LandedInv    the count is the number of files that landed            *)
(***************************************************************************)
EXTENDS FtpDownload, FiniteSetTheorems, TLAPS

USE DEF vars, ghosts, files

-----------------------------------------------------------------------------
(* Types and shape. The bounds on the counters need more than types: the   *)
(* attempt grows only on the way back from a retry, and the count follows  *)
(* the files; TriesInv and LandedInv supply them.                          *)

Typed ==
    /\ pc \in {"connect", "list", "select", "transfer", "retry", "over"}
    /\ retrying \in {"list", "transfer"}
    /\ attempt \in 1 .. RETRY_ATTEMPTS
    /\ link \in {"none", "open", "dead"}
    /\ todo \subseteq Entries
    /\ current \in Entries \cup {NoEntry}
    /\ part \in [Entries -> Content]
    /\ final \in [Entries -> Content]
    /\ count \in Nat
    /\ tries \in [Entries -> Nat]
    /\ refused \subseteq Entries
    /\ cut \subseteq Entries

\* An entry is being downloaded; the server was not listed yet.
Transferring == pc = "transfer" \/ (pc = "retry" /\ retrying = "transfer")
Unlisted == pc \in {"connect", "list"} \/ (pc = "retry" /\ retrying = "list")

CurrentKnown == IF Transferring THEN current \in Entries \ todo
                                ELSE current = NoEntry

RetryLeft == pc = "retry" => attempt < RETRY_ATTEMPTS

\* What was not selected yet was not touched, before the listing nothing was.
Untouched(f) == /\ tries[f] = 0 /\ part[f] = "absent" /\ final[f] = "absent"
                /\ f \notin refused /\ f \notin cut

TodoUntouched == \A f \in todo : Untouched(f)

NothingYet == Unlisted => /\ todo = {} /\ count = 0
                          /\ \A f \in Entries : Untouched(f)

\* The entry being downloaded has not landed, and only it has a .part.
CurrentPending == Transferring => /\ final[current] = "absent"
                                  /\ current \notin refused

PartIsCurrent == \A f \in Entries : part[f] # "absent" => f = current

ShapeInv == /\ Typed /\ CurrentKnown /\ RetryLeft /\ TodoUntouched
            /\ NothingYet /\ CurrentPending /\ PartIsCurrent
            /\ OnlyWholeFiles

LEMMA InitShape == Init => ShapeInv
BY RetryAssumption, EntriesAssumption
   DEF Init, ShapeInv, Typed, CurrentKnown, RetryLeft, TodoUntouched,
       NothingYet, CurrentPending, PartIsCurrent, OnlyWholeFiles, Untouched,
       Transferring, Content

LEMMA ShapeStep == ShapeInv /\ [Next]_vars => ShapeInv'
<1> SUFFICES ASSUME ShapeInv, [Next]_vars PROVE ShapeInv'
    OBVIOUS
<1> USE RetryAssumption, EntriesAssumption
    DEF ShapeInv, Typed, CurrentKnown, RetryLeft, TodoUntouched, NothingYet,
        CurrentPending, PartIsCurrent, OnlyWholeFiles, Untouched, Transferring,
        Unlisted, Content
<1>1. CASE ConnectSucceeds
    BY <1>1 DEF ConnectSucceeds
<1>2. CASE ConnectFalters
    BY <1>2 DEF ConnectFalters, CanRetry, NextAttempt
<1>3. CASE ConnectGivenUp
    BY <1>3 DEF ConnectGivenUp, Stop
<1>4. CASE ListSucceeds
    BY <1>4 DEF ListSucceeds
<1>5. CASE ListFalters
    BY <1>5 DEF ListFalters, CanRetry
<1>6. CASE ListGivenUp
    BY <1>6 DEF ListGivenUp, Stop
<1>7. CASE ReopenSucceeds
    BY <1>7 DEF ReopenSucceeds, NextAttempt
<1>8. CASE ReopenFalters
    BY <1>8 DEF ReopenFalters, Stop, DropPart
<1>9. CASE ReopenRefused
    BY <1>9 DEF ReopenRefused, Stop, DropPart, NextEntry
<1>10. ASSUME NEW f \in Entries, Select(f) PROVE ShapeInv'
    BY <1>10 DEF Select
<1>11. CASE AllSelected
    BY <1>11 DEF AllSelected, Stop
<1>12. CASE TransferSucceeds
    BY <1>12 DEF TransferSucceeds, Tried, NextEntry
<1>13. CASE TransferRefused
    BY <1>13 DEF TransferRefused, Tried, DropPart, NextEntry
<1>14. CASE TransferFalters
    BY <1>14 DEF TransferFalters, TransferFails, Tried, CanRetry, Receive
<1>15. CASE TransferGivenUp
    BY <1>15 DEF TransferGivenUp, TransferFails, Tried, CanRetry, DropPart,
       AfterGivingUp
<1>16. CASE UNCHANGED vars
    BY <1>16
<1> QED
    BY <1>1, <1>2, <1>3, <1>4, <1>5, <1>6, <1>7, <1>8, <1>9, <1>10, <1>11,
       <1>12, <1>13, <1>14, <1>15, <1>16 DEF Next

-----------------------------------------------------------------------------
(* The attempts. An entry is transferred at most once per attempt.         *)

Counted == /\ pc = "transfer" => tries[current] = attempt - 1
           /\ pc = "retry" /\ retrying = "transfer" => tries[current] = attempt

TriesBounded == \A f \in Entries : tries[f] =< RETRY_ATTEMPTS

TriesInv == Counted /\ TriesBounded /\ GivenUpAfterAllAttempts

LEMMA InitTries == Init => TriesInv
BY RetryAssumption
   DEF Init, TriesInv, Counted, TriesBounded, GivenUpAfterAllAttempts

LEMMA TriesStep == ShapeInv /\ TriesInv /\ [Next]_vars => TriesInv'
<1> SUFFICES ASSUME ShapeInv, TriesInv, [Next]_vars PROVE TriesInv'
    OBVIOUS
<1> USE RetryAssumption, EntriesAssumption
    DEF TriesInv, Counted, TriesBounded, GivenUpAfterAllAttempts, ShapeInv,
        Typed, CurrentKnown, Transferring
<1>1. CASE ConnectSucceeds
    BY <1>1 DEF ConnectSucceeds
<1>2. CASE ConnectFalters
    BY <1>2 DEF ConnectFalters, CanRetry, NextAttempt
<1>3. CASE ConnectGivenUp
    BY <1>3 DEF ConnectGivenUp, Stop
<1>4. CASE ListSucceeds
    BY <1>4 DEF ListSucceeds
<1>5. CASE ListFalters
    BY <1>5 DEF ListFalters, CanRetry
<1>6. CASE ListGivenUp
    BY <1>6 DEF ListGivenUp, Stop
<1>7. CASE ReopenSucceeds
    BY <1>7 DEF ReopenSucceeds, NextAttempt, RetryLeft
<1>8. CASE ReopenFalters
    BY <1>8 DEF ReopenFalters, Stop, DropPart
<1>9. CASE ReopenRefused
    BY <1>9 DEF ReopenRefused, Stop, DropPart, NextEntry
<1>10. ASSUME NEW f \in Entries, Select(f) PROVE TriesInv'
    BY <1>10 DEF Select, TodoUntouched, Untouched
<1>11. CASE AllSelected
    BY <1>11 DEF AllSelected, Stop
<1>12. CASE TransferSucceeds
    BY <1>12 DEF TransferSucceeds, Tried, NextEntry
<1>13. CASE TransferRefused
    BY <1>13 DEF TransferRefused, Tried, DropPart, NextEntry
<1>14. CASE TransferFalters
    BY <1>14 DEF TransferFalters, TransferFails, Tried, CanRetry, Receive
<1>15. CASE TransferGivenUp
    BY <1>15 DEF TransferGivenUp, TransferFails, Tried, CanRetry, DropPart,
       AfterGivingUp
<1>16. CASE UNCHANGED vars
    BY <1>16
<1> QED
    BY <1>1, <1>2, <1>3, <1>4, <1>5, <1>6, <1>7, <1>8, <1>9, <1>10, <1>11,
       <1>12, <1>13, <1>14, <1>15, <1>16 DEF Next

-----------------------------------------------------------------------------
(* The connection. After the listing only a failed reconnection leaves the *)
(* run without one, and that is what may leave entries untried.            *)

LinkLost ==
    pc \in {"select", "transfer", "retry"} /\ ~Unlisted /\ link = "none"
    => cut # {}

LinkInv == RetriesOnFreshLink /\ LinkLost /\ OthersAreTried

LEMMA InitLink == Init => LinkInv
BY DEF Init, LinkInv, RetriesOnFreshLink, LinkLost, OthersAreTried

LEMMA LinkStep == ShapeInv /\ LinkInv /\ [Next]_vars => LinkInv'
<1> SUFFICES ASSUME ShapeInv, LinkInv, [Next]_vars PROVE LinkInv'
    OBVIOUS
<1> USE DEF LinkInv, RetriesOnFreshLink, LinkLost, OthersAreTried, Unlisted,
        ShapeInv, Typed, NothingYet
<1>1. CASE ConnectSucceeds
    BY <1>1 DEF ConnectSucceeds
<1>2. CASE ConnectFalters
    BY <1>2 DEF ConnectFalters
<1>3. CASE ConnectGivenUp
    BY <1>3 DEF ConnectGivenUp, Stop
<1>4. CASE ListSucceeds
    BY <1>4 DEF ListSucceeds
<1>5. CASE ListFalters
    BY <1>5 DEF ListFalters
<1>6. CASE ListGivenUp
    BY <1>6 DEF ListGivenUp, Stop
<1>7. CASE ReopenSucceeds
    BY <1>7 DEF ReopenSucceeds
<1>8. CASE ReopenFalters
    BY <1>8 DEF ReopenFalters, Stop
<1>9. CASE ReopenRefused
    BY <1>9 DEF ReopenRefused, Stop, NextEntry
<1>10. ASSUME NEW f \in Entries, Select(f) PROVE LinkInv'
    BY <1>10 DEF Select
<1>11. CASE AllSelected
    BY <1>11 DEF AllSelected, Stop
<1>12. CASE TransferSucceeds
    BY <1>12 DEF TransferSucceeds, NextEntry
<1>13. CASE TransferRefused
    BY <1>13 DEF TransferRefused, NextEntry
<1>14. CASE TransferFalters
    BY <1>14 DEF TransferFalters, TransferFails
<1>15. CASE TransferGivenUp
    BY <1>15 DEF TransferGivenUp, TransferFails, AfterGivingUp
<1>16. CASE UNCHANGED vars
    BY <1>16
<1> QED
    BY <1>1, <1>2, <1>3, <1>4, <1>5, <1>6, <1>7, <1>8, <1>9, <1>10, <1>11,
       <1>12, <1>13, <1>14, <1>15, <1>16 DEF Next

-----------------------------------------------------------------------------
(* The count.                                                              *)

Landed == {f \in Entries : final[f] = "whole"}

LEMMA InitLanded == Init => CountIsLanded
<1> SUFFICES ASSUME Init PROVE CountIsLanded
    OBVIOUS
<1>1. Landed = {} /\ count = 0
    BY DEF Init, Landed
<1> QED
    BY <1>1, FS_EmptySet DEF CountIsLanded, Landed

LEMMA LandedStep == ShapeInv /\ CountIsLanded /\ [Next]_vars => CountIsLanded'
<1> SUFFICES ASSUME ShapeInv, CountIsLanded, [Next]_vars
             PROVE  CountIsLanded'
    OBVIOUS
<1>1. CASE TransferSucceeds
    <2>1. current \in Entries /\ final[current] = "absent"
        BY <1>1 DEF TransferSucceeds, ShapeInv, CurrentKnown, CurrentPending,
           Transferring
    <2>2. Landed' = Landed \cup {current} /\ current \notin Landed
        BY <1>1, <2>1 DEF TransferSucceeds, Landed, ShapeInv, Typed
    <2>3. IsFiniteSet(Landed)
        BY EntriesAssumption, FS_Subset DEF Landed
    <2>4. Cardinality(Landed') = Cardinality(Landed) + 1
        BY <2>2, <2>3, FS_AddElement
    <2> QED
        BY <1>1, <2>4 DEF TransferSucceeds, CountIsLanded, Landed
<1>2. CASE UNCHANGED <<final, count>>
    BY <1>2 DEF CountIsLanded
<1> QED
    BY <1>1, <1>2 DEF Next, ConnectSucceeds, ConnectFalters, ConnectGivenUp,
       ListSucceeds, ListFalters, ListGivenUp, ReopenSucceeds, ReopenFalters,
       ReopenRefused, Select, AllSelected, TransferRefused, TransferFalters,
       TransferGivenUp, Receive

LEMMA CountBounded ==
    ASSUME CountIsLanded
    PROVE  count \in 0 .. Cardinality(Entries)
<1>1. /\ IsFiniteSet(Landed) /\ Cardinality(Landed) =< Cardinality(Entries)
    BY EntriesAssumption, FS_Subset DEF Landed
<1>2. Cardinality(Landed) \in Nat /\ Cardinality(Entries) \in Nat
    BY <1>1, EntriesAssumption, FS_CardinalityType
<1> QED
    BY <1>1, <1>2 DEF CountIsLanded, Landed

-----------------------------------------------------------------------------
(* The theorems.                                                           *)

Inv == ShapeInv /\ TriesInv /\ LinkInv /\ CountIsLanded

LEMMA Invariance == Spec => []Inv
<1>1. Init => Inv
    BY InitShape, InitTries, InitLink, InitLanded DEF Inv
<1>2. Inv /\ [Next]_vars => Inv'
    BY ShapeStep, TriesStep, LinkStep, LandedStep DEF Inv
<1> QED
    BY <1>1, <1>2, PTL DEF Spec

\* Whatever breaks, and whichever way a run ends: what it leaves in incoming/
\* is whole, no .part is left, and the count it returns is what landed.
THEOREM IncomingSound == Spec => []IncomingIsSound
<1>1. Inv => TypeOK
    <2> SUFFICES ASSUME Inv PROVE TypeOK
        OBVIOUS
    <2>1. tries \in [Entries -> 0 .. RETRY_ATTEMPTS]
        BY RetryAssumption DEF Inv, TriesInv, TriesBounded, ShapeInv, Typed
    <2> QED
        BY <2>1, CountBounded DEF Inv, ShapeInv, Typed, TypeOK
<1>2. Inv => NoPartLeft
    BY EntriesAssumption DEF Inv, ShapeInv, Typed, CurrentKnown, PartIsCurrent,
       Transferring, NoPartLeft
<1>3. Inv => OnlyWholeFiles /\ CountIsLanded
    BY DEF Inv, ShapeInv
<1> QED
    BY <1>1, <1>2, <1>3, Invariance, PTL DEF IncomingIsSound

\* A run gives a file up only when the server refused it, the connection could
\* not be restored, or every attempt over a fresh connection failed; and never
\* because of another file.
THEOREM GivenUpForAReason == Spec => []NothingGivenUpEarly
<1>1. Inv => NothingGivenUpEarly
    BY DEF Inv, TriesInv, LinkInv, NothingGivenUpEarly
<1> QED
    BY <1>1, Invariance, PTL

\* A file the server refused with a 5xx reply is not asked for again.
THEOREM RefusalsAreFinal == Spec => RefusedOnce
<1>1. ASSUME ShapeInv, [Next]_vars, NEW f \in refused
      PROVE  tries'[f] = tries[f]
    <2>1. /\ f \in Entries
          /\ pc = "transfer" => f # current
        BY <1>1 DEF ShapeInv, Typed, CurrentPending, Transferring
    <2>2. UNCHANGED tries \/ (pc = "transfer" /\ Tried(current))
        BY <1>1 DEF Next, ConnectSucceeds, ConnectFalters, ConnectGivenUp,
           ListSucceeds, ListFalters, ListGivenUp, ReopenSucceeds,
           ReopenFalters, ReopenRefused, Select, AllSelected,
           TransferSucceeds, TransferRefused, TransferFalters,
           TransferGivenUp, TransferFails
    <2> QED
        BY <1>1, <2>1, <2>2 DEF Tried, ShapeInv, Typed
<1>2. ShapeInv /\ [Next]_vars
      => [\A f \in refused : tries'[f] = tries[f]]_vars
    BY <1>1
<1>3. Spec => []ShapeInv
    BY Invariance, PTL DEF Inv
<1> QED
    BY <1>2, <1>3, PTL DEF Spec, RefusedOnce

-----------------------------------------------------------------------------
(* Retrying stops. What a run may still do is a natural number: for every  *)
(* entry to come all its attempts, each a transfer and a reconnection, and *)
(* for the phase it is in what is left of its own attempts. Every step     *)
(* brings it down, whatever fails, and it is zero when the run is over.    *)

PerEntry == 2 * RETRY_ATTEMPTS + 1

ToCome == IF Unlisted THEN Cardinality(Entries) ELSE Cardinality(todo)

LeftOfPhase ==
    CASE pc = "connect" -> 2 * RETRY_ATTEMPTS + 2 + (RETRY_ATTEMPTS - attempt)
      [] pc \in {"list", "transfer"} -> 2 * (RETRY_ATTEMPTS - attempt) + 3
      [] pc = "retry" -> 2 * (RETRY_ATTEMPTS - attempt) + 2
      [] pc = "select" -> 1

Fuel == IF pc = "over" THEN 0 ELSE ToCome * PerEntry + LeftOfPhase

MaxFuel == Cardinality(Entries) * PerEntry + 3 * RETRY_ATTEMPTS + 1

LEMMA FewerSteps ==
    ASSUME NEW m \in Nat, NEW n \in Nat, m =< n
    PROVE  /\ m * PerEntry \in Nat
           /\ m * PerEntry =< n * PerEntry
           /\ m < n => m * PerEntry + PerEntry =< n * PerEntry
<1>1. PerEntry \in Nat
    BY RetryAssumption DEF PerEntry
<1>2. PICK d \in Nat : n = m + d
    <2>1. n - m \in Nat /\ n = m + (n - m)
        OBVIOUS
    <2> QED
        BY <2>1
<1>3. \A a, b, c \in Nat : (a + b) * c = a * c + b * c /\ a * c \in Nat
    OBVIOUS
<1>4. n * PerEntry = m * PerEntry + d * PerEntry
      /\ m * PerEntry \in Nat /\ d * PerEntry \in Nat
    BY <1>1, <1>2, <1>3
<1>5. d # 0 => PerEntry =< d * PerEntry
    <2>1. CASE d # 0
        <3>1. d - 1 \in Nat /\ d = (d - 1) + 1
            BY <2>1
        <3>2. d * PerEntry = (d - 1) * PerEntry + 1 * PerEntry
              /\ (d - 1) * PerEntry \in Nat
            BY <1>1, <1>3, <3>1
        <3> QED
            BY <1>1, <3>2
    <2> QED
        BY <2>1
<1> QED
    BY <1>1, <1>2, <1>4, <1>5

LEMMA SubsetSize ==
    ASSUME NEW S \in SUBSET Entries
    PROVE  /\ IsFiniteSet(S) /\ Cardinality(S) \in Nat
           /\ Cardinality(Entries) \in Nat /\ Cardinality(S) =< Cardinality(Entries)
<1>1. IsFiniteSet(S) /\ Cardinality(S) =< Cardinality(Entries)
    BY EntriesAssumption, FS_Subset
<1> QED
    BY <1>1, EntriesAssumption, FS_CardinalityType

LEMMA ToComeBounded ==
    ASSUME ShapeInv
    PROVE  /\ ToCome \in Nat /\ Cardinality(Entries) \in Nat
           /\ ToCome =< Cardinality(Entries)
    BY SubsetSize DEF ToCome, ShapeInv, Typed

LEMMA PhaseBounded ==
    ASSUME ShapeInv, pc # "over"
    PROVE  LeftOfPhase \in 1 .. 3 * RETRY_ATTEMPTS + 1
    BY RetryAssumption DEF LeftOfPhase, ShapeInv, Typed

LEMMA FuelBounded ==
    ASSUME ShapeInv
    PROVE  Fuel \in 0 .. MaxFuel /\ (Fuel = 0 <=> pc = "over")
<1>1. /\ ToCome * PerEntry \in Nat /\ Cardinality(Entries) * PerEntry \in Nat
      /\ ToCome * PerEntry =< Cardinality(Entries) * PerEntry
    BY ToComeBounded, FewerSteps
<1>2. MaxFuel \in Nat
    BY <1>1, RetryAssumption DEF MaxFuel
<1>3. CASE pc = "over"
    BY <1>2, <1>3 DEF Fuel
<1>4. CASE pc # "over"
    BY <1>1, <1>4, PhaseBounded, RetryAssumption DEF Fuel, MaxFuel
<1> QED
    BY <1>3, <1>4

LEMMA FuelStep ==
    ASSUME ShapeInv, ShapeInv', Next
    PROVE  Fuel' < Fuel
<1> USE RetryAssumption DEF Unlisted
<1>0. /\ attempt \in 1 .. RETRY_ATTEMPTS /\ attempt' \in 1 .. RETRY_ATTEMPTS
      /\ pc = "retry" => attempt < RETRY_ATTEMPTS
      /\ todo \in SUBSET Entries /\ todo' \in SUBSET Entries
      /\ retrying \in {"list", "transfer"}
    BY DEF ShapeInv, Typed, RetryLeft
<1>n. /\ ToCome \in Nat /\ ToCome' \in Nat /\ ToCome * PerEntry \in Nat
      /\ pc # "over" => LeftOfPhase \in 1 .. 3 * RETRY_ATTEMPTS + 1
    <2>1. ToCome \in Nat /\ ToCome' \in Nat
        BY <1>0, SubsetSize DEF ToCome
    <2> QED
        BY <2>1, FewerSteps, PhaseBounded
\* The three ways down: the run is over, a step of the phase is used up, an
\* entry is.
<1>a. ASSUME pc # "over", pc' = "over"
      PROVE  Fuel' < Fuel
    BY <1>n, <1>a DEF Fuel
<1>b. ASSUME pc # "over", ToCome' = ToCome, LeftOfPhase' \in Nat,
             LeftOfPhase' < LeftOfPhase
      PROVE  Fuel' < Fuel
    BY <1>n, <1>b DEF Fuel
<1>c. ASSUME pc # "over", ToCome' < ToCome, LeftOfPhase' \in Nat,
             LeftOfPhase' < LeftOfPhase + PerEntry
      PROVE  Fuel' < Fuel
    <2>1. /\ ToCome' * PerEntry \in Nat
          /\ ToCome' * PerEntry + PerEntry =< ToCome * PerEntry
        BY <1>n, <1>c, FewerSteps
    <2>2. PerEntry \in Nat
        BY DEF PerEntry
    <2> QED
        BY <1>n, <1>c, <2>1, <2>2 DEF Fuel
<1>1. CASE ConnectSucceeds \/ ConnectFalters
    <2>1. ToCome' = ToCome /\ pc # "over"
        BY <1>1 DEF ConnectSucceeds, ConnectFalters, ToCome
    <2>2. LeftOfPhase' \in Nat /\ LeftOfPhase' < LeftOfPhase
        BY <1>0, <1>1 DEF ConnectSucceeds, ConnectFalters, CanRetry, NextAttempt,
           LeftOfPhase
    <2> QED
        BY <1>b, <2>1, <2>2
<1>2. CASE ConnectGivenUp \/ ListGivenUp \/ ReopenFalters \/ AllSelected
    BY <1>2, <1>a DEF ConnectGivenUp, ListGivenUp, ReopenFalters, AllSelected, Stop
<1>3. CASE ListSucceeds \/ ListFalters
    <2>1. ToCome' = ToCome /\ pc # "over"
        BY <1>3 DEF ListSucceeds, ListFalters, ToCome
    <2>2. LeftOfPhase' \in Nat /\ LeftOfPhase' < LeftOfPhase
        BY <1>0, <1>3 DEF ListSucceeds, ListFalters, CanRetry, LeftOfPhase
    <2> QED
        BY <1>b, <2>1, <2>2
<1>4. CASE ReopenSucceeds
    <2>1. ToCome' = ToCome /\ pc # "over"
        BY <1>0, <1>4 DEF ReopenSucceeds, ToCome
    <2>2. LeftOfPhase' \in Nat /\ LeftOfPhase' < LeftOfPhase
        BY <1>0, <1>4 DEF ReopenSucceeds, NextAttempt, LeftOfPhase
    <2> QED
        BY <1>b, <2>1, <2>2
<1>5. CASE ReopenRefused
    <2>1. CASE retrying = "list"
        BY <1>5, <2>1, <1>a DEF ReopenRefused, Stop
    <2>2. CASE retrying = "transfer"
        <3>1. ToCome' = ToCome /\ pc # "over"
            BY <1>5, <2>2 DEF ReopenRefused, NextEntry, ToCome
        <3>2. LeftOfPhase' \in Nat /\ LeftOfPhase' < LeftOfPhase
            BY <1>0, <1>5, <2>2 DEF ReopenRefused, NextEntry, LeftOfPhase
        <3> QED
            BY <1>b, <3>1, <3>2
    <2> QED
        BY <1>0, <2>1, <2>2
<1>6. ASSUME NEW f \in Entries, Select(f)
      PROVE  Fuel' < Fuel
    <2>1. /\ pc = "select" /\ pc' = "transfer" /\ f \in todo
          /\ todo' = todo \ {f} /\ attempt' = 1
        BY <1>6 DEF Select
    <2>2. Cardinality(todo') = Cardinality(todo) - 1
        BY <1>0, <2>1, SubsetSize, FS_RemoveElement
    <2>3. ToCome' < ToCome
        BY <1>n, <2>1, <2>2 DEF ToCome
    <2>4. LeftOfPhase' \in Nat /\ LeftOfPhase' < LeftOfPhase + PerEntry
        BY <2>1 DEF LeftOfPhase, PerEntry
    <2> QED
        BY <1>c, <2>1, <2>3, <2>4
<1>7. CASE TransferSucceeds \/ TransferRefused
    <2>1. ToCome' = ToCome /\ pc # "over"
        BY <1>7 DEF TransferSucceeds, TransferRefused, NextEntry, ToCome
    <2>2. LeftOfPhase' \in Nat /\ LeftOfPhase' < LeftOfPhase
        BY <1>0, <1>7 DEF TransferSucceeds, TransferRefused, NextEntry, LeftOfPhase
    <2> QED
        BY <1>b, <2>1, <2>2
<1>8. CASE TransferFalters
    <2>1. ToCome' = ToCome /\ pc # "over"
        BY <1>8 DEF TransferFalters, TransferFails, ToCome
    <2>2. LeftOfPhase' \in Nat /\ LeftOfPhase' < LeftOfPhase
        BY <1>0, <1>8 DEF TransferFalters, TransferFails, LeftOfPhase
    <2> QED
        BY <1>b, <2>1, <2>2
<1>9. CASE TransferGivenUp
    <2>1. pc = "transfer" /\ pc' \in {"over", "select"} /\ todo' = todo
        BY <1>9 DEF TransferGivenUp, TransferFails, AfterGivingUp
    <2>2. CASE pc' = "select"
        <3>1. ToCome' = ToCome
            BY <2>1, <2>2 DEF ToCome
        <3>2. LeftOfPhase' \in Nat /\ LeftOfPhase' < LeftOfPhase
            BY <1>0, <2>1, <2>2 DEF LeftOfPhase
        <3> QED
            BY <1>b, <2>1, <3>1, <3>2
    <2> QED
        BY <1>a, <2>1, <2>2
<1> QED
    BY <1>1, <1>2, <1>3, <1>4, <1>5, <1>6, <1>7, <1>8, <1>9 DEF Next

\* The safety half of RetriesStop: whatever fails, every step of a run brings
\* it nearer to its end, after MaxFuel of them at most; the counters of
\* with_retries and the loop over the entries leave no other way.
THEOREM RetriesRunOut ==
    Spec => /\ [](Fuel \in 0 .. MaxFuel /\ (Fuel = 0 <=> pc = "over"))
            /\ [][Fuel' < Fuel]_vars
<1>1. Inv => Fuel \in 0 .. MaxFuel /\ (Fuel = 0 <=> pc = "over")
    BY FuelBounded DEF Inv
<1>2. Inv /\ Inv' /\ [Next]_vars => [Fuel' < Fuel]_vars
    BY FuelStep DEF Inv
<1> QED
    BY <1>1, <1>2, Invariance, PTL DEF Spec

-----------------------------------------------------------------------------
(* A run is a fetch phase as the daily job sees it.                        *)

LEMMA StepImplements ==
    ASSUME ShapeInv, [Next]_vars
    PROVE  [Phase!Next]_(Phase!vars)
<1> USE EntriesAssumption
    DEF Phase!vars, ShapeInv, Typed, CurrentKnown, Transferring
<1>1. CASE ConnectSucceeds \/ ConnectFalters \/ ListFalters \/ ReopenSucceeds
           \/ TransferFalters \/ (\E f \in Entries : Select(f))
    <2>1. /\ pc # "over" /\ pc' # "over" /\ UNCHANGED final
          /\ todo' \cup ({current'} \cap Entries)
               = todo \cup ({current} \cap Entries)
        BY <1>1 DEF ConnectSucceeds, ConnectFalters, ListFalters,
           ReopenSucceeds, TransferFalters, TransferFails, Receive, Select
    <2>2. (pc' = "over") = (pc = "over")
        BY <2>1
    <2>3. {f \in Entries : final'[f] = "whole"}
            = {f \in Entries : final[f] = "whole"}
        BY <2>1
    <2>4. UNCHANGED Phase!vars
        BY <2>1, <2>2, <2>3
    <2> QED
        BY <2>4
<1>2. CASE ListSucceeds
    <2>1. \A f \in Entries : final[f] # "whole"
        BY <1>2 DEF ListSucceeds, NothingYet, Unlisted, Untouched
    <2>2. Phase!List
        BY <1>2, <2>1 DEF ListSucceeds, Phase!List
    <2> QED
        BY <2>2 DEF Phase!Next
<1>3. CASE TransferSucceeds
    <2>1. PICK f \in Entries : f = current
        BY <1>3 DEF TransferSucceeds
    <2>2. Phase!Land(f)
        BY <1>3, <2>1 DEF TransferSucceeds, NextEntry, Phase!Land
    <2>3. Phase!Next
        BY <2>2 DEF Phase!Next
    <2> QED
        BY <2>3
<1>4. ASSUME pc # "over", pc' = "over", UNCHANGED final
      PROVE  Phase!Next
    <2>1. Phase!Finish
        BY <1>4 DEF Phase!Finish
    <2> QED
        BY <2>1 DEF Phase!Next
<1>5. ASSUME Transferring, pc' = "select", current' = NoEntry,
             UNCHANGED <<todo, final>>
      PROVE  Phase!Next
    <2>1. PICK f \in Entries : f = current
        BY <1>5
    <2>2. Phase!GiveUp(f)
        BY <1>5, <2>1 DEF Phase!GiveUp
    <2> QED
        BY <2>2 DEF Phase!Next
<1>6. CASE ConnectGivenUp \/ ListGivenUp \/ ReopenFalters \/ AllSelected
    BY <1>4, <1>6 DEF ConnectGivenUp, ListGivenUp, ReopenFalters, AllSelected,
       Stop
<1>7. CASE ReopenRefused
    BY <1>4, <1>5, <1>7 DEF ReopenRefused, Stop, NextEntry
<1>8. CASE TransferRefused
    BY <1>5, <1>8 DEF TransferRefused, NextEntry
<1>9. CASE TransferGivenUp
    BY <1>4, <1>5, <1>9 DEF TransferGivenUp, TransferFails, AfterGivingUp
<1>10. CASE UNCHANGED vars
    BY <1>10
<1> QED
    BY <1>1, <1>2, <1>3, <1>6, <1>7, <1>8, <1>9, <1>10 DEF Next

\* A run over one FTP session, with its retries and reconnections, is the
\* fetch phase of the daily job: each wanted file lands whole or is given up,
\* once, until the phase is over.
THEOREM RunIsFetchPhase == Spec => ImplementsFetchPhase
<1>1. Init => Phase!Init
    BY EntriesAssumption DEF Init, Phase!Init
<1>2. ShapeInv /\ [Next]_vars => [Phase!Next]_(Phase!vars)
    BY StepImplements
<1>3. Spec => []ShapeInv
    BY Invariance, PTL DEF Inv
<1> QED
    BY <1>1, <1>2, <1>3, PTL DEF Spec, ImplementsFetchPhase, Phase!Spec
=============================================================================
