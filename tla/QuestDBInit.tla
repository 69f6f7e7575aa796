----------------------------- MODULE QuestDBInit -----------------------------
(***************************************************************************)
(* Bringing the stack up: the init container waits for QuestDB, creates    *)
(* the tables that are not there and verifies all of them; the scheduler   *)
(* starts once it has ended well. The container the job runs in starts     *)
(* beside it.                                                              *)
(*                                                                         *)
(* A table is absent, right, or differs from the schema: made by an insert *)
(* or from an older schema, in a way verify looks for in that table, or in *)
(* another ("other"). Time is counted from the first attempt to connect.   *)
(***************************************************************************)
EXTENDS Integers

CONSTANTS
    Tables,        \* the tables of the schema, numbered as its statements
    Deduped,       \* those with EXPECTED_DEDUP_KEYS: all but cel_ingest_log
    Decimals,      \* those of EXPECTED_DECIMAL
    Columned,      \* those of EXPECTED_COLUMNS
    Wait,          \* --wait, in seconds
    Attempt,       \* ATTEMPT_TIMEOUT
    Interval,      \* sleep between attempts
    AdHoc,         \* somebody starts the job with docker exec
    MaxInits,      \* runs of the init script (a bound)
    MaxOutages,    \* times the server goes away (a bound)
    MaxAccidents   \* tables made by an insert (a bound)

ASSUME TimesAssumption ==
    Wait \in Nat /\ Attempt \in Nat \ {0} /\ Interval \in Nat \ {0}
ASSUME TablesAssumption ==
    /\ Tables \subseteq Nat
    /\ Deduped \subseteq Tables /\ Decimals \subseteq Tables
    /\ Columned \subseteq Tables
ASSUME AdHocAssumption == AdHoc \in BOOLEAN
ASSUME BoundsAssumption ==
    MaxInits \in Nat /\ MaxOutages \in Nat /\ MaxAccidents \in Nat

VARIABLES
    server,        \* down (refuses), mute (accepts, answers nothing) or up
    table,         \* of each table: absent, right, or what is wrong with it
    pc,            \* of the script: idle, connect, waiting, sleep, apply, verify
    checkOnly,     \* run by hand with --check-only
    pending,       \* tables whose statement was not executed yet
    elapsed,       \* seconds; not counted further than Late
    exitCode,      \* of the last run, or NoExit
    scheduler,     \* the scheduler container has been started
    ingesting,     \* a run of the daily job is under way
    \* Ghosts.
    upSince,       \* elapsed when the server came up for good, or Never
    lost,          \* the server went away under this run
    dropped,       \* a table was dropped since the run began
    inits, outages, accidents

script == <<pc, checkOnly, pending, elapsed, exitCode, lost>>
bounds == <<inits, outages, accidents>>
vars == <<server, table, script, scheduler, ingesting, upSince, dropped, bounds>>

NoExit == 3
Never == -1
Late == Wait + Interval + Attempt + 1
Clip(n) == IF n < Late THEN n ELSE Late

\* What verify looks for in a table that is there: the dedup flag of all of
\* them, the upsert keys of those with dedup, the value column's type and the
\* payload columns of some.
LooksFor(t) == {"dedup"} \cup (IF t \in Deduped THEN {"keys"} ELSE {})
                         \cup (IF t \in Decimals THEN {"decimal"} ELSE {})
                         \cup (IF t \in Columned THEN {"columns"} ELSE {})

TableStates == [Tables -> {"absent", "right", "dedup", "keys", "decimal",
                           "columns", "other"}]

Flags == /\ checkOnly \in BOOLEAN /\ scheduler \in BOOLEAN
         /\ ingesting \in BOOLEAN /\ lost \in BOOLEAN /\ dropped \in BOOLEAN

TypeOK ==
    /\ server \in {"down", "mute", "up"}
    /\ table \in TableStates
    /\ \A t \in Tables : table[t] \in {"absent", "right", "other"} \cup LooksFor(t)
    /\ pc \in {"idle", "connect", "waiting", "sleep", "apply", "verify"}
    /\ Flags
    /\ pending \subseteq Tables
    /\ pending # {} => pc = "apply"
    /\ elapsed \in 0 .. Late
    /\ exitCode \in {0, 1, 2, NoExit}
    /\ upSince \in 0 .. Late \cup {Never}
    /\ inits \in 0 .. MaxInits
    /\ outages \in 0 .. MaxOutages
    /\ accidents \in 0 .. MaxAccidents

Init ==
    /\ server \in {"down", "mute", "up"}
    /\ table \in TableStates
    /\ \A t \in Tables : table[t] \in {"absent", "right", "other"} \cup LooksFor(t)
    /\ pc = "idle"
    /\ checkOnly = FALSE
    /\ pending = {}
    /\ elapsed = 0
    /\ exitCode = NoExit
    /\ scheduler = FALSE
    /\ ingesting = FALSE
    /\ upSince = Never
    /\ lost = FALSE
    /\ dropped = FALSE
    /\ inits = 0
    /\ outages = 0
    /\ accidents = 0

\* Mutant: a table that is there is taken for the right one.
Problems_missingOnly == {t \in Tables : table[t] = "absent"}

\* verify: tables that are not there, or not as it expects them. What it does
\* not look for passes, in cel_ingest_log everything but dedup.
Problems == {t \in Tables : table[t] = "absent" \/ table[t] \in LooksFor(t)}

-----------------------------------------------------------------------------
(* The server, its users and the operator.                                 *)

\* The server starts up: it listens before it answers.
ServerComes ==
    /\ server # "up"
    /\ server' = IF server = "down" THEN "mute" ELSE "up"
    /\ upSince' = IF server = "mute" /\ pc \in {"connect", "waiting", "sleep"}
                  THEN elapsed ELSE upSince
    /\ UNCHANGED <<table, script, scheduler, ingesting, dropped, bounds>>

\* It stops, which its clients notice, or hangs, which they do not.
ServerGoes ==
    /\ server # "down"
    /\ outages < MaxOutages
    /\ outages' = outages + 1
    /\ server' \in {"down", "mute"} \ {server}
    /\ upSince' = Never
    /\ lost' = (lost \/ (server' = "down" /\ pc \in {"apply", "verify"}))
    /\ UNCHANGED <<table, pc, checkOnly, pending, elapsed, exitCode, scheduler,
                   ingesting, dropped, inits, accidents>>

\* An insert makes the table it does not find, without dedup.
Accident(t) ==
    /\ server = "up"
    /\ accidents < MaxAccidents
    /\ accidents' = accidents + 1
    /\ table[t] = "absent"
    /\ table' = [table EXCEPT ![t] = IF t \in Deduped THEN "dedup" ELSE "other"]
    /\ UNCHANGED <<server, script, scheduler, ingesting, upSince, dropped,
                   inits, outages>>

\* "drop it and re-run", of a table that verify complains of.
DropWrong(t) ==
    /\ server = "up"
    /\ table[t] \in LooksFor(t)
    /\ table' = [table EXCEPT ![t] = "absent"]
    /\ dropped' = TRUE
    /\ UNCHANGED <<server, script, scheduler, ingesting, upSince, bounds>>

-----------------------------------------------------------------------------
(* questdb_init.py                                                         *)

\* The container of a deploy runs it, or somebody does.
Begin(check) ==
    /\ pc = "idle"
    /\ inits < MaxInits
    /\ inits' = inits + 1
    /\ pc' = "connect"
    /\ checkOnly' = check
    /\ elapsed' = 0
    /\ exitCode' = NoExit
    /\ upSince' = IF server = "up" THEN 0 ELSE Never
    /\ lost' = FALSE
    /\ dropped' = FALSE
    /\ UNCHANGED <<server, table, pending, scheduler, ingesting, outages, accidents>>

\* Mutant: an attempt takes as long as psycopg lets it.
Durations_default == {0, 1, Wait + 70}

\* How long an attempt that fails takes: refused soon, or cut off.
Durations == {0, 1, Attempt}

\* Mutant: every attempt has the whole wait before it.
Expired_never(time) == FALSE

Expired(time) == time >= Wait

Exit(code) == pc' = "idle" /\ exitCode' = code /\ pending' = {}

\* A statement is answered. It has no timeout: ATTEMPT_TIMEOUT is for
\* connecting, and a server that hangs keeps the script waiting.
Answering == server = "up" /\ ~lost

\* An attempt begun before the server was up may still be answered.
Connect ==
    /\ pc \in {"connect", "waiting"}
    /\ server = "up"
    /\ pc' = IF checkOnly THEN "verify" ELSE "apply"
    /\ pending' = IF checkOnly THEN {} ELSE Tables
    /\ UNCHANGED <<server, table, checkOnly, elapsed, exitCode, lost, scheduler,
                   ingesting, upSince, dropped, bounds>>

BeginAttempt ==
    /\ pc = "connect"
    /\ server # "up"
    /\ pc' = "waiting"
    /\ UNCHANGED <<server, table, checkOnly, pending, elapsed, exitCode, lost,
                   scheduler, ingesting, upSince, dropped, bounds>>

\* The attempt fails, though the server may have come up under it.
ConnectFails ==
    /\ pc = "waiting"
    /\ \E d \in Durations :
         /\ elapsed' = Clip(elapsed + d)
         /\ IF Expired(elapsed + d)
            THEN Exit(2)
            ELSE pc' = "sleep" /\ UNCHANGED <<pending, exitCode>>
    /\ UNCHANGED <<server, table, checkOnly, lost, scheduler, ingesting, upSince,
                   dropped, bounds>>

Sleep ==
    /\ pc = "sleep"
    /\ pc' = "connect"
    /\ elapsed' = Clip(elapsed + Interval)
    /\ UNCHANGED <<server, table, checkOnly, pending, exitCode, lost, scheduler,
                   ingesting, upSince, dropped, bounds>>

\* Mutant: the statement of a table in the middle of the script is lost.
Statement_lost(t) ==
    /\ pending' = {u \in Tables : u > t + 1}
    /\ table' = [table EXCEPT ![t] = IF @ = "absent" THEN "right" ELSE @]

\* CREATE TABLE IF NOT EXISTS, committed by itself.
Statement(t) ==
    /\ pending' = pending \ {t}
    /\ table' = [table EXCEPT ![t] = IF @ = "absent" THEN "right" ELSE @]

Apply ==
    /\ pc = "apply"
    /\ Answering
    /\ \E t \in pending : /\ \A u \in pending : t =< u
                          /\ Statement(t)
    /\ pc' = IF pending' = {} THEN "verify" ELSE "apply"
    /\ UNCHANGED <<server, checkOnly, elapsed, exitCode, lost, scheduler,
                   ingesting, upSince, dropped, bounds>>

\* The connection broke: the exception ends the script.
ConnectionLost ==
    /\ pc \in {"apply", "verify"}
    /\ lost
    /\ Exit(1)
    /\ UNCHANGED <<server, table, checkOnly, elapsed, lost, scheduler, ingesting,
                   upSince, dropped, bounds>>

Verify ==
    /\ pc = "verify"
    /\ Answering
    /\ Exit(IF Problems = {} THEN 0 ELSE 1)
    /\ UNCHANGED <<server, table, checkOnly, elapsed, lost, scheduler, ingesting,
                   upSince, dropped, bounds>>

-----------------------------------------------------------------------------
(* docker-compose.yml                                                      *)

\* service_completed_successfully
Completed == pc = "idle" /\ exitCode = 0 /\ ~checkOnly

StartScheduler ==
    /\ ~scheduler
    /\ Completed
    /\ scheduler' = TRUE
    /\ UNCHANGED <<server, table, script, ingesting, upSince, dropped, bounds>>

\* The job container is up from the start; a run is started in it by the
\* scheduler, or by hand.
BeginIngest ==
    /\ ~ingesting
    /\ scheduler \/ AdHoc
    /\ ingesting' = TRUE
    /\ UNCHANGED <<server, table, script, scheduler, upSince, dropped, bounds>>

EndIngest ==
    /\ ingesting
    /\ ingesting' = FALSE
    /\ UNCHANGED <<server, table, script, scheduler, upSince, dropped, bounds>>

InitStep == \/ Connect \/ BeginAttempt \/ ConnectFails \/ Sleep
            \/ Apply \/ ConnectionLost \/ Verify

Next ==
    \/ ServerComes \/ ServerGoes
    \/ \E t \in Tables : Accident(t) \/ DropWrong(t)
    \/ \E check \in BOOLEAN : Begin(check)
    \/ InitStep
    \/ StartScheduler \/ BeginIngest \/ EndIngest

Spec == Init /\ [][Next]_vars

\* The script goes on as far as it can; the server need never come up, or
\* answer.
FairSpec == Spec /\ WF_vars(InitStep)

-----------------------------------------------------------------------------
\* The script is connected and waits for a statement that is not answered.
Hung == pc \in {"apply", "verify"} /\ server = "mute" /\ ~lost

\* The container ends, so that a deploy, which waits for it, is not stuck
\* (docker-compose.yml): whether the server comes up or not, however long it is
\* mute before that, and whenever it stops. What is left is a server that
\* answered when the script connected, and hangs for ever after.
InitEnds == (pc # "idle" ~> pc = "idle") \/ <>[]Hung

\* It ends in time: "one attempt would use up the whole wait" otherwise
\* (ATTEMPT_TIMEOUT).
ConnectsInTime == elapsed < Late

\* It gives up late enough to find a server that came up, and stayed up, at
\* least one attempt before the wait was over.
LateServerIsFound ==
    exitCode = 2 => /\ elapsed >= Wait
                    /\ upSince = Never \/ upSince >= Wait - Attempt

\* The types of the state, and how long the script tries: no longer than it may,
\* no shorter than a server needs that comes up late.
TriesLongEnough == TypeOK /\ ConnectsInTime /\ LateServerIsFound

\* Dedup, upsert keys, decimals and payload columns are those of the schema.
Usable(t) == table[t] \in {"right", "other"}

\* "Do NOT ingest into this schema": the scheduled job only ever runs over
\* tables that are there and in which nothing that verify looks for is wrong,
\* whatever was there at the first deploy, and whoever inserts while the
\* statements are executed. A difference it does not look for stays: see
\* ScheduledOverSchema.
ScheduledOverVerified == scheduler => \A t \in Tables : Usable(t)

\* A failed verification names a table that is wrong, and not one that the
\* script itself should have made.
FailureHasCause ==
    exitCode = 1 /\ ~checkOnly /\ ~lost /\ ~dropped
        => \E t \in Tables : table[t] \in LooksFor(t)

\* "the parser cannot start against an unverified schema" (docker-compose.yml),
\* said of every run. No run checks it, for it does not hold of one that is
\* started by hand.
IngestsVerified == ingesting => \A t \in Tables : Usable(t)

\* "What the schema must look like once applied. Checked, not assumed"
\* (questdb_init.py). No run checks it, for it does not hold: an insert that
\* makes cel_ingest_log, or an older table that differs elsewhere, passes.
ScheduledOverSchema == scheduler => \A t \in Tables : table[t] = "right"

=============================================================================
