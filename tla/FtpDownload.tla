---------------------------- MODULE FtpDownload ----------------------------
(***************************************************************************)
(* One download run over one FTP session: connecting, listing, and every   *)
(* transfer with its retries and reconnections.                            *)
(*                                                                         *)
(*   sftp_download_and_process.py   with_retries, FTPSession,              *)
(*                                  download_one, download_sdat_files      *)
(*                                                                         *)
(* Every network call may succeed, fail in passing (any exception but a    *)
(* 5xx reply) or be refused (error_perm); a failure in passing usually     *)
(* takes the control connection down, but need not.                        *)
(***************************************************************************)
EXTENDS Naturals, FiniteSets

CONSTANTS Entries,         \* the files selected from the server's listing
          NoEntry,         \* none of them
          RETRY_ATTEMPTS   \* tries of one operation

ASSUME EntriesAssumption == IsFiniteSet(Entries) /\ NoEntry \notin Entries
ASSUME RetryAssumption == RETRY_ATTEMPTS \in Nat \ {0}

VARIABLES
    pc,         \* connect, list, select, transfer, retry, over
    retrying,   \* what a reconnection is for: "list" or "transfer"
    attempt,    \* the attempt of the current operation
    link,       \* session.ftps: none, open, or dead without our knowing
    todo,       \* entries not tried
    current,    \* the entry being downloaded, when pc is transfer or retry
    part,       \* part[f]: the file <f>.part is absent, cut short, or whole
    final,      \* final[f]: so is the file f in incoming/
    count,      \* what download_sdat_files returns
    tries,      \* ghost: RETRs of f
    refused,    \* ghost: entries the server refused with a 5xx reply
    cut         \* ghost: entries whose reconnection failed

vars == <<pc, retrying, attempt, link, todo, current, part, final, count,
          tries, refused, cut>>
ghosts == <<tries, refused, cut>>
files == <<part, final, count>>

Content == {"absent", "cut", "whole"}

TypeOK ==
    /\ pc \in {"connect", "list", "select", "transfer", "retry", "over"}
    /\ retrying \in {"list", "transfer"}
    /\ attempt \in 1 .. RETRY_ATTEMPTS
    /\ link \in {"none", "open", "dead"}
    /\ todo \subseteq Entries
    /\ current \in Entries \cup {NoEntry}
    /\ part \in [Entries -> Content]
    /\ final \in [Entries -> Content]
    /\ count \in 0 .. Cardinality(Entries)
    /\ tries \in [Entries -> 0 .. RETRY_ATTEMPTS]
    /\ refused \subseteq Entries
    /\ cut \subseteq Entries

\* incoming/ holds no XML: quarantine_leftovers has run.
Init ==
    /\ pc = "connect"
    /\ retrying = "list"
    /\ attempt = 1
    /\ link = "none"
    /\ todo = {}
    /\ current = NoEntry
    /\ part = [f \in Entries |-> "absent"]
    /\ final = [f \in Entries |-> "absent"]
    /\ count = 0
    /\ tries = [f \in Entries |-> 0]
    /\ refused = {}
    /\ cut = {}

-----------------------------------------------------------------------------
(* with_retries                                                            *)

\* Mutant: one attempt too few.
CanRetry_oneLess == attempt < RETRY_ATTEMPTS - 1

CanRetry == attempt < RETRY_ATTEMPTS

\* Mutant: the attempts are not counted.
NextAttempt_uncounted == UNCHANGED attempt

NextAttempt == attempt' = attempt + 1

-----------------------------------------------------------------------------
(* session.open(): with_retries around _open, nothing before a retry.      *)

\* The except of download_sdat_files ends the run, its finally the session.
Stop ==
    /\ pc' = "over"
    /\ link' = "none"
    /\ current' = NoEntry
    /\ UNCHANGED <<retrying, attempt, todo>>

ConnectSucceeds ==
    /\ pc = "connect"
    /\ link' = "open"
    /\ attempt' = 1
    /\ pc' = "list"
    /\ UNCHANGED <<retrying, todo, current, files, ghosts>>

ConnectFalters ==
    /\ pc = "connect"
    /\ CanRetry
    /\ NextAttempt
    /\ UNCHANGED <<pc, retrying, link, todo, current, files, ghosts>>

\* The last attempt faltered, or any attempt was refused.
ConnectGivenUp ==
    /\ pc = "connect"
    /\ Stop
    /\ UNCHANGED <<files, ghosts>>

-----------------------------------------------------------------------------
(* Listing the server.                                                     *)

ListSucceeds ==
    /\ pc = "list"
    /\ link = "open"
    /\ todo' = Entries
    /\ attempt' = 1
    /\ pc' = "select"
    /\ UNCHANGED <<retrying, link, current, files, ghosts>>

\* MLSD fails in passing, for sure over a dead link.
ListFalters ==
    /\ pc = "list"
    /\ link' \in {link, "dead"}
    /\ CanRetry
    /\ retrying' = "list"
    /\ pc' = "retry"
    /\ UNCHANGED <<attempt, todo, current, files, ghosts>>

ListGivenUp ==
    /\ pc = "list"
    /\ Stop
    /\ UNCHANGED <<files, ghosts>>

-----------------------------------------------------------------------------
(* session.reopen(), before a retry: close, then one _open.                *)

\* Mutant: the listing is read again after every reconnection.
ReopenSucceeds_relisting ==
    /\ pc = "retry"
    /\ link' = "open"
    /\ attempt' = 1
    /\ pc' = "list"
    /\ UNCHANGED <<retrying, todo, current, files, ghosts>>

ReopenSucceeds ==
    /\ pc = "retry"
    /\ link' = "open"
    /\ NextAttempt
    /\ pc' = retrying
    /\ UNCHANGED <<retrying, todo, current, files, ghosts>>

\* partial.unlink(missing_ok=True)
DropPart(f) == part' = [part EXCEPT ![f] = "absent"]

\* download_one is done with the current entry.
NextEntry ==
    /\ pc' = "select"
    /\ current' = NoEntry
    /\ UNCHANGED <<retrying, attempt, todo>>

\* The run is over: while listing whatever the failure, while downloading
\* when the connection failed in passing.
ReopenFalters ==
    /\ pc = "retry"
    /\ Stop
    /\ \/ /\ retrying = "list"
          /\ UNCHANGED <<part, cut>>
       \/ /\ retrying = "transfer"
          /\ DropPart(current)
          /\ cut' = cut \cup {current}
    /\ UNCHANGED <<final, count, tries, refused>>

\* While downloading, a refusal of the login is handled like a refusal of
\* the file: the next entry is tried, over no connection.
ReopenRefused ==
    /\ pc = "retry"
    /\ \/ /\ retrying = "list"
          /\ Stop
          /\ UNCHANGED <<part, cut>>
       \/ /\ retrying = "transfer"
          /\ DropPart(current)
          /\ cut' = cut \cup {current}
          /\ link' = "none"
          /\ NextEntry
    /\ UNCHANGED <<final, count, tries, refused>>

-----------------------------------------------------------------------------
(* The loop over the entries, and download_one.                            *)

Select(f) ==
    /\ pc = "select"
    /\ f \in todo
    /\ todo' = todo \ {f}
    /\ current' = f
    /\ attempt' = 1
    /\ pc' = "transfer"
    /\ UNCHANGED <<retrying, link, files, ghosts>>

AllSelected ==
    /\ pc = "select"
    /\ todo = {}
    /\ Stop
    /\ UNCHANGED <<files, ghosts>>

Tried(f) == tries' = [tries EXCEPT ![f] = @ + 1]

\* The transfer completes; the .part becomes the file.
TransferSucceeds ==
    /\ pc = "transfer"
    /\ link = "open"
    /\ Tried(current)
    /\ final' = [final EXCEPT ![current] = "whole"]
    /\ part' = [part EXCEPT ![current] = "absent"]
    /\ count' = count + 1
    /\ NextEntry
    /\ UNCHANGED <<link, refused, cut>>

\* A 5xx reply to RETR.
TransferRefused ==
    /\ pc = "transfer"
    /\ link = "open"
    /\ Tried(current)
    /\ DropPart(current)
    /\ refused' = refused \cup {current}
    /\ NextEntry
    /\ UNCHANGED <<link, final, count, cut>>

\* RETR fails in passing: for sure over a dead link, and over none, where
\* there is no object to call. The .part is left as far as it got.
TransferFails ==
    /\ pc = "transfer"
    /\ link' \in {link, IF link = "none" THEN "none" ELSE "dead"}
    /\ Tried(current)

\* Mutant: the file is written under its own name from the start.
Receive_inPlace(f) == /\ final' = [final EXCEPT ![f] = "cut"]
                      /\ UNCHANGED part

\* What arrived before the failure is in the .part.
Receive(f) == /\ part' = [part EXCEPT ![f] = "cut"]
              /\ UNCHANGED final

TransferFalters ==
    /\ TransferFails
    /\ CanRetry
    /\ Receive(current)
    /\ retrying' = "transfer"
    /\ pc' = "retry"
    /\ UNCHANGED <<attempt, todo, current, count, refused, cut>>

\* With no session left download_one raises, with one it returns False.
AfterGivingUp == IF link = "none" THEN "over" ELSE "select"

\* The last attempt: the entry is given up.
TransferGivenUp ==
    /\ TransferFails
    /\ ~CanRetry
    /\ DropPart(current)
    /\ pc' = AfterGivingUp
    /\ current' = NoEntry
    /\ UNCHANGED <<retrying, attempt, todo, final, count, refused, cut>>

-----------------------------------------------------------------------------
Next ==
    \/ ConnectSucceeds \/ ConnectFalters \/ ConnectGivenUp
    \/ ListSucceeds \/ ListFalters \/ ListGivenUp
    \/ ReopenSucceeds \/ ReopenFalters \/ ReopenRefused
    \/ \E f \in Entries : Select(f)
    \/ AllSelected
    \/ TransferSucceeds \/ TransferRefused \/ TransferFalters
    \/ TransferGivenUp

\* The process keeps running: every call returns or times out.
Spec == Init /\ [][Next]_vars /\ WF_vars(Next)
-----------------------------------------------------------------------------
(* What a download promises.                                               *)

\* No interrupted transfer ever shows under a file's own name ("an interrupted
\* transfer cannot leave a truncated XML under its final name", download_one).
OnlyWholeFiles == \A f \in Entries : final[f] # "cut"

\* A run leaves no .part behind, whichever way it ends.
NoPartLeft == pc = "over" => \A f \in Entries : part[f] = "absent"

\* main() processes when the count is not zero: it is the files that landed.
CountIsLanded == count = Cardinality({f \in Entries : final[f] = "whole"})

\* Whatever broke, what a run leaves in incoming/ is whole and counted.
IncomingIsSound == TypeOK /\ OnlyWholeFiles /\ NoPartLeft /\ CountIsLanded

\* A retry always has a fresh connection ("a retry that does not reconnect
\* buys nothing", FTPSession).
RetriesOnFreshLink ==
    pc \in {"list", "transfer"} /\ attempt > 1 => link = "open"

\* Every way to end without a file was earned: the server refused it, the
\* connection could not be restored, or RETRY_ATTEMPTS transfers failed.
GivenUpAfterAllAttempts ==
    \A f \in Entries \ (refused \cup cut \cup {current}) :
        tries[f] > 0 /\ final[f] # "whole" => tries[f] = RETRY_ATTEMPTS

\* A file the server refused is not asked for again in the run ("`error_perm`
\* is never retried", with_retries).
RefusedOnce == [][\A f \in refused : tries'[f] = tries[f]]_vars

\* One bad file does not cost the others: once the server was listed, an
\* entry is left untried only when the connection could not be restored.
OthersAreTried == pc = "over" /\ todo # {} => cut # {}

\* A run gives a file up for a reason only: after every attempt, over a fresh
\* connection each, and never because of another file.
NothingGivenUpEarly ==
    RetriesOnFreshLink /\ GivenUpAfterAllAttempts /\ OthersAreTried

\* Every run comes to its end.
Terminates == <>(pc = "over")

\* Retrying stops: at a refusal, and after finitely many steps.
RetriesStop == RefusedOnce /\ Terminates

\* A run is a fetch phase as the daily job sees it.
Phase == INSTANCE FetchPhase WITH
             over <- pc = "over",
             wanted <- IF pc = "over" THEN {}
                       ELSE todo \cup ({current} \cap Entries),
             landed <- {f \in Entries : final[f] = "whole"}

ImplementsFetchPhase == Phase!Spec

\* "Reconnecting failed, so every remaining file would fail the same way. End
\* the run instead" (download_one).
FailedReopenEndsRun == cut # {} => pc = "over"

=============================================================================
