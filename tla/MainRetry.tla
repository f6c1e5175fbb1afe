------------------------------ MODULE MainRetry ------------------------------
(***************************************************************************)
(* The loop around the runs of the main controller (driver/controller/     *)
(* main.go, Main): a run that ends with a reorganisation or a new template *)
(* is followed by another at once, a run that fails by another after a     *)
(* pause, and Main gives up when an error keeps coming back.               *)
(***************************************************************************)
EXTENDS Integers, Sequences, FiniteSets

CONSTANTS
    Retryable,              \* codes of driver errors and user runtime errors
    Final,                  \* codes of the other external errors
    maxDupErrRetryTimes,
    MaxRound                \* bound: number of runs

Internal == {"reorg", "template"}
NoCode == "no code"

VARIABLES
    round,
    lastExtErrCode, lastExtErrRound,
    main,                   \* "run", "waiting", "gave up", "failed", "cancelled", "done"
    outcomes,               \* history: how each run ended
    saved                   \* history: whether SaveError of that run succeeded

vars == <<round, lastExtErrCode, lastExtErrRound, main, outcomes, saved>>

Init ==
    /\ round = 0 /\ lastExtErrCode = NoCode /\ lastExtErrRound = 0
    /\ main = "run" /\ outcomes = <<>> /\ saved = <<>>

Ended(o, ok) ==
    /\ main = "run" /\ round < MaxRound
    /\ outcomes' = Append(outcomes, o) /\ saved' = Append(saved, ok)

RunDone ==
    /\ Ended("nil", TRUE)
    /\ main' = "done"
    /\ UNCHANGED <<round, lastExtErrCode, lastExtErrRound>>

RunAgain ==
    /\ \E o \in Internal : Ended(o, TRUE)
    /\ round' = round + 1
    /\ UNCHANGED <<lastExtErrCode, lastExtErrRound, main>>

\* An error that is not an ExternalError.
RunBroken ==
    /\ Ended("other", TRUE)
    /\ main' = "failed"
    /\ UNCHANGED <<round, lastExtErrCode, lastExtErrRound>>

\* Mutant: only the class of the error counts.
MayRetryByCode(code, ok) == code \in Retryable

MayRetry(code, ok) == code \in Retryable \/ ~ok

SameError(code, ok) == ok /\ code = lastExtErrCode

\* Mutant: one run more.
TooOftenLate == round - lastExtErrRound > maxDupErrRetryTimes

TooOften == round - lastExtErrRound >= maxDupErrRetryTimes

\* Mutant: the round of the last error of all.
NoteErrorRound(code, ok) ==
    IF SameError(code, ok) THEN UNCHANGED <<lastExtErrCode, lastExtErrRound>>
    ELSE lastExtErrCode' = code /\ UNCHANGED lastExtErrRound

NoteError(code, ok) ==
    IF SameError(code, ok) THEN UNCHANGED <<lastExtErrCode, lastExtErrRound>>
    ELSE lastExtErrCode' = code /\ lastExtErrRound' = round

RunFailed(code, ok) ==
    /\ Ended(code, ok)
    /\ IF MayRetry(code, ok)
       THEN /\ main' = IF SameError(code, ok) /\ TooOften THEN "gave up" ELSE "waiting"
            /\ NoteError(code, ok)
       ELSE main' = "failed" /\ UNCHANGED <<lastExtErrCode, lastExtErrRound>>
    /\ UNCHANGED round

\* RunWaiting has passed.
RetryNow ==
    /\ main = "waiting"
    /\ main' = "run" /\ round' = round + 1
    /\ UNCHANGED <<lastExtErrCode, lastExtErrRound, outcomes, saved>>

\* The driver is told to stop during the pause.
StopWaiting ==
    /\ main = "waiting"
    /\ main' = "cancelled"
    /\ UNCHANGED <<round, lastExtErrCode, lastExtErrRound, outcomes, saved>>

Next ==
    \/ RunDone \/ RunAgain \/ RunBroken \/ RetryNow \/ StopWaiting
    \/ \E code \in Retryable \cup Final, ok \in BOOLEAN : RunFailed(code, ok)

Spec == Init /\ [][Next]_vars

-----------------------------------------------------------------------------
Runs == DOMAIN outcomes
Latest(n) == (Len(outcomes) - n + 1) .. Len(outcomes)

\* Main ends with an external error only after it has written that error to
\* the checkpoint store.
EndsWithSavedError ==
    main \in {"failed", "gave up"} /\ outcomes[Len(outcomes)] # "other" => saved[Len(outcomes)]

\* Main gives up only when no other error, and no error that could not be
\* saved, came in the last maxDupErrRetryTimes runs.
GivesUpOnOneError ==
    main = "gave up" =>
        /\ Len(outcomes) > maxDupErrRetryTimes
        /\ \A i \in Latest(maxDupErrRetryTimes) :
              outcomes[i] \in Internal \/ (outcomes[i] = outcomes[Len(outcomes)] /\ saved[i])

\* An error that comes back in every run is not retried for ever.
PersistentErrorEnds ==
    Len(outcomes) > maxDupErrRetryTimes
      /\ (\E code \in Retryable :
            \A i \in Latest(maxDupErrRetryTimes + 1) : outcomes[i] = code /\ saved[i])
    => main = "gave up"

\* The warning of Main: "same error dupped %d times, will exit now".
GivesUpOnDuplicates ==
    main = "gave up" =>
        Cardinality({i \in Runs : outcomes[i] = outcomes[Len(outcomes)]}) > maxDupErrRetryTimes
=============================================================================
