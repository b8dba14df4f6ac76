--------------------------------- MODULE Vault ---------------------------------
(***************************************************************************)
(* The vault of the web client: the key that seals what the browser        *)
(* stores.  It is kept wrapped under the user's PIN; the key manager has   *)
(* it in memory between an unlock and a lock, and the page shows a PIN     *)
(* prompt or the messages according to its own idea of the lock.  A lock   *)
(* may come at any moment of an unlock, which waits for the derivation of  *)
(* a key and for writes to the browser's database; a write may fail, and   *)
(* the page may be reloaded at any time.                                   *)
(*                                                                         *)
(* One tab.  Time is left out: a timer that is armed may fire, and a wait  *)
(* may be over, at any time.  No page sets visibilityDelayMs, so hiding    *)
(* the tab locks at once.                                                  *)
(***************************************************************************)

VARIABLES
    wrapped,         \* the wrapped key is stored
    dek,             \* the key manager has the key in memory
    timer,           \* the key manager's inactivityTimer is set
    lockState,       \* of the messages page: "locked", and "loading" and then
                     \* "shown" once it is "unlocked"; "signin" without the page
    op,              \* what the key manager is doing for the page
    cached,          \* the key manager's copy of the unlock attempts
    storedAttempts,  \* the unlock attempts stored: may a PIN be tried?
    hidden,          \* the tab is hidden
    gone             \* the user has gone and will not touch the page again

vaultVars == <<wrapped, dek, timer, lockState, op, cached, storedAttempts, hidden, gone>>

\* "wrapping" and "clearing" are the two writes of setupPin; "opening" and
\* "refusing" the derivation of a right and of a wrong key; "resetting" and
\* "recording" the writes that follow them.
Stage == {"idle", "wrapping", "clearing", "opening", "refusing", "resetting", "recording"}

VaultInit ==
    /\ wrapped = FALSE /\ dek = FALSE /\ timer = FALSE
    /\ hidden = FALSE /\ gone = FALSE
    /\ lockState = "signin"
    /\ op = "idle"
    /\ cached = "unread"
    /\ storedAttempts = "clear"

Present == ~gone /\ ~hidden

Unlocked == {"loading", "shown"}

-----------------------------------------------------------------------------
(* Locking.                                                                *)

\* Mutants of Lock: the inactivity timer goes on; the key is kept.
LockKeepsTimer ==
    /\ dek' = FALSE
    /\ lockState' = IF lockState = "signin" THEN lockState ELSE "locked"
    /\ UNCHANGED timer

LockKeepsKey ==
    /\ timer' = FALSE
    /\ lockState' = IF lockState = "signin" THEN lockState ELSE "locked"
    /\ UNCHANGED dek

\* lock, with the handleLock of the page for onLock.
Lock ==
    /\ dek' = FALSE
    /\ timer' = FALSE
    /\ lockState' = IF lockState = "signin" THEN lockState ELSE "locked"

Inactivity ==
    /\ timer
    /\ Lock
    /\ UNCHANGED <<wrapped, op, cached, storedAttempts, hidden, gone>>

\* The page's own ActivityTracker, which runs while it is unlocked.
Idle ==
    /\ lockState \in Unlocked
    /\ Lock
    /\ UNCHANGED <<wrapped, op, cached, storedAttempts, hidden, gone>>

HandleVisibility ==
    /\ hidden' = ~hidden
    /\ IF hidden THEN UNCHANGED <<dek, timer, lockState>> ELSE Lock
    /\ UNCHANGED <<wrapped, op, cached, storedAttempts, gone>>

\* The page may come back as it was.
HandlePageHide ==
    /\ Lock
    /\ UNCHANGED <<wrapped, op, cached, storedAttempts, hidden, gone>>

HandleActivity ==
    /\ Present
    /\ IF dek THEN timer' = TRUE ELSE UNCHANGED timer
    /\ UNCHANGED <<wrapped, dek, lockState, op, cached, storedAttempts, hidden, gone>>

-----------------------------------------------------------------------------
(* setupPin and unlock, one action from one await to the next.             *)

SetupPin ==
    /\ Present /\ lockState = "signin" /\ op = "idle" /\ ~wrapped
    /\ op' = "wrapping"
    /\ UNCHANGED <<wrapped, dek, timer, lockState, cached, storedAttempts, hidden, gone>>

\* Mutant of StoreWrapped: setupPin does not store the wrapped key.
StoreNothing ==
    /\ op = "wrapping"
    /\ cached' = "clear"
    /\ op' = "clearing"
    /\ UNCHANGED <<wrapped, dek, timer, lockState, storedAttempts, hidden, gone>>

StoreWrapped ==
    /\ op = "wrapping"
    /\ wrapped' = TRUE
    /\ cached' = "clear"
    /\ op' = "clearing"
    /\ UNCHANGED <<dek, timer, lockState, storedAttempts, hidden, gone>>

FinishSetup ==
    /\ op = "clearing"
    /\ storedAttempts' = "clear"
    /\ dek' = TRUE
    /\ timer' = TRUE
    /\ op' = "idle"
    /\ UNCHANGED <<wrapped, lockState, cached, hidden, gone>>

\* Mutant of Attempts: the stored attempts are never read.
AttemptsInMemory == IF cached = "unread" THEN "clear" ELSE cached

\* loadAttempts.
Attempts == IF cached = "unread" THEN storedAttempts ELSE cached

\* The prompt is shown while the page is locked and takes one PIN at a time.
TryPin(right) ==
    /\ Present /\ lockState = "locked" /\ op = "idle" /\ wrapped
    /\ cached' = Attempts
    /\ op' = IF Attempts = "waiting" THEN "idle"
             ELSE IF right THEN "opening" ELSE "refusing"
    /\ UNCHANGED <<wrapped, dek, timer, lockState, storedAttempts, hidden, gone>>

OpenWrapped ==
    /\ op = "opening"
    /\ dek' = TRUE
    /\ cached' = "clear"
    /\ op' = "resetting"
    /\ UNCHANGED <<wrapped, timer, lockState, storedAttempts, hidden, gone>>

\* resetInactivityTimer sees whether the key is still there, the page takes
\* itself for unlocked in any case.
FinishUnlock ==
    /\ op = "resetting"
    /\ storedAttempts' = "clear"
    /\ timer' = dek
    /\ lockState' = "loading"
    /\ op' = "idle"
    /\ UNCHANGED <<wrapped, dek, cached, hidden, gone>>

\* The PIN was wrong, or the attempts could not be written although it was right.
RecordFailedAttempt ==
    /\ op \in {"refusing", "resetting"}
    /\ cached' = "waiting"
    /\ op' = "recording"
    /\ UNCHANGED <<wrapped, dek, timer, lockState, storedAttempts, hidden, gone>>

StoreFailedAttempt ==
    /\ op = "recording"
    /\ storedAttempts' = cached
    /\ op' = "idle"
    /\ UNCHANGED <<wrapped, dek, timer, lockState, cached, hidden, gone>>

\* A write of setupPin, or of the failed attempt, that fails.
FailWrite ==
    /\ op \in {"wrapping", "clearing", "recording"}
    /\ op' = "idle"
    /\ UNCHANGED <<wrapped, dek, timer, lockState, cached, storedAttempts, hidden, gone>>

WaitIsOver ==
    /\ "waiting" \in {cached, storedAttempts}
    /\ cached' = IF cached = "waiting" THEN "clear" ELSE cached
    /\ storedAttempts' = "clear"
    /\ UNCHANGED <<wrapped, dek, timer, lockState, op, hidden, gone>>

-----------------------------------------------------------------------------
(* The page.                                                               *)

OpenPage ==
    /\ Present /\ lockState = "signin" /\ op = "idle" /\ wrapped
    /\ lockState' = IF dek THEN "loading" ELSE "locked"
    /\ UNCHANGED <<wrapped, dek, timer, op, cached, storedAttempts, hidden, gone>>

\* Not while a PIN is tried.
LeavePage ==
    /\ Present /\ lockState # "signin" /\ op = "idle"
    /\ lockState' = "signin"
    /\ UNCHANGED <<wrapped, dek, timer, op, cached, storedAttempts, hidden, gone>>

\* Mutant of Load: the key is not needed to load.
LoadUnchecked ==
    /\ lockState = "loading"
    /\ lockState' = "shown"
    /\ UNCHANGED <<wrapped, dek, timer, op, cached, storedAttempts, hidden, gone>>

\* An unlocked page loads its state from the secure store, and withDEK asks
\* for the PIN when the key is not there.  A lock cancels it.
Load ==
    /\ lockState = "loading"
    /\ lockState' = IF dek THEN "shown" ELSE "locked"
    /\ UNCHANGED <<wrapped, dek, timer, op, cached, storedAttempts, hidden, gone>>

\* Nothing but the database survives, a write under way happens or does not.
ReloadPage ==
    /\ dek' = FALSE
    /\ timer' = FALSE
    /\ cached' = "unread"
    /\ op' = "idle"
    /\ lockState' = IF lockState = "signin" THEN lockState ELSE "locked"
    /\ \/ UNCHANGED <<wrapped, storedAttempts>>
       \/ op = "wrapping" /\ wrapped' = TRUE /\ UNCHANGED storedAttempts
       \/ op \in {"clearing", "resetting"} /\ storedAttempts' = "clear" /\ UNCHANGED wrapped
       \/ op = "recording" /\ storedAttempts' = cached /\ UNCHANGED wrapped
    /\ UNCHANGED <<hidden, gone>>

GoAway ==
    /\ ~gone
    /\ gone' = TRUE
    /\ UNCHANGED <<wrapped, dek, timer, lockState, op, cached, storedAttempts, hidden>>

-----------------------------------------------------------------------------

Proceed ==
    \/ StoreWrapped \/ FinishSetup \/ OpenWrapped \/ FinishUnlock
    \/ RecordFailedAttempt \/ StoreFailedAttempt \/ FailWrite

VaultNext ==
    \/ Inactivity \/ Idle \/ HandleVisibility \/ HandlePageHide \/ HandleActivity
    \/ SetupPin \/ \E right \in BOOLEAN : TryPin(right)
    \/ Proceed \/ WaitIsOver
    \/ OpenPage \/ LeavePage \/ Load \/ ReloadPage \/ GoAway

VaultSpec == VaultInit /\ [][VaultNext]_vaultVars

\* Promises settle and effects run; an armed timer fires once nobody re-arms
\* it.  Nothing is expected of the user.
VaultFairness ==
    /\ WF_vaultVars(Proceed)
    /\ WF_vaultVars(Load)
    /\ WF_vaultVars(gone /\ (Inactivity \/ Idle))

VaultFairSpec == VaultSpec /\ VaultFairness

-----------------------------------------------------------------------------
(* Properties.                                                             *)

\* Type correctness; the key is in memory only once it has been wrapped.
VaultTypeOK ==
    /\ wrapped \in BOOLEAN /\ dek \in BOOLEAN /\ timer \in BOOLEAN
    /\ hidden \in BOOLEAN /\ gone \in BOOLEAN
    /\ lockState \in {"signin", "locked"} \cup Unlocked
    /\ op \in Stage
    /\ cached \in {"unread", "clear", "waiting"}
    /\ storedAttempts \in {"clear", "waiting"}
    /\ dek => wrapped

\* While the stored attempts say to wait no PIN is tried, whatever was locked,
\* reloaded or not written since the last failure.
NoTryWhileWaiting ==
    [][op = "idle" /\ op' \in {"opening", "refusing"} => storedAttempts = "clear"]_vaultVars

\* Nothing outlives the key: a page shows messages only while it is in memory,
\* although an unlock that was overtaken by a lock tells it that it is unlocked;
\* and no timer is left over from an earlier unlock, to lock a session it does
\* not belong to.
NothingOutlivesKey == (lockState = "shown" => dek) /\ (timer => dek)

\* When the user goes away from an unlocked page the key does not stay in
\* memory and the messages are not shown any more.
LocksWhenGone == gone /\ lockState \in Unlocked ~> ~dek /\ lockState = "locked"
===============================================================================
