----------------------------- MODULE RetryPolicy -----------------------------
(***************************************************************************)
(* What one attempt to deliver writes back: app/domain/retry.py and        *)
(* app/domain/dispatching.py.  A verdict is the new status, the attempt    *)
(* counter the row keeps, the next due moment (NoTime: leave it alone) and *)
(* whether the recipient is marked as having blocked the bot.              *)
(***************************************************************************)
EXTENDS Contracts, Integers

CONSTANTS
    MaxAttempts,   \* MAX_ATTEMPTS
    RetryDelay,    \* delay after a transient failure, by attempt number
    FloodDelay     \* Telegram's retry_after plus the extra second

ASSUME MaxAttemptsAssumption == MaxAttempts \in Nat \ {0}
ASSUME RetryDelayAssumption == RetryDelay \in [1..MaxAttempts -> Nat \ {0}]
ASSUME FloodDelayAssumption == FloodDelay \in Nat \ {0}

\* SQL NULL in a timestamp column, None in a verdict.
NoTime == -1

\* The claim charges an attempt up front; a refund gives it back.
Refund(attempts) == IF attempts = 0 THEN 0 ELSE attempts - 1

ShouldRetry(attempts, error) ==
    \/ error = "retry_after"
    \/ error = "transient" /\ attempts < MaxAttempts

DecideAbort(reason, attempts) ==
    [status |-> IF reason = "user_blocked" THEN "blocked" ELSE "failed",
     attempts |-> Refund(attempts), next_attempt_at |-> NoTime,
     blocks_user |-> FALSE]

DecideSuccess ==
    [status |-> "sent", attempts |-> 0, next_attempt_at |-> NoTime,
     blocks_user |-> FALSE]

DecideFailure(attempts, error, now) ==
    IF ~ShouldRetry(attempts, error)
    THEN [status |-> IF error = "forbidden" THEN "blocked" ELSE "failed",
          attempts |-> attempts, next_attempt_at |-> NoTime,
          blocks_user |-> error = "forbidden"]
    ELSE IF error = "retry_after"
    THEN [status |-> "pending", attempts |-> Refund(attempts),
          next_attempt_at |-> now + FloodDelay, blocks_user |-> FALSE]
    ELSE [status |-> "pending", attempts |-> attempts,
          next_attempt_at |-> now + RetryDelay[attempts],
          blocks_user |-> FALSE]
=============================================================================
