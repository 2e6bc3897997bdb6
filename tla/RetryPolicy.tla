----------------------------- MODULE RetryPolicy -----------------------------
(***************************************************************************)
(* The retry decision of omt (bins/omt/src/retry.rs).  classify_error      *)
(* matches the text of stderr; only its verdict matters here.              *)
(***************************************************************************)
EXTENDS Integers

ErrorClass == {"Retryable", "NonRetryable", "Unknown"}

SmallerOf(a, b) == IF a <= b THEN a ELSE b
LargerOf(a, b)  == IF a >= b THEN a ELSE b

\* RetryPolicy::with_task_count: twice the number of tasks, but at least 4.
BudgetFor(task_count) == LargerOf(2 * task_count, 4)

\* Mutant: off by one, as if max_attempts did not include the first attempt.
ShouldRetryOnceMore(attempt_count, max_attempts, class, global_retries_used, global_budget) ==
  /\ ~ (global_budget > 0 /\ global_retries_used >= global_budget)
  /\ \/ class = "Retryable" /\ attempt_count <= max_attempts
     \/ class = "Unknown"   /\ attempt_count < SmallerOf(2, max_attempts)

\* should_retry.  A global budget of 0 means no limit.
ShouldRetry(attempt_count, max_attempts, class, global_retries_used, global_budget) ==
  /\ ~ (global_budget > 0 /\ global_retries_used >= global_budget)
  /\ \/ class = "Retryable" /\ attempt_count < max_attempts
     \/ class = "Unknown"   /\ attempt_count < SmallerOf(2, max_attempts)
=============================================================================
